------------------------- MODULE XdpLoader_proofs -------------------------
(***************************************************************************)
(* Theorems about XdpLoader and the kernel module under it, for any        *)
(* number of processes, loaders and ABI versions.                          *)
(*                                                                         *)
(* Two facts carry the module's life.  While init runs, what is held is    *)
(* what stands before the rest of InitOrder (Initialising).  While the     *)
(* error path or exit runs, everything held is still to be given back, no  *)
(* entry comes twice, and every entry that is given back unconditionally   *)
(* is held (Unwinding); this is kept by dropping the head of the list,     *)
(* whichever list it is, so it is enough that every way into the error     *)
(* path and exit establishes it.  The loaders follow, with the way out     *)
(* of one that is stopping at the end.                                     *)
(***************************************************************************)
EXTENDS XdpLoader, SequenceTheorems, TLAPS

\* The first i - 1 resources of InitOrder.
HeldBefore(i) == {InitOrder[j] : j \in 1 .. (i - 1)}

InitFrom(i) == SubSeq(InitOrder, i, 9)

Initialising ==
    moduleState = "Coming" =>
        \E i \in 1 .. 9 : todo = InitFrom(i) /\ held = HeldBefore(i)

\* A list of things to give back that fits what is held.
Fits(list, has) ==
    /\ has \subseteq ToSet(list)
    /\ \A i \in 1 .. Len(list) : list[i] \in has \cup ReleasedIfHeld
    /\ \A i, j \in 1 .. Len(list) : list[i] = list[j] => i = j

Unwinding == moduleState = "Going" => todo # <<>> /\ Fits(todo, held)

\* Nobody uses the device of a module that is not Live.
UsersNeedModule == files \cup mappings # {} => moduleState = "Live"

KernelInv ==
    /\ KernelTypeOK
    /\ moduleState = "Unloaded" => held = {}
    /\ moduleState = "Live" => held = Resources
    /\ Initialising
    /\ Unwinding
    /\ UsersNeedModule

Holding == {"attach", "findMap", "loop", "sleep", "destroyLink", "closeDevice"}

Unlinked == {"gone", "open", "attach", "closeDevice"}

LoaderInv ==
    /\ \A l \in Loaders : pc[l] \in Holding => l \in files
    /\ \A l \in Loaders : pc[l] \in Unlinked => link # l

Inv == TypeOK /\ KernelInv /\ LoaderInv /\ PollsItsOwnVersion

-----------------------------------------------------------------------------
(* Lists of resources. *)

LEMMA TwoLists ==
    /\ InitOrder \in Seq(Resources) /\ Len(InitOrder) = 9
    /\ ExitOrder \in Seq(Resources) /\ Len(ExitOrder) = 9
    /\ ErrorPath \in Seq(Resources) /\ Len(ErrorPath) = 8
    /\ Resources = {"netdev", "cache", "object", "page", "percpu", "chrdev", "cdev",
                    "class", "device"}
<1>1. Resources = {"netdev", "cache", "object", "page", "percpu", "chrdev", "cdev",
                   "class", "device"}
  BY DEF Resources, ToSet, InitOrder
<1>2. InitOrder \in Seq(Resources) /\ Len(InitOrder) = 9
  BY <1>1 DEF InitOrder
<1>3. ExitOrder \in Seq(Resources) /\ Len(ExitOrder) = 9
  BY <1>1 DEF ExitOrder
<1>4. ErrorPath \in Seq(Resources) /\ Len(ErrorPath) = 8
  BY <1>1 DEF ErrorPath
<1> QED
  BY <1>1, <1>2, <1>3, <1>4

LEMMA HeadAndTail ==
    ASSUME NEW i \in 1 .. 9
    PROVE  /\ Head(InitFrom(i)) = InitOrder[i]
           /\ Tail(InitFrom(i)) = InitFrom(i + 1)
           /\ InitFrom(i) \in Seq(Resources)
           /\ i < 9 => InitFrom(i + 1) # <<>>
           /\ i = 9 => InitFrom(i + 1) = <<>>
           /\ HeldBefore(i) \cup {InitOrder[i]} = HeldBefore(i + 1)
           /\ HeldBefore(i) \subseteq Resources
           /\ InitOrder[i] \in Resources
<1>1. Head(InitFrom(i)) = InitOrder[i] /\ Tail(InitFrom(i)) = InitFrom(i + 1)
  BY TwoLists, HeadTailOfSubSeq DEF InitFrom
<1>2. \A j \in 1 .. 9 : InitOrder[j] \in Resources
  BY TwoLists, ElementOfSeq
<1>3. InitFrom(i) \in Seq(Resources)
  BY <1>2, SubSeqProperties DEF InitFrom
<1>4. i < 9 => InitFrom(i + 1) # <<>>
  <2> SUFFICES ASSUME i < 9 PROVE Len(InitFrom(i + 1)) # 0
    BY SMT
  <2> QED
    BY <1>2, SubSeqProperties DEF InitFrom
<1>5. i = 9 => InitFrom(i + 1) = <<>>
  BY SubSeqEmpty DEF InitFrom
<1>6. HeldBefore(i) \cup {InitOrder[i]} = HeldBefore(i + 1)
  BY DEF HeldBefore
<1> QED
  BY <1>1, <1>2, <1>3, <1>4, <1>5, <1>6 DEF HeldBefore

\* Dropping the head of a list that fits gives a list that fits.
LEMMA FitsTail ==
    ASSUME NEW list \in Seq(Resources), list # <<>>, NEW has, Fits(list, has)
    PROVE  Fits(Tail(list), has \ {Head(list)})
<1>1. /\ Tail(list) \in Seq(Resources)
      /\ Len(Tail(list)) = Len(list) - 1
      /\ \A i \in 1 .. Len(Tail(list)) : Tail(list)[i] = list[i + 1]
      /\ Head(list) = list[1]
  BY HeadTailProperties
<1>2. has \ {Head(list)} \subseteq ToSet(Tail(list))
  <2> SUFFICES ASSUME NEW r \in has, r # Head(list) PROVE r \in ToSet(Tail(list))
    OBVIOUS
  <2>1. PICK i \in 1 .. Len(list) : list[i] = r
    <3>1. PICK k \in DOMAIN list : list[k] = r
      BY DEF Fits, ToSet
    <3> QED
      BY <3>1
  <2>2. i # 1 /\ i - 1 \in 1 .. Len(Tail(list)) /\ Tail(list)[i - 1] = r
    BY <1>1, <2>1
  <2>3. DOMAIN Tail(list) = 1 .. Len(Tail(list))
    BY <1>1
  <2> QED
    BY <2>2, <2>3 DEF ToSet
<1>3. \A i \in 1 .. Len(Tail(list)) :
        Tail(list)[i] \in (has \ {Head(list)}) \cup ReleasedIfHeld
  <2> SUFFICES ASSUME NEW i \in 1 .. Len(Tail(list))
               PROVE  Tail(list)[i] \in (has \ {Head(list)}) \cup ReleasedIfHeld
    OBVIOUS
  <2>1. i + 1 \in 1 .. Len(list) /\ 1 \in 1 .. Len(list) /\ Tail(list)[i] = list[i + 1]
    BY <1>1
  <2>2. list[i + 1] # list[1]
    BY <2>1 DEF Fits
  <2> QED
    BY <1>1, <2>1, <2>2 DEF Fits
<1>4. \A i, j \in 1 .. Len(Tail(list)) : Tail(list)[i] = Tail(list)[j] => i = j
  <2> SUFFICES ASSUME NEW i \in 1 .. Len(Tail(list)), NEW j \in 1 .. Len(Tail(list)),
                      Tail(list)[i] = Tail(list)[j]
               PROVE  i = j
    OBVIOUS
  <2>1. i + 1 \in 1 .. Len(list) /\ j + 1 \in 1 .. Len(list) /\ list[i + 1] = list[j + 1]
    BY <1>1
  <2> QED
    BY <2>1 DEF Fits
<1> QED
  BY <1>2, <1>3, <1>4 DEF Fits

\* The labels of the error path, each with the rest of the path.
LEMMA ErrorPathFits ==
    ASSUME NEW k \in 1 .. 4, NEW has,
           has \subseteq {ErrorPath[j] : j \in k .. 8},
           \A j \in k .. 8 : ErrorPath[j] \in has \cup ReleasedIfHeld
    PROVE  /\ ErrorPathFrom(k) \in Seq(Resources)
           /\ ErrorPathFrom(k) # <<>>
           /\ Fits(ErrorPathFrom(k), has)
<1> DEFINE rest == ErrorPathFrom(k)
<1>1. /\ rest \in Seq(Resources)
      /\ Len(rest) = 9 - k
      /\ \A j \in 1 .. 9 - k : rest[j] = ErrorPath[k + j - 1]
  <2>1. \A j \in k .. 8 : ErrorPath[j] \in Resources
    <3> SUFFICES ASSUME NEW j \in k .. 8 PROVE ErrorPath[j] \in Resources
      OBVIOUS
    <3>1. j \in 1 .. Len(ErrorPath)
      BY TwoLists
    <3> QED
      BY <3>1, TwoLists, ElementOfSeq
  <2>2. rest = SubSeq(ErrorPath, k, 8)
    BY TwoLists DEF ErrorPathFrom
  <2> QED
    BY <2>1, <2>2, SubSeqProperties
<1>2. \A i, j \in 1 .. 8 : ErrorPath[i] = ErrorPath[j] => i = j
  BY DEF ErrorPath
<1>3. \A i, j \in 1 .. Len(rest) : rest[i] = rest[j] => i = j
  <2> SUFFICES ASSUME NEW i \in 1 .. 9 - k, NEW j \in 1 .. 9 - k, rest[i] = rest[j]
               PROVE  i = j
    BY <1>1
  <2>1. ErrorPath[k + i - 1] = ErrorPath[k + j - 1]
    BY <1>1
  <2>2. k + i - 1 \in 1 .. 8 /\ k + j - 1 \in 1 .. 8
    OBVIOUS
  <2>3. k + i - 1 = k + j - 1
    BY <1>2, <2>1, <2>2
  <2> QED
    BY <2>3
<1>4. \A i \in 1 .. Len(rest) : rest[i] \in has \cup ReleasedIfHeld
  <2> SUFFICES ASSUME NEW i \in 1 .. 9 - k PROVE rest[i] \in has \cup ReleasedIfHeld
    BY <1>1
  <2>1. k + i - 1 \in k .. 8 /\ rest[i] = ErrorPath[k + i - 1]
    BY <1>1
  <2> QED
    BY <2>1
<1>5. has \subseteq ToSet(rest)
  <2> SUFFICES ASSUME NEW r \in has PROVE r \in ToSet(rest)
    OBVIOUS
  <2>1. PICK j \in k .. 8 : r = ErrorPath[j]
    OBVIOUS
  <2>2. j - k + 1 \in 1 .. 9 - k /\ rest[j - k + 1] = r
    BY <1>1, <2>1
  <2>3. DOMAIN rest = 1 .. 9 - k
    BY <1>1
  <2> QED
    BY <2>2, <2>3 DEF ToSet
<1>6. rest # <<>>
  BY <1>1
<1> QED
  BY <1>1, <1>3, <1>4, <1>5, <1>6 DEF Fits

\* Wherever init fails, what it then gives back is what it holds.
LEMMA UnwindFits ==
    ASSUME NEW i \in 1 .. 9
    PROVE  /\ Unwind(InitOrder[i]) \in Seq(Resources)
           /\ Unwind(InitOrder[i]) = <<>> => HeldBefore(i) = {}
           /\ Unwind(InitOrder[i]) # <<>> =>
                Fits(Unwind(InitOrder[i]), HeldBefore(i))
<1>1. CASE i = 1
  BY <1>1 DEF Unwind, InitOrder, HeldBefore
<1>2. CASE i = 2
  BY <1>2, TwoLists DEF Unwind, InitOrder, HeldBefore, Fits, ToSet
<1>3. CASE i = 3
  BY <1>3, TwoLists DEF Unwind, InitOrder, HeldBefore, Fits, ToSet
<1>4. CASE i = 4
  BY <1>4, TwoLists DEF Unwind, InitOrder, HeldBefore, Fits, ToSet
<1>5. CASE i = 5
  BY <1>5, ErrorPathFits DEF Unwind, InitOrder, ErrorPath, HeldBefore, ReleasedIfHeld
<1>6. CASE i = 6
  BY <1>6, ErrorPathFits DEF Unwind, InitOrder, ErrorPath, HeldBefore, ReleasedIfHeld
<1>7. CASE i = 7
  BY <1>7, ErrorPathFits DEF Unwind, InitOrder, ErrorPath, HeldBefore, ReleasedIfHeld
<1>8. CASE i = 8
  BY <1>8, ErrorPathFits DEF Unwind, InitOrder, ErrorPath, HeldBefore, ReleasedIfHeld
<1>9. CASE i = 9
  <2>1. Unwind(InitOrder[9]) = ErrorPathFrom(1)
    BY DEF Unwind, InitOrder
  <2>2. HeldBefore(9) = {"netdev", "cache", "object", "page", "percpu", "chrdev", "cdev", "class"}
    BY DEF InitOrder, HeldBefore
  <2>3. /\ HeldBefore(9) \subseteq {ErrorPath[j] : j \in 1 .. 8}
        /\ \A j \in 1 .. 8 : ErrorPath[j] \in HeldBefore(9)
    BY <2>2 DEF ErrorPath
  <2>4. /\ ErrorPathFrom(1) \in Seq(Resources) /\ ErrorPathFrom(1) # <<>>
        /\ Fits(ErrorPathFrom(1), HeldBefore(9))
    BY <2>3, ErrorPathFits
  <2> QED
    BY <1>9, <2>1, <2>4
<1> QED
  BY <1>1, <1>2, <1>3, <1>4, <1>5, <1>6, <1>7, <1>8, <1>9

LEMMA ExitFits == ExitOrder # <<>> /\ Fits(ExitOrder, Resources)
  BY TwoLists DEF ExitOrder, Fits, ToSet

-----------------------------------------------------------------------------
(* The invariant. *)

LEMMA InitInv == Init => Inv
  BY LoadersAssumption, TwoLists
     DEF Init, KernelInit, Inv, TypeOK, KernelTypeOK, KernelInv, LoaderInv, Initialising,
         Unwinding, UsersNeedModule, Holding, Unlinked, PollsItsOwnVersion

\* The steps of insmod and rmmod.
LEMMA KernelSteps ==
    ASSUME KernelInv, KernelNext PROVE KernelInv' /\ UNCHANGED <<files, mappings>>
<1> USE DEF KernelInv, KernelTypeOK
<1>1. ASSUME NEW version \in Versions, Insmod(version)
      PROVE  KernelInv' /\ UNCHANGED <<files, mappings>>
  <2>1. InitOrder = InitFrom(1)
    BY TwoLists, SubSeqFull DEF InitFrom
  <2>2. HeldBefore(1) = {}
    BY DEF HeldBefore
  <2>3. Initialising'
    <3>1. todo' = InitFrom(1) /\ held' = HeldBefore(1)
      BY <1>1, <2>1, <2>2 DEF Insmod
    <3>2. 1 \in 1 .. 9
      OBVIOUS
    <3> QED
      BY <3>1, <3>2 DEF Initialising
  <2> QED
    BY <1>1, <2>3, TwoLists DEF Insmod, Unwinding, UsersNeedModule
<1>2. ASSUME Acquire PROVE KernelInv' /\ UNCHANGED <<files, mappings>>
  <2>1. PICK i \in 1 .. 9 : todo = InitFrom(i) /\ held = HeldBefore(i)
    BY <1>2 DEF Acquire, Initialising
  <2>2. /\ held' = HeldBefore(i + 1)
        /\ todo' = InitFrom(i + 1)
        /\ moduleState' = IF i = 9 THEN "Live" ELSE "Coming"
        /\ UNCHANGED <<abi, files, mappings>>
    <3>1. /\ Head(InitFrom(i)) = InitOrder[i]
          /\ Tail(InitFrom(i)) = InitFrom(i + 1)
          /\ HeldBefore(i) \cup {InitOrder[i]} = HeldBefore(i + 1)
      BY HeadAndTail
    <3>2. InitFrom(i + 1) = <<>> <=> i = 9
      <4>1. i < 9 => InitFrom(i + 1) # <<>>
        BY HeadAndTail
      <4>2. i = 9 => InitFrom(i + 1) = <<>>
        BY HeadAndTail
      <4> QED
        BY <4>1, <4>2
    <3> HIDE DEF KernelInv, KernelTypeOK
    <3> QED
      BY <1>2, <2>1, <3>1, <3>2 DEF Acquire
  <2>3. CASE i = 9
    <3>1. HeldBefore(10) = Resources
      BY TwoLists DEF HeldBefore, InitOrder
    <3>2. InitFrom(10) = <<>> /\ <<>> \in Seq(Resources)
      BY <2>3, HeadAndTail
    <3>3. i + 1 = 10
      BY <2>3
    <3>4. held' = Resources /\ todo' = <<>> /\ moduleState' = "Live"
      BY <2>2, <2>3, <3>1, <3>2, <3>3
    <3> QED
      BY <2>2, <3>2, <3>4 DEF Initialising, Unwinding, UsersNeedModule
  <2>4. CASE i < 9
    <3>1. i + 1 \in 1 .. 9
      BY <2>4
    <3>2. held' \subseteq Resources /\ todo' \in Seq(Resources)
      BY <2>2, <3>1, HeadAndTail
    <3>3. files \cup mappings = {}
      BY <1>2 DEF Acquire, UsersNeedModule
    <3> QED
      BY <2>2, <2>4, <3>1, <3>2, <3>3 DEF Initialising, Unwinding, UsersNeedModule
  <2> QED
    BY <2>3, <2>4
<1>3. ASSUME AcquireFails PROVE KernelInv' /\ UNCHANGED <<files, mappings>>
  <2>1. PICK i \in 1 .. 9 : todo = InitFrom(i) /\ held = HeldBefore(i)
    BY <1>3 DEF AcquireFails, Initialising
  <2>2. /\ todo' = Unwind(InitOrder[i])
        /\ moduleState' = IF todo' = <<>> THEN "Unloaded" ELSE "Going"
        /\ UNCHANGED <<held, abi, files, mappings>>
    BY <1>3, <2>1, HeadAndTail DEF AcquireFails
  <2>3. files \cup mappings = {}
    BY <1>3 DEF AcquireFails, UsersNeedModule
  <2> QED
    BY <2>1, <2>2, <2>3, UnwindFits DEF Initialising, Unwinding, UsersNeedModule
<1>4. ASSUME Release PROVE KernelInv' /\ UNCHANGED <<files, mappings>>
  <2>1. /\ todo # <<>> /\ Fits(todo, held)
        /\ held' = held \ {Head(todo)}
        /\ todo' = Tail(todo)
        /\ moduleState' = IF todo' = <<>> THEN "Unloaded" ELSE "Going"
        /\ UNCHANGED <<abi, files, mappings>>
    BY <1>4 DEF Release, Unwinding
  <2>2. todo' \in Seq(Resources) /\ Fits(todo', held')
    BY <2>1, FitsTail, HeadTailProperties
  <2>3. todo' = <<>> => held' = {}
    BY <2>2 DEF Fits, ToSet
  <2>4. files \cup mappings = {}
    BY <1>4 DEF Release, UsersNeedModule
  <2> QED
    BY <2>1, <2>2, <2>3, <2>4 DEF Initialising, Unwinding, UsersNeedModule
<1>5. ASSUME Rmmod PROVE KernelInv' /\ UNCHANGED <<files, mappings>>
  BY <1>5, ExitFits, TwoLists DEF Rmmod, Initialising, Unwinding, UsersNeedModule
<1> QED
  BY <1>1, <1>2, <1>3, <1>4, <1>5 DEF KernelNext

\* What init has not acquired cannot be opened.
LEMMA OpenModuleIsLive ==
    ASSUME KernelInv, DeviceOpens PROVE moduleState = "Live" /\ held = Resources
<1>1. "device" \notin {} /\ moduleState # "Unloaded" /\ moduleState # "Going"
  BY DEF DeviceOpens, KernelInv
<1>2. ASSUME NEW i \in 1 .. 9 PROVE "device" \notin HeldBefore(i)
  BY DEF HeldBefore, InitOrder
<1>3. moduleState # "Coming"
  BY <1>2 DEF DeviceOpens, KernelInv, Initialising
<1> QED
  BY <1>1, <1>3 DEF KernelInv, KernelTypeOK

\* The steps of a process at the device.
LEMMA DeviceSteps ==
    ASSUME KernelInv, NEW p \in Processes, OtherProcess(p)
    PROVE  /\ KernelInv'
           /\ UNCHANGED abi
           /\ files' \in {files \cup {p}, files \ {p}, files}
<1> USE DEF KernelInv, KernelTypeOK, Initialising, Unwinding, UsersNeedModule
<1>1. ASSUME Open(p) PROVE KernelInv' /\ UNCHANGED abi /\ files' = files \cup {p}
  <2>1. moduleState = "Live"
    BY <1>1, OpenModuleIsLive DEF Open
  <2> QED
    BY <1>1, <2>1 DEF Open
<1>2. ASSUME Close(p) PROVE KernelInv' /\ UNCHANGED abi /\ files' = files \ {p}
  BY <1>2 DEF Close
<1>3. ASSUME Mmap(p) PROVE KernelInv' /\ UNCHANGED abi /\ files' = files
  BY <1>3 DEF Mmap
<1>4. ASSUME Munmap(p) PROVE KernelInv' /\ UNCHANGED abi /\ files' = files
  BY <1>4 DEF Munmap
<1> QED
  BY <1>1, <1>2, <1>3, <1>4 DEF OtherProcess

\* The steps of the loaders, with what they do to the device.
LEMMA LoaderSteps ==
    ASSUME Inv, NEW l \in Loaders,
           Start(l) \/ Proceed(l) \/ HandleSignal(l) \/ Crash(l)
    PROVE  Inv'
<1> USE LoadersAssumption DEF Inv, TypeOK, LoaderInv, PollsItsOwnVersion, Holding, Unlinked
<1>1. ASSUME UNCHANGED kernelVars PROVE KernelInv'
  BY <1>1 DEF kernelVars, KernelInv, KernelTypeOK, Initialising, Unwinding, UsersNeedModule
<1>2. ASSUME Open(l) PROVE KernelInv' /\ UNCHANGED abi /\ files' = files \cup {l}
  <2>1. files' = files \cup {l} /\ UNCHANGED abi
    BY <1>2 DEF Open
  <2> QED
    BY <1>2, <2>1, DeviceSteps DEF OtherProcess
<1>3. ASSUME Close(l) PROVE KernelInv' /\ UNCHANGED abi /\ files' = files \ {l}
  <2>1. files' = files \ {l} /\ UNCHANGED abi
    BY <1>3 DEF Close
  <2> QED
    BY <1>3, <2>1, DeviceSteps DEF OtherProcess
<1>4. ASSUME KernelInv' PROVE KernelTypeOK'
  BY <1>4 DEF KernelInv
<1>5. CASE Start(l)
  BY <1>1, <1>4, <1>5 DEF Start, Goto, kernelVars
<1>6. CASE OpenDevice(l)
  <2>1. CASE Open(l) /\ Goto(l, "attach") /\ UNCHANGED status
    BY <1>2, <1>4, <1>6, <2>1 DEF OpenDevice, Goto
  <2>2. CASE ~Open(l) \/ ~Goto(l, "attach")
    BY <1>1, <1>4, <1>6, <2>2 DEF OpenDevice, Goto, kernelVars
  <2> QED
    BY <1>6, <2>1, <2>2, <1>1, <1>4 DEF OpenDevice, Goto, kernelVars
<1>7. CASE Attach(l)
  BY <1>1, <1>4, <1>7 DEF Attach, Goto, Out, kernelVars
<1>8. CASE FindMap(l)
  BY <1>1, <1>4, <1>8 DEF FindMap, Goto, Out, kernelVars
<1>9. CASE Poll(l)
  BY <1>1, <1>4, <1>9 DEF Poll, DeviceIsAlive, Goto, Out, kernelVars
<1>10. CASE Wake(l)
  BY <1>1, <1>4, <1>10 DEF Wake, Goto, kernelVars
<1>11. CASE DestroyLink(l)
  BY <1>1, <1>4, <1>11 DEF DestroyLink, Goto, kernelVars
<1>12. CASE CloseDevice(l)
  BY <1>3, <1>4, <1>12 DEF CloseDevice, Goto
<1>13. CASE Reap(l)
  <2>1. CASE Close(l) /\ UNCHANGED <<pc, link>>
    BY <1>3, <1>4, <1>13, <2>1 DEF Reap
  <2>2. CASE link = l /\ link' = None /\ UNCHANGED <<kernelVars, pc>>
    BY <1>1, <1>4, <1>13, <2>2 DEF Reap, kernelVars
  <2>3. CASE l \notin files /\ link # l /\ Goto(l, "gone") /\ UNCHANGED <<kernelVars, link>>
    BY <1>1, <1>4, <1>13, <2>3 DEF Reap, Goto, kernelVars
  <2> QED
    BY <1>13, <2>1, <2>2, <2>3 DEF Reap
<1>14. CASE HandleSignal(l)
  BY <1>1, <1>4, <1>14 DEF HandleSignal, kernelVars
<1>15. CASE Crash(l)
  BY <1>1, <1>4, <1>15 DEF Crash, Goto, kernelVars
<1> QED
  BY <1>5, <1>6, <1>7, <1>8, <1>9, <1>10, <1>11, <1>12, <1>13, <1>14, <1>15 DEF Proceed

LEMMA Preservation == Inv /\ [Next]_vars => Inv'
<1> SUFFICES ASSUME Inv, [Next]_vars PROVE Inv'
  OBVIOUS
<1> DEFINE LoadersRest == UNCHANGED <<pc, stopRequested, link, failed, status>>
<1>1. CASE \E l \in Loaders : Start(l) \/ Proceed(l) \/ HandleSignal(l) \/ Crash(l)
  BY <1>1, LoaderSteps
<1>2. CASE KernelNext /\ LoadersRest
  <2>1. KernelInv' /\ UNCHANGED <<files, mappings>>
    BY <1>2, KernelSteps DEF Inv
  <2>2. \A l \in Loaders : l \in files => moduleState = "Live"
    BY DEF Inv, KernelInv, UsersNeedModule
  <2>3. moduleState = "Live" => UNCHANGED abi
    BY <1>2 DEF KernelNext, Insmod, Acquire, AcquireFails, Release, Rmmod
  <2> QED
    BY <1>2, <2>1, <2>2, <2>3
       DEF Inv, TypeOK, KernelInv, LoaderInv, PollsItsOwnVersion, Holding
<1>3. CASE (\E p \in Processes \ Loaders : OtherProcess(p)) /\ LoadersRest
  <2>1. PICK p \in Processes \ Loaders : OtherProcess(p)
    BY <1>3
  <2>2. KernelInv' /\ UNCHANGED abi /\ files' \in {files \cup {p}, files \ {p}, files}
    BY <2>1, DeviceSteps DEF Inv
  <2> QED
    BY <1>3, <2>1, <2>2 DEF Inv, TypeOK, KernelInv, LoaderInv, PollsItsOwnVersion
<1>4. CASE UNCHANGED vars
  BY <1>4 DEF vars, kernelVars, Inv, TypeOK, KernelTypeOK, KernelInv, Initialising, Unwinding,
              UsersNeedModule, LoaderInv, PollsItsOwnVersion
<1> QED
  BY <1>1, <1>2, <1>3, <1>4 DEF Next

LEMMA InvHolds == Spec => []Inv
  BY InitInv, Preservation, PTL DEF Spec

-----------------------------------------------------------------------------

\* The kernel's view of the module, its users and the loaders' locals stay well-typed.
THEOREM TypeCorrect == Spec => []TypeOK
  BY InvHolds, PTL DEF Inv

\* Whichever step of init fails and whoever opens the device when, its users
\* have a complete module behind it.
THEOREM UsersAreSafe == Spec => []UsersFindWholeModule
<1>1. Inv => UsersFindWholeModule
  BY DEF Inv, KernelInv, UsersNeedModule, UsersFindWholeModule
<1> QED
  BY <1>1, InvHolds, PTL

\* init's error paths and exit give back everything, each thing once.
THEOREM ModuleGivesBack == Spec => []NothingLeaks
<1>1. Inv => NothingLeaks
  <2> SUFFICES ASSUME Inv, moduleState = "Going"
               PROVE  Head(todo) \in held \cup ReleasedIfHeld
    BY DEF Inv, KernelInv, NothingLeaks
  <2>1. todo \in Seq(Resources) /\ todo # <<>> /\ Fits(todo, held)
    BY DEF Inv, KernelInv, KernelTypeOK, Unwinding
  <2>2. 1 \in 1 .. Len(todo) /\ Head(todo) = todo[1]
    BY <2>1
  <2> QED
    BY <2>1, <2>2 DEF Fits
<1> QED
  BY <1>1, InvHolds, PTL

\* No live loader has a link attached without the device open.
THEOREM LinksAreLeased == Spec => []LinkIsLeased
<1>1. Inv => LinkIsLeased
  BY DEF Inv, TypeOK, LoaderInv, LinkIsLeased, Holding, Unlinked
<1> QED
  BY <1>1, InvHolds, PTL

\* A loader that goes on polling has a module of its own version, for as long
\* as its file keeps the module in place.
THEOREM PollsOwnVersion == Spec => []PollsItsOwnVersion
  BY InvHolds, PTL DEF Inv

-----------------------------------------------------------------------------
(* A loader that stops comes closer to the end of its run with every step  *)
(* of its own, and nothing takes it back: the part of StoppingDetaches     *)
(* that is about states and steps.                                         *)

Stopping(l) == pc[l] # "gone" /\ (stopRequested[l] \/ pc[l] = "killed")

\* The steps that are left: the longest way out of main, or what the kernel still
\* has to close.
StepsLeft(l) ==
    CASE pc[l] = "open" -> 10
      [] pc[l] = "attach" -> 9
      [] pc[l] = "findMap" -> 8
      [] pc[l] = "sleep" -> 7
      [] pc[l] = "loop" -> 6
      [] pc[l] = "destroyLink" -> 5
      [] pc[l] = "closeDevice" -> 4
      [] pc[l] = "killed" -> 1 + (IF l \in files THEN 1 ELSE 0) + (IF link = l THEN 1 ELSE 0)
      [] OTHER -> 0

\* A stopping loader goes on stopping until it is gone, its own steps bring it
\* nearer, and neither signals, crashes, other loaders nor the kernel take it back.
StoppingGoesOn ==
    [][\A l \in Loaders : Stopping(l) =>
         /\ Stopping(l)' \/ pc'[l] = "gone"
         /\ StepsLeft(l)' <= StepsLeft(l)
         /\ Proceed(l) => StepsLeft(l)' < StepsLeft(l)]_vars

\* The last close of main always has a file to close, and no link is left by then:
\* whichever call failed, all goto out lead through the link.
StoppedIsDetached ==
    \A l \in Loaders :
        /\ pc[l] = "closeDevice" => l \in files
        /\ pc[l] \in {"closeDevice", "gone"} => link # l

\* What the steps of others do to l: nothing.
LEMMA OthersAside ==
    ASSUME NEW l \in Loaders, UNCHANGED <<pc[l], stopRequested[l]>>,
           l \in files' <=> l \in files, link' = l <=> link = l
    PROVE  StepsLeft(l)' = StepsLeft(l) /\ (Stopping(l)' <=> Stopping(l))
BY DEF StepsLeft, Stopping

\* The step of a loader touches its own file and link, and nobody else's.
LEMMA StepFrame ==
    ASSUME Inv, NEW k \in Loaders, NEW l \in Loaders, k # l,
           Start(k) \/ Proceed(k) \/ HandleSignal(k) \/ Crash(k)
    PROVE  /\ UNCHANGED <<pc[l], stopRequested[l]>>
           /\ l \in files' <=> l \in files
           /\ link' = l <=> link = l
<1> USE LoadersAssumption DEF Inv, TypeOK, Goto, Out, kernelVars
<1>1. CASE Start(k)
  BY <1>1 DEF Start
<1>2. CASE OpenDevice(k)
  BY <1>2 DEF OpenDevice, Open
<1>3. CASE Attach(k)
  BY <1>3 DEF Attach
<1>4. CASE FindMap(k)
  BY <1>4 DEF FindMap
<1>5. CASE Poll(k)
  BY <1>5 DEF Poll
<1>6. CASE Wake(k)
  BY <1>6 DEF Wake
<1>7. CASE DestroyLink(k)
  BY <1>7 DEF DestroyLink
<1>8. CASE CloseDevice(k)
  BY <1>8 DEF CloseDevice, Close
<1>9. CASE Reap(k)
  BY <1>9 DEF Reap, Close
<1>10. CASE HandleSignal(k)
  BY <1>10 DEF HandleSignal
<1>11. CASE Crash(k)
  BY <1>11 DEF Crash
<1> QED
  BY <1>1, <1>2, <1>3, <1>4, <1>5, <1>6, <1>7, <1>8, <1>9, <1>10, <1>11 DEF Proceed

\* What a step means for a stopping loader that takes it.
LEMMA OwnSteps ==
    ASSUME Inv, NEW l \in Loaders, Stopping(l), Proceed(l)
    PROVE  (Stopping(l)' \/ pc'[l] = "gone") /\ StepsLeft(l)' < StepsLeft(l)
<1> USE LoadersAssumption DEF Inv, TypeOK, Goto, Out, kernelVars, Stopping, StepsLeft
<1>1. CASE OpenDevice(l)
  BY <1>1 DEF OpenDevice
<1>2. CASE Attach(l)
  BY <1>2 DEF Attach
<1>3. CASE FindMap(l)
  BY <1>3 DEF FindMap
<1>4. CASE Poll(l)
  BY <1>4 DEF Poll
<1>5. CASE Wake(l)
  BY <1>5 DEF Wake
<1>6. CASE DestroyLink(l)
  BY <1>6 DEF DestroyLink
<1>7. CASE CloseDevice(l)
  BY <1>7 DEF CloseDevice
<1>8. CASE Reap(l)
  <2>1. pc[l] = "killed" /\ l \in Loaders
    BY <1>8 DEF Reap
  <2>2. CASE Close(l) /\ UNCHANGED <<pc, link>>
    BY <2>1, <2>2 DEF Close
  <2>3. CASE link = l /\ link' = None /\ UNCHANGED <<kernelVars, pc>>
    BY <2>1, <2>3
  <2>4. CASE l \notin files /\ link # l /\ Goto(l, "gone") /\ UNCHANGED <<kernelVars, link>>
    BY <2>1, <2>4
  <2> QED
    BY <1>8, <2>2, <2>3, <2>4 DEF Reap
<1> QED
  BY <1>1, <1>2, <1>3, <1>4, <1>5, <1>6, <1>7, <1>8 DEF Proceed

\* From wherever it was when it was asked to stop, killed or not, a loader is at
\* most ten of its own steps from the end, and each of them counts.
THEOREM StoppingLeadsOut == Spec => StoppingGoesOn
<1> DEFINE Goal(l) ==
             /\ Stopping(l)' \/ pc'[l] = "gone"
             /\ StepsLeft(l)' <= StepsLeft(l)
             /\ Proceed(l) => StepsLeft(l)' < StepsLeft(l)
<1>1. Inv /\ [Next]_vars => [\A l \in Loaders : Stopping(l) => Goal(l)]_vars
  <2> SUFFICES ASSUME Inv, Inv', Next, NEW l \in Loaders, Stopping(l) PROVE Goal(l)
    BY Preservation
  <2>1. StepsLeft(l) \in 0 .. 10 /\ StepsLeft(l)' \in 0 .. 10
    BY DEF Inv, TypeOK, StepsLeft
  <2>2. CASE Proceed(l)
    BY <2>1, <2>2, OwnSteps
  <2>3. CASE ~Proceed(l) /\ StepsLeft(l)' = StepsLeft(l) /\ Stopping(l)'
    BY <2>1, <2>3
  <2>4. CASE HandleSignal(l) /\ ~Proceed(l)
    <3>1. StepsLeft(l)' = StepsLeft(l) /\ Stopping(l)'
      BY <2>4 DEF HandleSignal, kernelVars, StepsLeft, Stopping, Inv, TypeOK
    <3> QED
      BY <2>3, <2>4, <3>1
  <2>5. CASE Crash(l) /\ ~Proceed(l)
    <3>1. /\ pc'[l] = "killed" /\ pc[l] \notin {"gone", "killed"} /\ UNCHANGED <<files, link>>
          /\ Stopping(l)'
      BY <2>5 DEF Crash, Goto, kernelVars, Stopping, Inv, TypeOK
    <3>2. StepsLeft(l) >= 4 /\ StepsLeft(l)' <= 3
      BY <3>1 DEF StepsLeft, Inv, TypeOK
    <3> QED
      BY <2>1, <2>5, <3>1, <3>2
  <2>6. ASSUME NEW k \in Loaders, Start(k) \/ Proceed(k) \/ HandleSignal(k) \/ Crash(k)
        PROVE  Goal(l)
    <3>1. ~Start(l)
      BY DEF Start, Stopping
    <3>2. CASE k # l
      <4>1. StepsLeft(l)' = StepsLeft(l) /\ Stopping(l)'
        BY <2>6, <3>2, StepFrame, OthersAside
      <4> QED
        BY <2>2, <2>3, <4>1
    <3> QED
      BY <2>2, <2>4, <2>5, <2>6, <3>1, <3>2
  <2>7. CASE /\ KernelNext \/ \E p \in Processes \ Loaders : OtherProcess(p)
             /\ UNCHANGED <<pc, stopRequested, link, failed, status>>
    <3>1. l \in files' <=> l \in files
      BY <2>7 DEF KernelNext, Insmod, Acquire, AcquireFails, Release, Rmmod,
                  OtherProcess, Open, Close, Mmap, Munmap
    <3>2. StepsLeft(l)' = StepsLeft(l) /\ Stopping(l)'
      BY <2>7, <3>1, OthersAside
    <3> QED
      BY <2>2, <2>3, <3>2
  <2> QED
    BY <2>6, <2>7 DEF Next
<1> QED
  BY <1>1, InvHolds, PTL DEF Spec, StoppingGoesOn

\* On every way out the link goes before the device, and the device is there to close.
THEOREM StoppedLoadersAreDetached == Spec => []StoppedIsDetached
<1>1. Inv => StoppedIsDetached
  BY DEF Inv, LoaderInv, Holding, Unlinked, StoppedIsDetached
<1> QED
  BY <1>1, InvHolds, PTL

-----------------------------------------------------------------------------
(* Between the version check that a loader skips after its open and those  *)
(* of its loop the module cannot have been replaced: all of them look at   *)
(* the same one, and the first would have been enough.                     *)

\* Nothing is acquired or given back, and no other module comes, under a process
\* that has the device open or, after its close, still has the page mapped.
UsersPinModule ==
    [][files \cup mappings # {} => UNCHANGED <<moduleState, held, todo, abi>>]_vars

\* The whole run of a process meets one module, and finds it Live all the time.
THEOREM ModulesStayPut == Spec => UsersPinModule
<1> DEFINE Same == UNCHANGED <<moduleState, held, todo, abi>>
<1>1. Inv /\ [Next]_vars => [files \cup mappings # {} => Same]_vars
  <2> SUFFICES ASSUME Inv, Next, files \cup mappings # {} PROVE Same
    OBVIOUS
  <2>1. moduleState = "Live"
    BY DEF Inv, KernelInv, UsersNeedModule
  <2>2. ~KernelNext
    BY <2>1 DEF KernelNext, Insmod, Acquire, AcquireFails, Release, Rmmod
  <2>3. ASSUME NEW p, OtherProcess(p) PROVE Same
    BY <2>3 DEF OtherProcess, Open, Close, Mmap, Munmap
  <2>4. ASSUME NEW l \in Loaders, Proceed(l) PROVE Same
    BY <2>4 DEF Proceed, OpenDevice, Attach, FindMap, Poll, Wake, DestroyLink, CloseDevice, Reap,
                Open, Close, kernelVars
  <2>5. ASSUME NEW l \in Loaders, Start(l) \/ HandleSignal(l) \/ Crash(l) PROVE Same
    BY <2>5 DEF Start, HandleSignal, Crash, kernelVars
  <2> QED
    BY <2>2, <2>3, <2>4, <2>5 DEF Next
<1> QED
  BY <1>1, InvHolds, PTL DEF Spec, UsersPinModule
=============================================================================
