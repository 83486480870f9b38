---------------------------- MODULE MCXdpLoader ----------------------------
(* Model values for XdpLoader: two loaders, and a process that maps the
   tensor page; modules with the loaders' ABI version and with another. *)
EXTENDS XdpLoader

CONSTANTS l1, l2, p1
=============================================================================
