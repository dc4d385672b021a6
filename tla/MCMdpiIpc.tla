------------------------------ MODULE MCMdpiIpc ------------------------------
(* Instances of MdpiIpc for TLC.                                           *)
EXTENDS MdpiIpc

\* One registered interface, and one the driver does not know.
TwoIds == {"args", "memory"}
OneInterface == {"args"}

\* The kernel calls in which the hardware may call exit(), or be given up.
EveryCall == 1 .. MaxKernels
NoCall == {}
==============================================================================
