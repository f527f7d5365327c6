------------------------------ MODULE VampsCall ------------------------------
(***************************************************************************)
(* What vamps' main thread may assume of requant() (vamps.c, 576-621): a   *)
(* plain subroutine.  The caller owns the two elementary-stream buffers,   *)
(* hands over a GOP of n bytes, owns nothing while the call is under way,  *)
(* and gets back the length of a shrunk GOP: at least one byte and never   *)
(* more than it gave and the start-code prefix it put behind it.           *)
(*                                                                         *)
(* VampsHandoff shows that two threads, two mutexes and two condition      *)
(* variables implement this subroutine.                                    *)
(***************************************************************************)
EXTENDS Naturals

CONSTANTS Lens,     \* the lengths a GOP's elementary stream can have
          Slack     \* bytes the requantiser may add to a GOP's own

VARIABLES turn,     \* "caller" owns the buffers, or "callee" does
          len,      \* length of the caller's GOP
          volen     \* length of that GOP after its requantization

absvars == <<turn, len, volen>>

AbsInit == turn = "caller" /\ len = 0 /\ volen = 0

Call(n) == /\ turn = "caller"
           /\ turn' = "callee"
           /\ len' = n
           /\ UNCHANGED volen

Return == /\ turn = "callee"
          /\ turn' = "caller"
          /\ volen' \in 1 .. (len + Slack)
          /\ UNCHANGED len

\* A GOP that needs no requantization is copied by the caller itself.
Keep(n) == /\ turn = "caller"
           /\ len' = n /\ volen' = n
           /\ UNCHANGED turn

AbsNext == Return \/ \E n \in Lens : Call(n) \/ Keep(n)

AbsSpec == AbsInit /\ [][AbsNext]_absvars /\ WF_absvars(Return)
==============================================================================
