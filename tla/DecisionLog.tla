----------------------------- MODULE DecisionLog -----------------------------
(***************************************************************************)
(* backend/src/audit.ts: the table of decisions, each row carrying the     *)
(* hash of the row before it.  logDecision awaits the last row and then    *)
(* awaits the insertion, so it is two steps of its caller: LastRow is read *)
(* in the first and handed to AppendRow in the second.                     *)
(*                                                                         *)
(* A row's hash covers its content, its prevHash and the time in           *)
(* milliseconds; the number of the row stands for it, and 0 for GENESIS.   *)
(***************************************************************************)
EXTENDS Naturals, Sequences

VARIABLE decisions

Reason == {"ALLOW", "DENIED", "ANOMALY_SCORE_HIGH", "STEP_UP_REQUIRED",
           "FILE_NOT_STORED", "TAMPER_DETECTED"}

Row == [identity : Nat, token : Nat, reason : Reason, prev : Nat]

LogTypeOK == decisions \in Seq(Row)

LastRow == Len(decisions)

AppendRow(identity, token, reason, prev) ==
  decisions' = Append(decisions, [identity |-> identity, token |-> token,
                                  reason |-> reason, prev |-> prev])

\* "Hash-chained decision log" (schema.prisma:22): each row carries the hash
\* of the row before it, so that the last one vouches for all.
LogIsChain == \A n \in 1 .. Len(decisions) : decisions[n].prev = n - 1
=============================================================================
