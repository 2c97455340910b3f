-------------------------- MODULE AcknowledgedLog --------------------------
(***************************************************************************)
(* What a durable store promises its runtime, without files: a log of      *)
(* committed mutations that only grows.  A mutation whose commit failed is *)
(* in limbo: reads see it, the next commit takes it along, and stopping    *)
(* decides its fate and that of the one in flight either way.  Recovery    *)
(* gives the log back unchanged or declares the store degraded; then what  *)
(* it serves is an older state, never an invented one.                     *)
(***************************************************************************)
EXTENDS Naturals, Sequences, SequencesExt

CONSTANT Ops  \* mutations

VARIABLES log,    \* the mutations the store stands for
          limbo,  \* applied since, reported as failed
          status  \* serving, down or degraded

vars == <<log, limbo, status>>

Init == log = <<>> /\ limbo = <<>> /\ status = "Down"

\* A mutation is acknowledged, and with it those it was applied on top of.
Commit == /\ status = "Serving"
          /\ \E op \in Ops : log' = log \o Append(limbo, op)
          /\ limbo' = <<>>
          /\ UNCHANGED status

\* A mutation was applied and its commit failed.
Fail == /\ status = "Serving"
        /\ \E op \in Ops : limbo' = Append(limbo, op)
        /\ UNCHANGED <<log, status>>

\* The process stops or dies, with or without what it had not acknowledged.
Stop == /\ status # "Down"
        /\ status' = "Down"
        /\ \E kept \in 0..Len(limbo), last \in {<<>>} \cup {<<op>> : op \in Ops} :
              log' = log \o SubSeq(limbo, 1, kept) \o last
        /\ limbo' = <<>>

\* Recovery gives back the log.
Recover == /\ status = "Down"
           /\ status' = "Serving"
           /\ UNCHANGED <<log, limbo>>

\* Recovery finds the journal unsound and serves an older state without accepting more.
RecoverDegraded == /\ status = "Down"
                   /\ status' = "Degraded"
                   /\ IsPrefix(log', log)
                   /\ UNCHANGED limbo

Next == Commit \/ Fail \/ Stop \/ Recover \/ RecoverDegraded

Spec == Init /\ [][Next]_vars
=============================================================================
