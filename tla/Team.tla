-------------------------------- MODULE Team --------------------------------
(***************************************************************************)
(* A team run and its mailboxes.  The members' SendMessage and ReadMail    *)
(* tools work on the mailboxes only while their agent runs; SendMessage    *)
(* takes any peer, of this stage, of an earlier or of a later one.  When   *)
(* the run is cut off the mailboxes go with it.                            *)
(***************************************************************************)
EXTENDS TeamRun, TeamMail

CONSTANT ReadMax  \* values of ReadMail's max, at least 1 by validate_input

\* A message may be addressed to any name, and to every member's label among them.
ASSUME MembersAssumption == ReadMax \subseteq Nat \ {0} /\ Labels \subseteq Peers

vars == <<runVars, mailVars>>

Init == RunInit /\ MailInit

Running(l) == up /\ phase = "run" /\ member[l] = "running"

\* SendMessageTool and ReadMailTool of member l
SendMessage(l, p) == Running(l) /\ Send(p) /\ UNCHANGED runVars
ReadMail(l, max)  == Running(l) /\ Drain(l, max) /\ UNCHANGED runVars

\* The process dies between two steps, or in the middle of a ReadMail.
Die == Crash /\ (MailCrash \/ \E l \in Labels, max \in ReadMax : Running(l) /\ DrainCrash(l, max))

Next ==
  \/ Step /\ UNCHANGED mailVars
  \/ Cleanup /\ UNCHANGED mailVars
  \/ \E l \in Labels, p \in Peers : SendMessage(l, p)
  \/ \E l \in Labels, max \in ReadMax : ReadMail(l, max)
  \/ Die
  \/ Reload /\ UNCHANGED runVars

(***************************************************************************)
(* orchestrate is awaited to its end; the agents of the members are turns  *)
(* of their own, which end (see SessionTurns).                             *)
(***************************************************************************)
Fairness == WF_runVars(Step /\ UNCHANGED mailVars)

Spec == Init /\ [][Next]_vars /\ Fairness

TypeOK == RunTypeOK /\ MailTypeOK

(***************************************************************************)
(* Types, and what the team's directory tells a reader at any moment: the  *)
(* state file is at most one stage old and true, the log is the newest     *)
(* part of what happened, and no member runs outside its stage.            *)
(***************************************************************************)
TeamInv ==
  TypeOK /\ StateNotStale /\ StateIsTrue /\ EventsAreTheNewest /\ StagesDoNotOverlap

(***************************************************************************)
(* No message between members is lost or read twice, in memory, and, but   *)
(* for a failed file operation or a rewrite that a crash cut off, across a *)
(* restart.                                                                *)
(***************************************************************************)
MailInv == MailConserved /\ ReloadIsExact
=============================================================================
