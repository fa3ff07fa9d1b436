------------------------------ MODULE TeamMail ------------------------------
(***************************************************************************)
(* The mailboxes of a team: MailboxStore.  Every peer has a queue in       *)
(* memory and a JSONL file; send and drain change both under one mutex, so *)
(* each is one step.  A message is its number in the order of sending.     *)
(***************************************************************************)
EXTENDS Naturals, Sequences

CONSTANTS
  Peers,      \* labels of the team's members
  MaxMail,    \* bound: messages sent
  MaxMailFaults \* bound: file operations that fail

ASSUME MailAssumption == MaxMail \in Nat /\ MaxMailFaults \in Nat

VARIABLES
  box,        \* inner.mailboxes: a peer without an entry has the empty queue
  file,       \* <persist_dir>/<peer>.jsonl: no file is the empty one
  mail,       \* history: the number of messages sent
  sent,       \* history: the messages sent to each peer, oldest first
  received,   \* history: what drain returned to each peer
  mailUp,     \* the process that holds the store lives
  reloaded,   \* history: the store was read from disk again
  torn,       \* history: peers whose file a crash emptied in a rewrite
  mailFaults  \* history: failed file operations

mailVars == <<box, file, mail, sent, received, mailUp, reloaded, torn, mailFaults>>

Mails == 1..MaxMail

MailTypeOK ==
  /\ box \in [Peers -> Seq(Mails)] /\ file \in [Peers -> Seq(Mails)]
  /\ mail \in 0..MaxMail /\ sent \in [Peers -> Seq(Mails)] /\ received \in [Peers -> Seq(Mails)]
  /\ mailUp \in BOOLEAN /\ reloaded \in BOOLEAN
  /\ torn \subseteq Peers
  /\ mailFaults \in 0..MaxMailFaults

MailInit ==
  /\ box = [p \in Peers |-> <<>>] /\ file = [p \in Peers |-> <<>>]
  /\ mail = 0 /\ sent = [p \in Peers |-> <<>>] /\ received = [p \in Peers |-> <<>>]
  /\ mailUp = TRUE /\ reloaded = FALSE /\ torn = {} /\ mailFaults = 0

MailFault ==
  /\ mailFaults < MaxMailFaults
  /\ mailFaults' = mailFaults + 1

\* What drain takes from the front of a queue, and what is left
Taken(q, max) == SubSeq(q, 1, IF max < Len(q) THEN max ELSE Len(q))
Rest(q, max) == SubSeq(q, max + 1, Len(q))

\* send: the queue grows even if the line cannot be appended to the file.
Send(p) ==
  /\ mailUp /\ mail < MaxMail /\ mail' = mail + 1
  /\ sent' = [sent EXCEPT ![p] = Append(@, mail + 1)]
  /\ box' = [box EXCEPT ![p] = Append(@, mail + 1)]
  /\ \/ file' = [file EXCEPT ![p] = Append(@, mail + 1)] /\ UNCHANGED mailFaults
     \/ MailFault /\ UNCHANGED file
  /\ UNCHANGED <<received, mailUp, reloaded, torn>>

\* Mutant: the file is only removed when the queue is empty, never rewritten.
DrainKeepsFile(p, max) ==
  /\ mailUp /\ box[p] # <<>>
  /\ received' = [received EXCEPT ![p] = @ \o Taken(box[p], max)]
  /\ box' = [box EXCEPT ![p] = Rest(@, max)]
  /\ file' = IF box'[p] = <<>> THEN [file EXCEPT ![p] = <<>>] ELSE file
  /\ UNCHANGED <<mail, sent, mailUp, reloaded, torn, mailFaults>>

\* Mutant: drain(..max) takes one message too many off the queue.
DrainSkips(p, max) ==
  /\ mailUp /\ box[p] # <<>>
  /\ received' = [received EXCEPT ![p] = @ \o Taken(box[p], max)]
  /\ box' = [box EXCEPT ![p] = Rest(@, max + 1)]
  /\ file' = [file EXCEPT ![p] = Rest(box[p], max + 1)]
  /\ UNCHANGED <<mail, sent, mailUp, reloaded, torn, mailFaults>>

(***************************************************************************)
(* drain: the oldest messages are returned; the file is rewritten from the *)
(* queue, or removed with it.  If that fails the old file stays.           *)
(***************************************************************************)
Drain(p, max) ==
  /\ mailUp /\ box[p] # <<>>
  /\ received' = [received EXCEPT ![p] = @ \o Taken(box[p], max)]
  /\ box' = [box EXCEPT ![p] = Rest(@, max)]
  /\ \/ file' = [file EXCEPT ![p] = Rest(box[p], max)] /\ UNCHANGED mailFaults
     \/ MailFault /\ UNCHANGED file
  /\ UNCHANGED <<mail, sent, mailUp, reloaded, torn>>

\* The process dies: the queues are lost, the files stay.
MailCrash ==
  /\ mailUp
  /\ mailUp' = FALSE
  /\ UNCHANGED <<box, file, mail, sent, received, reloaded, torn, mailFaults>>

\* It dies in drain's fs::write, which truncates the file and then fills it.
DrainCrash(p, max) ==
  /\ mailUp /\ Rest(box[p], max) # <<>>
  /\ mailUp' = FALSE
  /\ \E n \in 0..(Len(Rest(box[p], max)) - 1) :
       file' = [file EXCEPT ![p] = SubSeq(Rest(box[p], max), 1, n)]
  /\ torn' = torn \cup {p}
  /\ UNCHANGED <<box, mail, sent, received, reloaded, mailFaults>>

\* with_persistence on the same directory
Reload ==
  /\ ~mailUp
  /\ mailUp' = TRUE /\ reloaded' = TRUE
  /\ box' = file
  /\ UNCHANGED <<file, mail, sent, received, torn, mailFaults>>

(***************************************************************************)
(* As long as nothing is reloaded, whatever fails on disk, a peer reads    *)
(* what it was sent, once and in the order of sending, and the rest is     *)
(* still in its queue (FIFO mailboxes, drain's max).                       *)
(***************************************************************************)
MailConserved ==
  ~reloaded /\ mailUp => \A p \in Peers : received[p] \o box[p] = sent[p]

(***************************************************************************)
(* "A reload does not resurrect already-drained messages", and loses none: *)
(* without a failed file operation, the files hold exactly what was not    *)
(* read yet, at every moment a crash can hit, except in a rewrite.         *)
(***************************************************************************)
ReloadIsExact ==
  mailFaults = 0 =>
    \A p \in Peers \ torn : received[p] \o file[p] = sent[p]
=============================================================================
