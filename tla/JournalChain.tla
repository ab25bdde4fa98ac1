---------------------------- MODULE JournalChain ----------------------------
(***************************************************************************)
(* The hash chain of the journal: JournalWriter.write (app/journal/writer.  *)
(* py), the store (app/db/journal_store.py), verify_chain and the hourly    *)
(* audit.                                                                   *)
(*                                                                         *)
(* The jobs of the agent share one writer, one session and one connection;  *)
(* `cli evolve` writes a session of its own from another process.  A write  *)
(* reads the session's last hash and then inserts, in two statements.       *)
(* transaction() (app/db/sqlite.py) is entered by one job, but takes in     *)
(* what every thread writes on the connection, and takes it away again if   *)
(* it is rolled back.                                                       *)
(*                                                                         *)
(* A hash is the number of its write: sha256 has no collisions, and what it *)
(* says of a row's order is the prev_hash it was computed from.             *)
(***************************************************************************)
EXTENDS Naturals, Sequences, FiniteSets

CONSTANTS
  Jobs,        \* job threads of the agent that write the journal
  Audit,       \* the audit job
  Cli,         \* the thread of `cli evolve`
  MaxBoots,    \* bound: starts of the agent
  MaxWrites    \* bound: writes of a behaviour

ASSUME JournalAssumption ==
  /\ Audit \notin Jobs /\ Cli \notin Jobs /\ Audit # Cli
  /\ MaxBoots \in Nat \ {0} /\ MaxWrites \in Nat

Threads == Jobs \cup {Audit, Cli}
NoHash == 0

(* SESSION_ID is new with every boot; the CLI always uses "cli-evolve".       *)
Sessions == 0..MaxBoots
CliSession == 0

Row == [hash : Nat \ {NoHash}, prev_hash : Nat]
NoRow == [hash |-> NoHash, prev_hash |-> NoHash]

VARIABLES
  boot,        \* starts of the agent so far: its session
  journal,     \* list_for_session of every session, as the agent's connection sees it
  begun,       \* is a transaction open?
  before,      \* what ROLLBACK restores
  thread,      \* the row a thread is about to insert, or NoRow
  writes,      \* writes begun
  audit,       \* the audit's own place: sessions to verify, broken ones found
  raced        \* sessions with two writes at once, or a write during a rollback

vars == <<boot, journal, begun, before, thread, writes, audit, raced>>

NoAudit == [pc |-> "idle", todo |-> {}, bad |-> {}]

Init ==
  /\ boot = 1
  /\ journal = [s \in Sessions |-> <<>>]
  /\ begun = FALSE
  /\ before = journal
  /\ thread = [t \in Threads |-> NoRow]
  /\ writes = 0
  /\ audit = NoAudit
  /\ raced = {}

-----------------------------------------------------------------------------

OneSession(t) == IF t = Cli THEN CliSession ELSE 1
Session(t) == IF t = Cli THEN CliSession ELSE boot
Inserting(s) == {t \in Threads : thread[t] # NoRow /\ Session(t) = s}

EarliestHash(rows) == IF rows = <<>> THEN NoHash ELSE rows[1].hash
LastHash(rows) == IF rows = <<>> THEN NoHash ELSE rows[Len(rows)].hash

(* verify_chain: every hash is the one computed from the row before.          *)
VerifiesFromFirst(rows) ==
  \A i \in 1..Len(rows) :
    rows[i].prev_hash = IF i = 1 THEN NoHash ELSE rows[1].hash
Verifies(rows) ==
  \A i \in 1..Len(rows) :
    rows[i].prev_hash = IF i = 1 THEN NoHash ELSE rows[i - 1].hash

(* last_hash_for_session.  The audit writes only to report. *)
ReadHead(t) ==
  /\ thread[t] = NoRow
  /\ t = Audit => audit.pc = "report"
  /\ writes < MaxWrites
  /\ writes' = writes + 1
  /\ thread' = [thread EXCEPT
       ![t] = [hash |-> writes + 1, prev_hash |-> LastHash(journal[Session(t)])]]
  /\ raced' = IF Inserting(Session(t)) = {} THEN raced ELSE raced \cup {Session(t)}
  /\ UNCHANGED <<boot, journal, begun, before, audit>>

(* insert.  Another process waits while a transaction is open. *)
Insert(t) ==
  /\ thread[t] # NoRow
  /\ t = Cli => ~begun
  /\ journal' = [journal EXCEPT ![Session(t)] = Append(@, thread[t])]
  /\ thread' = [thread EXCEPT ![t] = NoRow]
  /\ audit' = IF t = Audit THEN NoAudit ELSE audit
  /\ UNCHANGED <<boot, begun, before, writes, raced>>

(* An exception, of the insert or of what comes before it. *)
WriteFails(t) ==
  /\ thread[t] # NoRow
  /\ thread' = [thread EXCEPT ![t] = NoRow]
  /\ audit' = IF t = Audit THEN NoAudit ELSE audit
  /\ UNCHANGED <<boot, journal, begun, before, writes, raced>>

-----------------------------------------------------------------------------
(* transaction() *)

Begin ==
  /\ ~begun
  /\ begun' = TRUE
  /\ before' = journal
  /\ UNCHANGED <<boot, journal, thread, writes, audit, raced>>

Commit ==
  /\ begun
  /\ begun' = FALSE
  /\ UNCHANGED <<boot, journal, before, thread, writes, audit, raced>>

Rollback ==
  /\ begun
  /\ begun' = FALSE
  /\ journal' = before
  /\ raced' = raced \cup {s \in Sessions \ {CliSession} : Inserting(s) # {}}
  /\ UNCHANGED <<boot, before, thread, writes, audit>>

(* The process stops and is started again: an open transaction is gone, and   *)
(* so are its threads.                                                        *)
Restart ==
  /\ boot < MaxBoots
  /\ boot' = boot + 1
  /\ begun' = FALSE
  /\ journal' = IF begun THEN before ELSE journal
  /\ thread' = [t \in Threads |-> IF t = Cli THEN thread[t] ELSE NoRow]
  /\ audit' = NoAudit
  /\ UNCHANGED <<before, writes, raced>>

-----------------------------------------------------------------------------
(* audit_verify *)

ListSessions ==
  /\ audit.pc = "idle"
  /\ audit' = [pc |-> "verify", todo |-> {s \in Sessions : journal[s] # <<>>}, bad |-> {}]
  /\ UNCHANGED <<boot, journal, begun, before, thread, writes, raced>>

VerifySession(s) ==
  /\ audit.pc = "verify"
  /\ s \in audit.todo
  /\ audit' = [pc |-> "verify", todo |-> audit.todo \ {s},
               bad |-> audit.bad \cup {r \in {s} : ~Verifies(journal[r])}]
  /\ UNCHANGED <<boot, journal, begun, before, thread, writes, raced>>

VerifiedOrNot ==
  /\ audit.pc = "verify"
  /\ audit.todo = {}
  /\ audit' = [audit EXCEPT !.pc = "report"]
  /\ UNCHANGED <<boot, journal, begun, before, thread, writes, raced>>

Verified ==
  /\ audit.pc = "verify"
  /\ audit.todo = {}
  /\ audit' = IF audit.bad = {} THEN NoAudit ELSE [audit EXCEPT !.pc = "report"]
  /\ UNCHANGED <<boot, journal, begun, before, thread, writes, raced>>

Next ==
  \/ \E t \in Threads : ReadHead(t) \/ Insert(t) \/ WriteFails(t)
  \/ Begin \/ Commit \/ Rollback \/ Restart
  \/ ListSessions
  \/ \E s \in Sessions : VerifySession(s)
  \/ Verified

Spec == Init /\ [][Next]_vars

-----------------------------------------------------------------------------
(* Properties. *)

TypeOK ==
  /\ boot \in 1..MaxBoots
  /\ journal \in [Sessions -> Seq(Row)]
  /\ begun \in BOOLEAN
  /\ before \in [Sessions -> Seq(Row)]
  /\ thread \in [Threads -> Row \cup {NoRow}]
  /\ writes \in 0..MaxWrites
  /\ audit \in [pc : {"idle", "verify", "report"}, todo : SUBSET Sessions, bad : SUBSET Sessions]
  /\ audit.pc = "report" => audit.bad # {}
  /\ raced \subseteq Sessions

(* "Each row is chained to the previous row of the same session"               *)
(* (app/journal/writer.py:8).                                                 *)
Chained == \A s \in Sessions : Verifies(journal[s])

(* A chain forks only if two writes of its session overlapped, or a rollback   *)
(* came between the two statements of one: neither a crash, nor a failed      *)
(* write, nor a write of another session or process breaks it.                *)
ForksNeedRaces == \A s \in Sessions \ raced : Verifies(journal[s])

(* Nor does the audit accuse any other session, whenever it reads it.         *)
NoFalseAlarm == audit.bad \subseteq raced

(* The sessions of earlier boots are settled: no thread still writes to them,  *)
(* no rollback reaches them, and what the audit says of them stays true.      *)
PastIsSettled ==
  [][\A s \in Sessions : s # CliSession /\ s < boot => journal'[s] = journal[s]]_vars

=============================================================================
