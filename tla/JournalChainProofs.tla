------------------------- MODULE JournalChainProofs -------------------------
(***************************************************************************)
(* Proofs about JournalChain: a chain can only be forked by two writes of   *)
(* its session that overlap, or by a rollback in the middle of one, for any *)
(* number of threads, boots and writes.                                     *)
(***************************************************************************)
EXTENDS JournalChain, TLAPS

(* A session that was not raced has at most one write under way, which has    *)
(* read the hash it will follow; its rows verify, and so do those a rollback  *)
(* would restore.                                                             *)
NotRaced(s) ==
  /\ Verifies(journal[s])
  /\ begun => Verifies(before[s])
  /\ \A t \in Inserting(s) : thread[t].prev_hash = LastHash(journal[s])
  /\ \A t, u \in Inserting(s) : t = u

(* An open transaction has changed no session but the running one's.          *)
TransactionIsLocal == begun => \A s \in Sessions \ {boot} : before[s] = journal[s]

ChainInv ==
  /\ TypeOK
  /\ TransactionIsLocal
  /\ \A s \in Sessions \ raced : NotRaced(s)

-----------------------------------------------------------------------------
(* Types. *)

LEMMA SessionIsSession == ASSUME TypeOK, NEW t \in Threads PROVE Session(t) \in Sessions
  BY JournalAssumption DEF TypeOK, Session, Sessions, CliSession

LEMMA LastHashType == ASSUME NEW rows \in Seq(Row) PROVE LastHash(rows) \in Nat
<1>1. CASE rows = <<>>
  BY <1>1 DEF LastHash, NoHash
<1>2. CASE rows # <<>>
  <2>1. Len(rows) \in 1..Len(rows)
    BY <1>2
  <2>2. rows[Len(rows)] \in Row
    BY <2>1
  <2> QED BY <1>2, <2>2 DEF LastHash, Row
<1> QED BY <1>1, <1>2

LEMMA TypeInit == Init => TypeOK
<1> SUFFICES ASSUME Init PROVE TypeOK
  OBVIOUS
<1>1. journal \in [Sessions -> Seq(Row)] /\ before \in [Sessions -> Seq(Row)]
  BY DEF Init
<1>2. boot \in 1..MaxBoots /\ writes \in 0..MaxWrites
  BY JournalAssumption DEF Init
<1>3. thread \in [Threads -> Row \cup {NoRow}]
  BY DEF Init
<1> QED BY <1>1, <1>2, <1>3 DEF Init, TypeOK, NoAudit

LEMMA TypeStep == TypeOK /\ [Next]_vars => TypeOK'
<1> SUFFICES ASSUME TypeOK, [Next]_vars PROVE TypeOK'
  OBVIOUS
<1> USE DEF TypeOK
<1>1. ASSUME NEW t \in Threads, ReadHead(t) PROVE TypeOK'
  <2>1. LastHash(journal[Session(t)]) \in Nat
    BY SessionIsSession, LastHashType
  <2>2. [hash |-> writes + 1, prev_hash |-> LastHash(journal[Session(t)])] \in Row
    BY <2>1 DEF Row, NoHash
  <2>3. raced' \subseteq Sessions
    BY <1>1, SessionIsSession DEF ReadHead
  <2>4. writes' \in 0..MaxWrites
    BY <1>1, JournalAssumption DEF ReadHead
  <2> QED BY <1>1, <2>2, <2>3, <2>4 DEF ReadHead
<1>2. ASSUME NEW t \in Threads, Insert(t) PROVE TypeOK'
  <2>1. journal' \in [Sessions -> Seq(Row)]
    <3>1. thread[t] \in Row
      BY <1>2 DEF Insert
    <3>2. Append(journal[Session(t)], thread[t]) \in Seq(Row)
      BY <3>1, SessionIsSession
    <3> QED BY <1>2, <3>2 DEF Insert
  <2> QED BY <1>2, <2>1 DEF Insert, NoAudit
<1>3. ASSUME NEW t \in Threads, WriteFails(t) PROVE TypeOK'
  BY <1>3 DEF WriteFails, NoAudit
<1>4. CASE Begin \/ Commit \/ Rollback
  BY <1>4 DEF Begin, Commit, Rollback
<1>5. CASE Restart
  <2>1. boot' \in 1..MaxBoots
    BY <1>5, JournalAssumption DEF Restart
  <2>2. journal' \in [Sessions -> Seq(Row)]
    BY <1>5 DEF Restart
  <2>3. thread' \in [Threads -> Row \cup {NoRow}]
    BY <1>5 DEF Restart
  <2> QED BY <1>5, <2>1, <2>2, <2>3 DEF Restart, NoAudit
<1>6. CASE ListSessions
  BY <1>6 DEF ListSessions
<1>7. ASSUME NEW s \in Sessions, VerifySession(s) PROVE TypeOK'
  BY <1>7 DEF VerifySession
<1>8. CASE Verified
  BY <1>8 DEF Verified, NoAudit
<1>9. CASE UNCHANGED vars
  BY <1>9 DEF vars
<1> QED BY <1>1, <1>2, <1>3, <1>4, <1>5, <1>6, <1>7, <1>8, <1>9 DEF Next

(* Every reachable state is well typed; the audit reports only when it has    *)
(* found something (app/scheduler/jobs/audit_verify.py:32).                   *)
THEOREM TypeCorrect == Spec => []TypeOK
  BY TypeInit, TypeStep, PTL DEF Spec

-----------------------------------------------------------------------------
(* Chains. *)

LEMMA EmptyVerifies == Verifies(<<>>)
  BY DEF Verifies

LEMMA AppendVerifies ==
  ASSUME NEW rows \in Seq(Row), NEW row \in Row,
         Verifies(rows), row.prev_hash = LastHash(rows)
  PROVE  Verifies(Append(rows, row))
<1> DEFINE longer == Append(rows, row)
<1>1. Len(longer) = Len(rows) + 1 /\ Len(rows) \in Nat
  OBVIOUS
<1>2. \A i \in 1..Len(rows) : longer[i] = rows[i]
  OBVIOUS
<1>3. longer[Len(rows) + 1] = row
  OBVIOUS
<1> SUFFICES ASSUME NEW i \in 1..Len(longer)
             PROVE  longer[i].prev_hash = IF i = 1 THEN NoHash ELSE longer[i - 1].hash
  BY DEF Verifies
<1> HIDE DEF longer
<1>4. CASE i <= Len(rows)
  <2>1. i \in 1..Len(rows) /\ (i # 1 => i - 1 \in 1..Len(rows))
    BY <1>1, <1>4
  <2> QED BY <1>2, <2>1 DEF Verifies
<1>5. CASE i = Len(rows) + 1 /\ rows = <<>>
  <2>1. i = 1
    BY <1>5
  <2> QED BY <1>3, <1>5, <2>1 DEF LastHash
<1>6. CASE i = Len(rows) + 1 /\ rows # <<>>
  <2>1. Len(rows) \in 1..Len(rows) /\ i # 1 /\ i - 1 = Len(rows)
    BY <1>1, <1>6
  <2> QED BY <1>2, <1>3, <1>6, <2>1 DEF LastHash
<1> QED BY <1>1, <1>4, <1>5, <1>6

LEMMA TransactionStep ==
  ASSUME TypeOK, TransactionIsLocal, [Next]_vars
  PROVE  TransactionIsLocal'
<1> USE DEF TransactionIsLocal, TypeOK
<1>1. ASSUME NEW t \in Threads, Insert(t) PROVE TransactionIsLocal'
  BY <1>1 DEF Insert, Session
<1>2. ASSUME NEW t \in Threads, ReadHead(t) \/ WriteFails(t) PROVE TransactionIsLocal'
  BY <1>2 DEF ReadHead, WriteFails
<1>3. CASE Begin \/ Commit \/ Rollback \/ Restart
  BY <1>3 DEF Begin, Commit, Rollback, Restart
<1>4. CASE ListSessions \/ (\E s \in Sessions : VerifySession(s)) \/ Verified \/ UNCHANGED vars
  BY <1>4 DEF ListSessions, VerifySession, Verified, vars
<1> QED BY <1>1, <1>2, <1>3, <1>4 DEF Next

LEMMA ChainInit == Init => ChainInv
<1> SUFFICES ASSUME Init PROVE ChainInv
  OBVIOUS
<1>1. \A s \in Sessions : Verifies(journal[s]) /\ ~begun /\ Inserting(s) = {}
  BY EmptyVerifies DEF Init, Inserting
<1> QED BY <1>1, TypeInit DEF ChainInv, NotRaced, TransactionIsLocal, Init

LEMMA ChainStep == ChainInv /\ [Next]_vars => ChainInv'
<1> SUFFICES ASSUME ChainInv, [Next]_vars PROVE ChainInv'
  OBVIOUS
<1>t. TypeOK /\ TypeOK'
  BY TypeStep DEF ChainInv
<1>c. TransactionIsLocal'
  BY <1>t, TransactionStep DEF ChainInv
<1> SUFFICES ASSUME NEW s \in Sessions \ raced' PROVE NotRaced(s)'
  BY <1>t, <1>c DEF ChainInv
<1>s. s \notin raced /\ NotRaced(s)
  BY DEF ChainInv, Next, vars, ReadHead, Insert, WriteFails, Begin, Commit, Rollback,
     Restart, ListSessions, VerifySession, Verified
<1>1. ASSUME NEW t \in Threads, ReadHead(t) PROVE NotRaced(s)'
  <2>1. CASE s # Session(t)
    <3>1. Inserting(s)' = Inserting(s)
      BY <1>1, <1>t, <2>1 DEF ReadHead, Inserting, Session, TypeOK
    <3>2. \A u \in Inserting(s) : thread'[u] = thread[u]
      BY <1>1, <1>t, <2>1 DEF ReadHead, Inserting, TypeOK
    <3> QED BY <1>1, <1>s, <3>1, <3>2 DEF ReadHead, NotRaced
  <2>2. CASE s = Session(t)
    <3>1. Inserting(s) = {}
      BY <1>1, <2>2 DEF ReadHead
    <3>2. Inserting(s)' \subseteq {t}
      BY <1>1, <1>t, <3>1 DEF ReadHead, Inserting, Session, TypeOK
    <3>3. thread'[t].prev_hash = LastHash(journal'[s])
      BY <1>1, <1>t, <2>2 DEF ReadHead, TypeOK
    <3> QED BY <1>1, <1>s, <3>2, <3>3 DEF ReadHead, NotRaced
  <2> QED BY <2>1, <2>2
<1>2. ASSUME NEW t \in Threads, Insert(t) PROVE NotRaced(s)'
  <2>1. CASE s # Session(t)
    <3>1. Inserting(s)' = Inserting(s)
      BY <1>2, <1>t, <2>1 DEF Insert, Inserting, Session, TypeOK
    <3>2. \A u \in Inserting(s) : thread'[u] = thread[u]
      BY <1>2, <1>t, <2>1 DEF Insert, Inserting, TypeOK
    <3>3. journal'[s] = journal[s]
      BY <1>2, <1>t, <2>1 DEF Insert, TypeOK
    <3> QED BY <1>2, <1>s, <3>1, <3>2, <3>3 DEF Insert, NotRaced
  <2>2. CASE s = Session(t)
    <3>1. t \in Inserting(s)
      BY <1>2, <2>2 DEF Insert, Inserting
    <3>2. Inserting(s)' = {}
      BY <1>2, <1>t, <1>s, <2>2, <3>1 DEF Insert, Inserting, Session, TypeOK, NotRaced
    <3>3. thread[t] \in Row /\ journal[s] \in Seq(Row)
      BY <1>2, <1>t DEF Insert, TypeOK
    <3>4. Verifies(Append(journal[s], thread[t]))
      BY <1>s, <3>1, <3>3, AppendVerifies DEF NotRaced
    <3>5. journal'[s] = Append(journal[s], thread[t])
      BY <1>2, <1>t, <2>2 DEF Insert, TypeOK
    <3> QED BY <1>2, <1>s, <3>2, <3>4, <3>5 DEF Insert, NotRaced
  <2> QED BY <2>1, <2>2
<1>3. ASSUME NEW t \in Threads, WriteFails(t) PROVE NotRaced(s)'
  <2>1. Inserting(s)' \subseteq Inserting(s)
    BY <1>3, <1>t DEF WriteFails, Inserting, Session, TypeOK
  <2>2. \A u \in Inserting(s)' : thread'[u] = thread[u]
    BY <1>3, <1>t DEF WriteFails, Inserting, TypeOK
  <2> QED BY <1>3, <1>s, <2>1, <2>2 DEF WriteFails, NotRaced
<1>4. CASE Begin \/ Commit
  BY <1>4, <1>s DEF Begin, Commit, NotRaced, Inserting, Session
<1>5. CASE Rollback
  <2>1. CASE s = CliSession
    <3>1. journal'[s] = journal[s]
      BY <1>5, <1>t, <2>1 DEF Rollback, ChainInv, TransactionIsLocal, CliSession, Sessions, TypeOK
    <3> QED BY <1>5, <1>s, <3>1 DEF Rollback, NotRaced, Inserting, Session
  <2>2. CASE s # CliSession
    <3>1. Inserting(s)' = {}
      BY <1>5, <2>2 DEF Rollback, Inserting, Session
    <3> QED BY <1>5, <1>s, <3>1 DEF Rollback, NotRaced
  <2> QED BY <2>1, <2>2
<1>6. CASE Restart
  <2>1. Verifies(journal'[s])
    BY <1>6, <1>s DEF Restart, NotRaced
  <2>2. Inserting(s)' \subseteq Inserting(s)
    BY <1>6, <1>t DEF Restart, Inserting, Session, TypeOK
  <2>3. \A u \in Inserting(s)' : u = Cli /\ s = CliSession /\ thread'[u] = thread[u]
    BY <1>6, <1>t DEF Restart, Inserting, Session, TypeOK
  <2>4. s = CliSession => journal'[s] = journal[s]
    BY <1>6, <1>t DEF Restart, ChainInv, TransactionIsLocal, CliSession, Sessions, TypeOK
  <2> QED BY <1>6, <1>s, <2>1, <2>2, <2>3, <2>4 DEF Restart, NotRaced
<1>7. CASE UNCHANGED <<boot, journal, begun, before, thread, raced>>
  <2>1. Inserting(s)' = Inserting(s)
    BY <1>7 DEF Inserting, Session
  <2> QED BY <1>7, <1>s, <2>1 DEF NotRaced
<1>8. CASE ListSessions \/ (\E r \in Sessions : VerifySession(r)) \/ Verified
  BY <1>7, <1>8 DEF ListSessions, VerifySession, Verified
<1>9. CASE UNCHANGED vars
  BY <1>7, <1>9 DEF vars
<1> QED BY <1>1, <1>2, <1>3, <1>4, <1>5, <1>6, <1>8, <1>9 DEF Next

(* What `ForksNeedRaces` says of app/journal/writer.py:54-74, whatever the      *)
(* number of jobs, boots and writes.                                          *)
THEOREM OnlyRacesFork == Spec => []ForksNeedRaces
<1>1. ChainInv => ForksNeedRaces
  BY DEF ChainInv, NotRaced, ForksNeedRaces
<1> QED BY ChainInit, ChainStep, <1>1, PTL DEF Spec

(* The audit never accuses a session whose writes were not raced, whenever it  *)
(* reads it (app/scheduler/jobs/audit_verify.py:27-30).                       *)
THEOREM AuditIsFair == Spec => []NoFalseAlarm
<1>1. Init => NoFalseAlarm
  BY DEF Init, NoFalseAlarm, NoAudit
<1>2. ASSUME ChainInv, NoFalseAlarm, [Next]_vars PROVE NoFalseAlarm'
  <2> USE DEF NoFalseAlarm
  <2>1. ASSUME NEW s \in Sessions, VerifySession(s) PROVE NoFalseAlarm'
    <3>1. s \notin raced => Verifies(journal[s])
      BY <1>2 DEF ChainInv, NotRaced
    <3>2. audit'.bad \subseteq audit.bad \cup {s} /\ (Verifies(journal[s]) => audit'.bad = audit.bad)
      BY <2>1 DEF VerifySession
    <3> QED BY <1>2, <2>1, <3>1, <3>2 DEF VerifySession
  <2>2. CASE Verified
    BY <1>2, <2>2 DEF Verified, NoAudit, ChainInv, TypeOK
  <2> QED
    BY <1>2, <2>1, <2>2
       DEF Next, vars, ReadHead, Insert, WriteFails, Begin, Commit, Rollback, Restart,
           ListSessions, NoAudit
<1> QED BY ChainInit, ChainStep, <1>1, <1>2, PTL DEF Spec

(* The journal of an earlier boot never changes again: no thread still has its *)
(* session, and no rollback reaches back over a restart.                      *)
THEOREM PastStays == Spec => PastIsSettled
<1>1. ASSUME ChainInv, [Next]_vars
      PROVE  [\A s \in Sessions : s # CliSession /\ s < boot => journal'[s] = journal[s]]_vars
  <2> SUFFICES ASSUME NEW s \in Sessions, s # CliSession, s < boot
               PROVE  journal'[s] = journal[s]
    OBVIOUS
  <2> USE <1>1 DEF ChainInv, TypeOK
  <2>0. s # boot
    BY DEF Sessions
  <2>1. ASSUME NEW t \in Threads, Insert(t) PROVE journal'[s] = journal[s]
    BY <2>0, <2>1 DEF Insert, Session
  <2>2. CASE Rollback \/ Restart
    BY <2>0, <2>2 DEF Rollback, Restart, TransactionIsLocal
  <2> QED
    BY <2>1, <2>2
       DEF Next, vars, ReadHead, WriteFails, Begin, Commit, ListSessions, VerifySession,
           Verified
<1> QED BY ChainInit, ChainStep, <1>1, PTL DEF Spec, PastIsSettled

=============================================================================
