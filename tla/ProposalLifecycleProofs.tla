----------------------- MODULE ProposalLifecycleProofs -----------------------
(***************************************************************************)
(* Safety of the proposal path for every set of proposals, items and       *)
(* requests.                                                               *)
(*                                                                         *)
(* IInv adds to TypeOK what each request knows at its step (for instance   *)
(* that an accept about to write an update holds a valid payload and has   *)
(* read a row); it is inductive by itself.  The safety invariants are then *)
(* proved on top of it, each with the strengthening it needs.              *)
(***************************************************************************)
EXTENDS ProposalLifecycle, TLAPS

IInv == TypeOK /\ RequestsKnow

-----------------------------------------------------------------------------
(* The UPDATE of updateWorkItem keeps items and stamps well typed when its   *)
(* caller read a row and has a value to put in the patched field.            *)
LEMMA UpdateRowType ==
    ASSUME IInv, NEW q \in Requests, NEW v \in Values, NEW by \in Updates \cup {None},
           on[q] \in Updates, cur[q] \in Rows, UpdateRow(q, v, by)
    PROVE  item' \in [Items -> Rows] /\ stamp' \in [Items -> Updates \cup {None}]
<1>1. Target[on[q]] \in Items /\ Field[on[q]] \in Fields
  BY ConstantsAssumption
<1>2. [cur[q] EXCEPT ![Field[on[q]]] = v] \in Rows
  BY <1>1 DEF Rows
<1> QED
  BY <1>1, <1>2 DEF UpdateRow, IInv, TypeOK

(* A request that moves to a step or an answer leaves pc well typed.         *)
LEMMA GotoType ==
    ASSUME IInv, NEW q \in Requests, NEW s \in Steps \cup Answers, Goto(q, s)
    PROVE  pc' \in [Requests -> Steps \cup Answers]
<1>1. pc \in [Requests -> Steps \cup Answers]
  BY DEF IInv, TypeOK
<1> QED
  BY <1>1 DEF Goto

LEMMA InitOK == Init => IInv
<1> USE ConstantsAssumption DEF Init, Statuses, Steps, Answers, Proposals, Made, Requests
<1>1. Init => TypeOK
  BY DEF TypeOK
<1>2. Init => RequestsKnow
  BY DEF RequestsKnow, AcceptKnows, UndoKnows, CommandKnows, EditorKnows, EnvelopeKnows
<1> QED
  BY <1>1, <1>2 DEF IInv

(* Every step keeps every variable in its type. *)
LEMMA TypeStep == IInv /\ [Next]_vars => TypeOK'
<1> SUFFICES ASSUME IInv, [Next]_vars PROVE TypeOK'
  OBVIOUS
<1> USE ConstantsAssumption
        DEF IInv, TypeOK, RequestsKnow, AcceptKnows, UndoKnows, CommandKnows, EditorKnows,
            EnvelopeKnows, At, Goto, Steps, Answers, Statuses, Requests, Made, Proposals,
            Envelopes, proposalVars, itemVars, readVars, Effective
<1>1. ASSUME NEW p \in Proposals, DraftSnapshot(p)
       PROVE  TypeOK'
  <2>1. p \in Updates => Patched(p) \in Values
    BY DEF Patched, Rows
  <2>2. snapshot' \in [Proposals -> Values \cup {None}]
    BY <1>1, <2>1 DEF DraftSnapshot
  <2> QED BY <1>1, <2>2 DEF DraftSnapshot
<1>2. ASSUME NEW p \in Proposals, DraftInsert(p)
       PROVE  TypeOK'
  BY <1>2 DEF DraftInsert
<1>3. ASSUME NEW p \in Proposals, Reject(p)
       PROVE  TypeOK'
  BY <1>3 DEF Reject
<1>4. ASSUME NEW p \in Proposals, NEW e \in Edits \cup {None}, Approve(p, e)
       PROVE  TypeOK'
  BY <1>4 DEF Approve
<1>5. ASSUME NEW a \in Accepts, NEW p \in Proposals, NEW e \in Edits \cup {None}, AcceptLoad(a, p, e)
       PROVE  TypeOK'
  BY <1>5 DEF AcceptLoad
<1>6. ASSUME NEW a \in Accepts, AcceptFail(a)
       PROVE  TypeOK'
  BY <1>6 DEF AcceptFail
<1>7. ASSUME NEW a \in Accepts, ValidateCreate(a)
       PROVE  TypeOK'
  <2>1. pc' \in [Requests -> Steps \cup Answers]
    <3>1. Goto(a, "invalid") \/ Goto(a, "write")
      BY <1>7 DEF ValidateCreate
    <3> QED BY <3>1
  <2>2. persist' \in [Accepts -> Values \cup {Bad, None}]
    BY <1>7 DEF ValidateCreate
  <2> QED BY <1>7, <2>1, <2>2 DEF ValidateCreate
<1>8. ASSUME NEW a \in Accepts, ValidateUpdate(a)
       PROVE  TypeOK'
  BY <1>8, SMTT(20) DEF ValidateUpdate
<1>9. ASSUME NEW a \in Accepts, CheckDrift(a)
       PROVE  TypeOK'
  <2>1. pc' \in [Requests -> Steps \cup Answers]
    <3>1. Goto(a, "stale") \/ Goto(a, "current")
      BY <1>9 DEF CheckDrift
    <3>2. pc \in [Requests -> Steps \cup Answers] /\ {"stale", "current"} \subseteq Steps \cup Answers
      OBVIOUS
    <3> HIDE DEF Steps, Answers, Requests, RequestsKnow, TypeOK, Envelopes
    <3> QED BY <3>1, <3>2
  <2>2. pre' \in [Accepts -> Values \cup {None}]
    BY <1>9 DEF CheckDrift
  <2> QED BY <1>9, <2>1, <2>2 DEF CheckDrift
<1>10. ASSUME NEW a \in Accepts, WriteUpdate(a)
       PROVE  TypeOK'
  <2>1. pc' \in [Requests -> Steps \cup Answers]
    BY <1>10, GotoType DEF WriteUpdate
  <2>2. on[a] \in Updates /\ cur[a] \in Rows /\ pay[a] \in Values
    BY <1>10 DEF WriteUpdate
  <2>3. item' \in [Items -> Rows] /\ stamp' \in [Items -> Updates \cup {None}]
    BY <1>10, <2>2, UpdateRowType DEF WriteUpdate
  <2> QED BY <1>10, <2>1, <2>3 DEF WriteUpdate
<1>11. ASSUME NEW a \in Accepts, WriteCreate(a)
       PROVE  TypeOK'
  <2>1. pc' \in [Requests -> Steps \cup Answers]
    BY <1>11, GotoType DEF WriteCreate
  <2>2. row' \in [Proposals -> Values \cup {None}]
    BY <1>11 DEF WriteCreate
  <2> QED BY <1>11, <2>1, <2>2 DEF WriteCreate
<1>12. ASSUME NEW a \in Accepts, WriteRefused(a)
       PROVE  TypeOK'
  BY <1>12 DEF WriteRefused
<1>13. ASSUME NEW a \in Accepts, Flip(a)
       PROVE  TypeOK'
  <2>1. pc' \in [Requests -> Steps \cup Answers]
    BY <1>13, GotoType DEF Flip
  <2>2. status' \in [Proposals -> Statuses]
    BY <1>13 DEF Flip
  <2>3. edited' \in [Proposals -> Values \cup {Bad, None}]
    BY <1>13 DEF Flip
  <2>4. pre[a] # None => [pre |-> pre[a], applied |-> pay[a], undone |-> FALSE] \in Envelopes
    BY <1>13 DEF Flip
  <2>5. envelope' \in [Proposals -> Envelopes \cup {None}]
    <3> DEFINE written == [pre |-> pre[a], applied |-> pay[a], undone |-> FALSE]
    <3>1. on[a] \in Proposals
      BY <1>13 DEF Flip
    <3>2. \/ envelope' = envelope
          \/ pre[a] # None /\ envelope' = [envelope EXCEPT ![on[a]] = written]
      <4> HIDE DEF Envelopes
      <4>1. CASE status[on[a]] # "pending"
        BY <1>13, <4>1 DEF Flip
      <4>2. CASE status[on[a]] = "pending" /\ pre[a] = None
        BY <1>13, <4>2 DEF Flip
      <4>3. CASE status[on[a]] = "pending" /\ pre[a] # None
        BY <1>13, <4>3 DEF Flip
      <4> QED BY <4>1, <4>2, <4>3
    <3>3. pre[a] # None => written \in Envelopes
      BY <2>4
    <3> HIDE DEF written, Envelopes
    <3> QED BY <3>1, <3>2, <3>3
  <2> QED BY <1>13, <2>1, <2>2, <2>3, <2>5 DEF Flip
<1>14. ASSUME NEW a \in Accepts, Lost(a)
       PROVE  TypeOK'
  BY <1>14 DEF Lost
<1>15. ASSUME NEW a \in Accepts, Compensate(a)
       PROVE  TypeOK'
  BY <1>15 DEF Compensate
<1>16. ASSUME NEW a \in Accepts, Capture(a)
       PROVE  TypeOK'
  <2>1. pc' \in [Requests -> Steps \cup Answers]
    BY <1>16, GotoType DEF Capture
  <2>2. memo' \in [Proposals -> {"none", "active", "retracted"}]
    BY <1>16 DEF Capture
  <2> QED BY <1>16, <2>1, <2>2 DEF Capture
<1>17. ASSUME NEW a \in Accepts, ReadCurrent(a, "write")
       PROVE  TypeOK'
  BY <1>17 DEF ReadCurrent
<1>18. ASSUME NEW c \in Commands, NEW p \in Proposals, CommandLoad(c, p)
       PROVE  TypeOK'
  BY <1>18 DEF CommandLoad
<1>19. ASSUME NEW c \in Commands, ReadCurrent(c, "commit")
       PROVE  TypeOK'
  BY <1>19 DEF ReadCurrent
<1>20. ASSUME NEW c \in Commands, CommandCommit(c)
       PROVE  TypeOK'
  <2>1. pc' \in [Requests -> Steps \cup Answers]
    BY <1>20, GotoType DEF CommandCommit
  <2>2. on[c] \in Proposals /\ Effective(on[c]) \in Values \cup {Bad}
    BY <1>20 DEF CommandCommit, Effective
  <2>3. status' \in [Proposals -> Statuses] /\ row' \in [Proposals -> Values \cup {None}]
    BY <1>20, <2>2, SMTT(20) DEF CommandCommit
  <2>4. CASE on[c] \in Creates
    BY <1>20, <2>1, <2>3, <2>4 DEF CommandCommit
  <2>5. CASE on[c] \in Updates
    <3>1. cur[c] \in Rows /\ Effective(on[c]) \in Values
      BY <1>20, <2>5 DEF CommandCommit
    <3>2. item' \in [Items -> Rows] /\ stamp' \in [Items -> Updates \cup {None}]
      BY <1>20, <2>5, <3>1, UpdateRowType DEF CommandCommit
    <3> QED BY <1>20, <2>1, <2>3, <3>2 DEF CommandCommit
  <2> QED BY <1>20, <2>4, <2>5 DEF CommandCommit
<1>21. ASSUME NEW c \in Commands, CommandAborts(c)
       PROVE  TypeOK'
  BY <1>21 DEF CommandAborts
<1>22. ASSUME NEW e \in Editors, NEW i \in Items, NEW f \in Fields, NEW v \in Values, EditRead(e, i, f, v)
       PROVE  TypeOK'
  BY <1>22 DEF EditRead
<1>23. ASSUME NEW e \in Editors, EditWrite(e)
       PROVE  TypeOK'
  <2>1. pc' \in [Requests -> Steps \cup Answers]
    BY <1>23, GotoType DEF EditWrite
  <2>2. patch[e] \in Items \X Fields \X Values /\ cur[e] \in Rows
    BY <1>23 DEF EditWrite
  <2>3. patch[e][1] \in Items /\ patch[e][2] \in Fields /\ patch[e][3] \in Values
    BY <2>2
  <2>4. [cur[e] EXCEPT ![patch[e][2]] = patch[e][3]] \in Rows
    BY <2>2, <2>3 DEF Rows
  <2>5. item' \in [Items -> Rows] /\ stamp' \in [Items -> Updates \cup {None}]
    BY <1>23, <2>3, <2>4 DEF EditWrite
  <2> QED BY <1>23, <2>1, <2>5 DEF EditWrite
<1>24. ASSUME NEW u \in Undos, NEW p \in Proposals, UndoLoad(u, p)
       PROVE  TypeOK'
  BY <1>24 DEF UndoLoad
<1>25. ASSUME NEW u \in Undos, UndoCheck(u)
       PROVE  TypeOK'
  <2>1. pc' \in [Requests -> Steps \cup Answers]
    BY <1>25, SMTT(20) DEF UndoCheck
  <2>2. fence' \in [Undos -> Values \cup {None}]
    BY <1>25 DEF UndoCheck, Patched
  <2> QED BY <1>25, <2>1, <2>2 DEF UndoCheck
<1>26. ASSUME NEW u \in Undos, ReadCurrent(u, "write")
       PROVE  TypeOK'
  BY <1>26 DEF ReadCurrent
<1>27. ASSUME NEW u \in Undos, UndoWrite(u)
       PROVE  TypeOK'
  <2>1. pc' \in [Requests -> Steps \cup Answers]
    BY <1>27, GotoType DEF UndoWrite
  <2>2. on[u] \in Updates /\ cur[u] \in Rows /\ envelope[on[u]].pre \in Values
    BY <1>27 DEF UndoWrite
  <2>3. item' \in [Items -> Rows] /\ stamp' \in [Items -> Updates \cup {None}]
    BY <1>27, <2>2, UpdateRowType DEF UndoWrite
  <2> QED BY <1>27, <2>1, <2>3 DEF UndoWrite
<1>28. ASSUME NEW u \in Undos, UndoMark(u)
       PROVE  TypeOK'
  <2>1. pc' \in [Requests -> Steps \cup Answers]
    <3>1. Goto(u, "retract") \/ Goto(u, "conflict")
      BY <1>28 DEF UndoMark
    <3>2. pc \in [Requests -> Steps \cup Answers] /\ {"retract", "conflict"} \subseteq Steps \cup Answers
      OBVIOUS
    <3> HIDE DEF Steps, Answers, Requests, RequestsKnow, TypeOK, Envelopes
    <3> QED BY <3>1, <3>2
  <2>2. on[u] \in Proposals /\ envelope[on[u]] \in Envelopes
    BY <1>28 DEF UndoMark
  <2> DEFINE marked == [envelope[on[u]] EXCEPT !.undone = TRUE]
  <2>3. marked \in Envelopes
    BY <2>2
  <2>4. envelope' = envelope \/ envelope' = [envelope EXCEPT ![on[u]] = marked]
    BY <1>28 DEF UndoMark
  <2>5. envelope' \in [Proposals -> Envelopes \cup {None}]
    <3> HIDE DEF marked, Envelopes
    <3> QED BY <2>2, <2>3, <2>4
  <2> QED BY <1>28, <2>1, <2>5 DEF UndoMark
<1>29. ASSUME NEW u \in Undos, UndoRetract(u)
       PROVE  TypeOK'
  BY <1>29 DEF UndoRetract
<1>30. ASSUME NEW q \in MayDie, Dies(q)
       PROVE  TypeOK'
  BY <1>30 DEF Dies, Running
<1>31. CASE UNCHANGED vars
  BY <1>31 DEF vars
<1> QED
  BY <1>1, <1>2, <1>3, <1>4, <1>5, <1>6, <1>7, <1>8, <1>9, <1>10, <1>11, <1>12, <1>13, <1>14, <1>15, <1>16, <1>17, <1>18, <1>19, <1>20, <1>21, <1>22, <1>23, <1>24, <1>25, <1>26, <1>27, <1>28, <1>29, <1>30, <1>31, Zenon
     DEF Next, ProposalNext, AcceptNext, AcceptStep, CommandNext, EditNext, UndoNext, UndoStep

(* Every step keeps what the requests know. *)
LEMMA KnowsStep == IInv /\ [Next]_vars => RequestsKnow'
<1> SUFFICES ASSUME IInv, [Next]_vars PROVE RequestsKnow'
  OBVIOUS
<1> USE ConstantsAssumption
        DEF IInv, TypeOK, RequestsKnow, AcceptKnows, UndoKnows, CommandKnows, EditorKnows,
            EnvelopeKnows, At, Goto, Steps, Answers, Statuses, Requests, Made, Proposals,
            Envelopes, proposalVars, itemVars, readVars, Effective
<1>1. ASSUME NEW p \in Proposals, DraftSnapshot(p)
       PROVE  RequestsKnow'
  BY <1>1 DEF DraftSnapshot, Patched
<1>2. ASSUME NEW p \in Proposals, DraftInsert(p)
       PROVE  RequestsKnow'
  BY <1>2 DEF DraftInsert
<1>3. ASSUME NEW p \in Proposals, Reject(p)
       PROVE  RequestsKnow'
  BY <1>3 DEF Reject
<1>4. ASSUME NEW p \in Proposals, NEW e \in Edits \cup {None}, Approve(p, e)
       PROVE  RequestsKnow'
  BY <1>4 DEF Approve
<1>5. ASSUME NEW a \in Accepts, NEW p \in Proposals, NEW e \in Edits \cup {None}, AcceptLoad(a, p, e)
       PROVE  RequestsKnow'
  BY <1>5 DEF AcceptLoad
<1>6. ASSUME NEW a \in Accepts, AcceptFail(a)
       PROVE  RequestsKnow'
  BY <1>6 DEF AcceptFail
<1>7. ASSUME NEW a \in Accepts, ValidateCreate(a)
       PROVE  RequestsKnow'
  BY <1>7 DEF ValidateCreate
<1>8. ASSUME NEW a \in Accepts, ValidateUpdate(a)
       PROVE  RequestsKnow'
  BY <1>8 DEF ValidateUpdate
<1>9. ASSUME NEW a \in Accepts, CheckDrift(a)
       PROVE  RequestsKnow'
  BY <1>9 DEF CheckDrift, Patched
<1>10. ASSUME NEW a \in Accepts, WriteUpdate(a)
       PROVE  RequestsKnow'
  BY <1>10 DEF WriteUpdate, UpdateRow, Patched
<1>11. ASSUME NEW a \in Accepts, WriteCreate(a)
       PROVE  RequestsKnow'
  BY <1>11 DEF WriteCreate
<1>12. ASSUME NEW a \in Accepts, WriteRefused(a)
       PROVE  RequestsKnow'
  BY <1>12 DEF WriteRefused
<1>13. ASSUME NEW a \in Accepts, Flip(a)
       PROVE  RequestsKnow'
  <2>1. \A x \in Accepts : AcceptKnows(x)'
    BY <1>13 DEF Flip
  <2>2. \A x \in Undos : UndoKnows(x)'
    BY <1>13, SMTT(20) DEF Flip
  <2>3. \A x \in Commands : CommandKnows(x)'
    BY <1>13 DEF Flip
  <2>4. \A p \in Proposals : EnvelopeKnows(p)'
    BY <1>13 DEF Flip
  <2> QED BY <1>13, <2>1, <2>2, <2>3, <2>4 DEF Flip
<1>14. ASSUME NEW a \in Accepts, Lost(a)
       PROVE  RequestsKnow'
  BY <1>14 DEF Lost
<1>15. ASSUME NEW a \in Accepts, Compensate(a)
       PROVE  RequestsKnow'
  BY <1>15 DEF Compensate
<1>16. ASSUME NEW a \in Accepts, Capture(a)
       PROVE  RequestsKnow'
  BY <1>16 DEF Capture
<1>17. ASSUME NEW a \in Accepts, ReadCurrent(a, "write")
       PROVE  RequestsKnow'
  BY <1>17 DEF ReadCurrent
<1>18. ASSUME NEW c \in Commands, NEW p \in Proposals, CommandLoad(c, p)
       PROVE  RequestsKnow'
  BY <1>18 DEF CommandLoad
<1>19. ASSUME NEW c \in Commands, ReadCurrent(c, "commit")
       PROVE  RequestsKnow'
  BY <1>19 DEF ReadCurrent
<1>20. ASSUME NEW c \in Commands, CommandCommit(c)
       PROVE  RequestsKnow'
  BY <1>20 DEF CommandCommit, UpdateRow, Patched
<1>21. ASSUME NEW c \in Commands, CommandAborts(c)
       PROVE  RequestsKnow'
  BY <1>21 DEF CommandAborts
<1>22. ASSUME NEW e \in Editors, NEW i \in Items, NEW f \in Fields, NEW v \in Values, EditRead(e, i, f, v)
       PROVE  RequestsKnow'
  BY <1>22 DEF EditRead
<1>23. ASSUME NEW e \in Editors, EditWrite(e)
       PROVE  RequestsKnow'
  BY <1>23 DEF EditWrite
<1>24. ASSUME NEW u \in Undos, NEW p \in Proposals, UndoLoad(u, p)
       PROVE  RequestsKnow'
  BY <1>24 DEF UndoLoad
<1>25. ASSUME NEW u \in Undos, UndoCheck(u)
       PROVE  RequestsKnow'
  BY <1>25 DEF UndoCheck, Patched
<1>26. ASSUME NEW u \in Undos, ReadCurrent(u, "write")
       PROVE  RequestsKnow'
  BY <1>26 DEF ReadCurrent
<1>27. ASSUME NEW u \in Undos, UndoWrite(u)
       PROVE  RequestsKnow'
  BY <1>27 DEF UndoWrite, UpdateRow, Patched
<1>28. ASSUME NEW u \in Undos, UndoMark(u)
       PROVE  RequestsKnow'
  <2>1. envelope[on[u]] \in Envelopes /\ on[u] \in Updates
    BY <1>28 DEF UndoMark
  <2>2. DEFINE marked == [envelope[on[u]] EXCEPT !.undone = TRUE]
  <2>3. marked \in Envelopes /\ marked.pre = envelope[on[u]].pre /\ marked.applied = envelope[on[u]].applied
    BY <2>1
  <2>4. envelope' = envelope \/ envelope' = [envelope EXCEPT ![on[u]] = marked]
    BY <1>28 DEF UndoMark
  <2> HIDE DEF marked
  <2>5. \A x \in Undos : UndoKnows(x)'
    BY <1>28, <2>1, <2>3, <2>4 DEF UndoMark
  <2>6. \A p \in Proposals : EnvelopeKnows(p)'
    BY <1>28, <2>1, <2>3, <2>4 DEF UndoMark
  <2>7. (\A x \in Accepts : AcceptKnows(x)') /\ (\A x \in Commands : CommandKnows(x)')
    BY <1>28 DEF UndoMark
  <2> QED BY <1>28, <2>5, <2>6, <2>7 DEF UndoMark
<1>29. ASSUME NEW u \in Undos, UndoRetract(u)
       PROVE  RequestsKnow'
  BY <1>29 DEF UndoRetract
<1>30. ASSUME NEW q \in MayDie, Dies(q)
       PROVE  RequestsKnow'
  BY <1>30 DEF Dies, Running
<1>31. CASE UNCHANGED vars
  BY <1>31 DEF vars
<1> QED
  BY <1>1, <1>2, <1>3, <1>4, <1>5, <1>6, <1>7, <1>8, <1>9, <1>10, <1>11, <1>12, <1>13, <1>14, <1>15, <1>16, <1>17, <1>18, <1>19, <1>20, <1>21, <1>22, <1>23, <1>24, <1>25, <1>26, <1>27, <1>28, <1>29, <1>30, <1>31, Zenon
     DEF Next, ProposalNext, AcceptNext, AcceptStep, CommandNext, EditNext, UndoNext, UndoStep

(* Type correctness: every variable of the proposal path keeps its type.     *)
THEOREM TypeCorrect == Spec => []TypeOK
<1>1. Init => IInv
  BY InitOK
<1>2. IInv /\ [Next]_vars => IInv'
  BY TypeStep, KnowsStep DEF IInv
<1>3. IInv => TypeOK
  BY DEF IInv
<1> QED
  BY <1>1, <1>2, <1>3, PTL DEF Spec

THEOREM IInvHolds == Spec => []IInv
<1>1. IInv /\ [Next]_vars => IInv'
  BY TypeStep, KnowsStep DEF IInv
<1> QED
  BY InitOK, <1>1, PTL DEF Spec

-----------------------------------------------------------------------------
(* The strengthening under which the row of a proposal follows its status:   *)
(* what an accept past its write knows of the decision, and that the row of  *)
(* a proposal that is not applied is some accept's unfinished business.      *)
PastWriteKnows(a) ==
    /\ pc[a] \in {"lost", "compensate"} => status[on[a]] # "pending"
    /\ pc[a] = "compensate" => on[a] \in Made /\ status[on[a]] \in {"rejected", "failed"}
    /\ pc[a] = "flip" /\ on[a] \in Made /\ status[on[a]] \notin {"rejected", "failed"}
          => row[on[a]] # None

RowIsOwned(p) ==
    status[p] \in {"absent", "drafting", "pending", "rejected", "failed"} /\ row[p] # None
        => \E a \in Accepts : Unsettled(a, p)

Settled ==
    /\ \A a \in Accepts : PastWriteKnows(a)
    /\ \A p \in Made : RowIsOwned(p)
    /\ AppliedCreateHasRow

(* Every step keeps the rows settled. *)
LEMMA SettledStep == IInv /\ Settled /\ [Next]_vars => Settled'
<1> SUFFICES ASSUME IInv /\ Settled, [Next]_vars PROVE Settled'
  OBVIOUS
<1> USE ConstantsAssumption
        DEF IInv, TypeOK, RequestsKnow, AcceptKnows, Settled, PastWriteKnows, RowIsOwned,
            AppliedCreateHasRow, Unsettled, At, Goto, Steps, Answers, Requests, Made, Proposals,
            proposalVars, itemVars, readVars
<1>1. ASSUME NEW p \in Proposals, DraftSnapshot(p)
       PROVE  Settled'
  BY <1>1 DEF DraftSnapshot, Patched
<1>2. ASSUME NEW p \in Proposals, DraftInsert(p)
       PROVE  Settled'
  BY <1>2 DEF DraftInsert
<1>3. ASSUME NEW p \in Proposals, Reject(p)
       PROVE  Settled'
  BY <1>3 DEF Reject
<1>4. ASSUME NEW p \in Proposals, NEW e \in Edits \cup {None}, Approve(p, e)
       PROVE  Settled'
  BY <1>4 DEF Approve
<1>5. ASSUME NEW a \in Accepts, NEW p \in Proposals, NEW e \in Edits \cup {None}, AcceptLoad(a, p, e)
       PROVE  Settled'
  BY <1>5 DEF AcceptLoad
<1>6. ASSUME NEW a \in Accepts, AcceptFail(a)
       PROVE  Settled'
  BY <1>6 DEF AcceptFail
<1>7. ASSUME NEW a \in Accepts, ValidateCreate(a)
       PROVE  Settled'
  <2>1. UNCHANGED <<proposalVars, row, on, dead, cur, pay, loaded>> /\ (Goto(a, "invalid") \/ Goto(a, "write"))
    BY <1>7 DEF ValidateCreate
  <2> QED BY <1>7, <2>1, SMTT(20) DEF ValidateCreate
<1>8. ASSUME NEW a \in Accepts, ValidateUpdate(a)
       PROVE  Settled'
  BY <1>8 DEF ValidateUpdate
<1>9. ASSUME NEW a \in Accepts, CheckDrift(a)
       PROVE  Settled'
  BY <1>9 DEF CheckDrift, Patched
<1>10. ASSUME NEW a \in Accepts, WriteUpdate(a)
       PROVE  Settled'
  BY <1>10 DEF WriteUpdate
<1>11. ASSUME NEW a \in Accepts, WriteCreate(a)
       PROVE  Settled'
  BY <1>11 DEF WriteCreate
<1>12. ASSUME NEW a \in Accepts, WriteRefused(a)
       PROVE  Settled'
  BY <1>12 DEF WriteRefused
<1>13. ASSUME NEW a \in Accepts, Flip(a)
       PROVE  Settled'
  BY <1>13 DEF Flip
<1>14. ASSUME NEW a \in Accepts, Lost(a)
       PROVE  Settled'
  BY <1>14 DEF Lost
<1>15. ASSUME NEW a \in Accepts, Compensate(a)
       PROVE  Settled'
  BY <1>15 DEF Compensate
<1>16. ASSUME NEW a \in Accepts, Capture(a)
       PROVE  Settled'
  BY <1>16 DEF Capture
<1>17. ASSUME NEW a \in Accepts, ReadCurrent(a, "write")
       PROVE  Settled'
  BY <1>17 DEF ReadCurrent
<1>18. ASSUME NEW c \in Commands, NEW p \in Proposals, CommandLoad(c, p)
       PROVE  Settled'
  BY <1>18 DEF CommandLoad
<1>19. ASSUME NEW c \in Commands, ReadCurrent(c, "commit")
       PROVE  Settled'
  BY <1>19 DEF ReadCurrent
<1>20. ASSUME NEW c \in Commands, CommandCommit(c)
       PROVE  Settled'
  <2>1. on[c] \in Proposals /\ status[on[c]] = "accepted"
    BY <1>20 DEF CommandCommit, CommandKnows
  <2>2. Effective(on[c]) \in Values \cup {Bad, None} /\ Effective(on[c]) # None
    BY <2>1 DEF Effective
  <2>3. status' = [status EXCEPT ![on[c]] = "applied"] /\ pc' = [pc EXCEPT ![c] = "applied"]
    BY <1>20 DEF CommandCommit
  <2>4. CASE on[c] \in Creates
    <3>1. row' = [row EXCEPT ![on[c]] = Effective(on[c])]
      BY <1>20, <2>4 DEF CommandCommit
    <3> QED BY <1>20, <2>1, <2>2, <2>3, <3>1 DEF CommandCommit
  <2>5. CASE on[c] \in Updates
    <3>1. row' = row
      BY <1>20, <2>5 DEF CommandCommit
    <3> QED BY <1>20, <2>1, <2>3, <2>5, <3>1 DEF CommandCommit
  <2> QED BY <1>20, <2>4, <2>5 DEF CommandCommit
<1>21. ASSUME NEW c \in Commands, CommandAborts(c)
       PROVE  Settled'
  BY <1>21 DEF CommandAborts
<1>22. ASSUME NEW e \in Editors, NEW i \in Items, NEW f \in Fields, NEW v \in Values, EditRead(e, i, f, v)
       PROVE  Settled'
  BY <1>22 DEF EditRead
<1>23. ASSUME NEW e \in Editors, EditWrite(e)
       PROVE  Settled'
  BY <1>23 DEF EditWrite
<1>24. ASSUME NEW u \in Undos, NEW p \in Proposals, UndoLoad(u, p)
       PROVE  Settled'
  BY <1>24 DEF UndoLoad
<1>25. ASSUME NEW u \in Undos, UndoCheck(u)
       PROVE  Settled'
  BY <1>25 DEF UndoCheck, Patched
<1>26. ASSUME NEW u \in Undos, ReadCurrent(u, "write")
       PROVE  Settled'
  BY <1>26 DEF ReadCurrent
<1>27. ASSUME NEW u \in Undos, UndoWrite(u)
       PROVE  Settled'
  BY <1>27 DEF UndoWrite
<1>28. ASSUME NEW u \in Undos, UndoMark(u)
       PROVE  Settled'
  BY <1>28 DEF UndoMark
<1>29. ASSUME NEW u \in Undos, UndoRetract(u)
       PROVE  Settled'
  BY <1>29 DEF UndoRetract
<1>30. ASSUME NEW q \in MayDie, Dies(q)
       PROVE  Settled'
  BY <1>30 DEF Dies, Running
<1>31. CASE UNCHANGED vars
  BY <1>31 DEF vars
<1> QED
  BY <1>1, <1>2, <1>3, <1>4, <1>5, <1>6, <1>7, <1>8, <1>9, <1>10, <1>11, <1>12, <1>13, <1>14, <1>15, <1>16,
     <1>17, <1>18, <1>19, <1>20, <1>21, <1>22, <1>23, <1>24, <1>25, <1>26, <1>27, <1>28, <1>29, <1>30, <1>31, Zenon
     DEF Next, ProposalNext, AcceptNext, AcceptStep, CommandNext, EditNext, UndoNext, UndoStep

LEMMA SettledInit == Init => Settled
BY ConstantsAssumption
   DEF Init, Settled, PastWriteKnows, RowIsOwned, AppliedCreateHasRow, Made, Proposals, Requests

(* An applied create has its row, whatever accepts, rejections, commands,    *)
(* crashes and compensations interleave.                                     *)
THEOREM AppliedCreateHasRowHolds == Spec => []AppliedCreateHasRow
<1>1. Init => Settled
  BY SettledInit
<1>2. IInv /\ Settled /\ [Next]_vars => Settled'
  BY SettledStep
<1>3. Settled => AppliedCreateHasRow
  BY DEF Settled
<1> QED
  BY <1>1, <1>2, <1>3, IInvHolds, PTL DEF Spec

(* The row of a declined create always has an owner that wrote it and still  *)
(* has to compensate (or died before it could).                              *)
THEOREM DeclinedRowIsOwnedHolds == Spec => []DeclinedRowIsOwned
<1>1. Init => Settled
  BY SettledInit
<1>2. IInv /\ Settled /\ [Next]_vars => Settled'
  BY SettledStep
<1>3. Settled => DeclinedRowIsOwned
  BY DEF Settled, RowIsOwned, DeclinedRowIsOwned
<1> QED
  BY <1>1, <1>2, <1>3, IInvHolds, PTL DEF Spec

-----------------------------------------------------------------------------
(* One winner, and memories only of applied proposals: each is inductive on  *)
(* top of IInv, because a winner is made only by leaving pending or accepted.*)
Decided == OneWinner /\ MemoryOnlyIfApplied

(* Every step keeps the decision unique. *)
LEMMA DecidedStep == IInv /\ Decided /\ [Next]_vars => Decided'
<1> SUFFICES ASSUME IInv /\ Decided, [Next]_vars PROVE Decided'
  OBVIOUS
<1> USE ConstantsAssumption
        DEF IInv, TypeOK, RequestsKnow, AcceptKnows, CommandKnows, Decided, OneWinner, Winner,
            MemoryOnlyIfApplied, At, Goto, Steps, Answers, Requests, Made, Proposals,
            proposalVars, itemVars, readVars
<1>1. ASSUME NEW p \in Proposals, DraftSnapshot(p)
       PROVE  Decided'
  BY <1>1 DEF DraftSnapshot, Patched
<1>2. ASSUME NEW p \in Proposals, DraftInsert(p)
       PROVE  Decided'
  BY <1>2 DEF DraftInsert
<1>3. ASSUME NEW p \in Proposals, Reject(p)
       PROVE  Decided'
  BY <1>3 DEF Reject
<1>4. ASSUME NEW p \in Proposals, NEW e \in Edits \cup {None}, Approve(p, e)
       PROVE  Decided'
  BY <1>4 DEF Approve
<1>5. ASSUME NEW a \in Accepts, NEW p \in Proposals, NEW e \in Edits \cup {None}, AcceptLoad(a, p, e)
       PROVE  Decided'
  BY <1>5 DEF AcceptLoad
<1>6. ASSUME NEW a \in Accepts, AcceptFail(a)
       PROVE  Decided'
  BY <1>6 DEF AcceptFail
<1>7. ASSUME NEW a \in Accepts, ValidateCreate(a)
       PROVE  Decided'
  BY <1>7 DEF ValidateCreate
<1>8. ASSUME NEW a \in Accepts, ValidateUpdate(a)
       PROVE  Decided'
  BY <1>8 DEF ValidateUpdate
<1>9. ASSUME NEW a \in Accepts, CheckDrift(a)
       PROVE  Decided'
  BY <1>9 DEF CheckDrift, Patched
<1>10. ASSUME NEW a \in Accepts, WriteUpdate(a)
       PROVE  Decided'
  BY <1>10 DEF WriteUpdate
<1>11. ASSUME NEW a \in Accepts, WriteCreate(a)
       PROVE  Decided'
  BY <1>11 DEF WriteCreate
<1>12. ASSUME NEW a \in Accepts, WriteRefused(a)
       PROVE  Decided'
  BY <1>12 DEF WriteRefused
<1>13. ASSUME NEW a \in Accepts, Flip(a)
       PROVE  Decided'
  <2>1. on[a] \in Proposals /\ on' = on /\ memo' = memo
    BY <1>13 DEF Flip
  <2>2. CASE status[on[a]] = "pending"
    <3>1. /\ status' = [status EXCEPT ![on[a]] = "applied"]
          /\ pc' = [pc EXCEPT ![a] = "capture"]
      BY <1>13, <2>2 DEF Flip
    <3>2. \A q \in Accepts \cup Commands : Winner(q) => on[q] # on[a]
      BY <2>2
    <3> QED BY <2>1, <3>1, <3>2
  <2>3. CASE status[on[a]] # "pending"
    <3>1. status' = status /\ pc' = [pc EXCEPT ![a] = "lost"]
      BY <1>13, <2>3 DEF Flip
    <3> QED BY <2>1, <3>1
  <2> QED BY <2>2, <2>3
<1>14. ASSUME NEW a \in Accepts, Lost(a)
       PROVE  Decided'
  BY <1>14 DEF Lost
<1>15. ASSUME NEW a \in Accepts, Compensate(a)
       PROVE  Decided'
  BY <1>15 DEF Compensate
<1>16. ASSUME NEW a \in Accepts, Capture(a)
       PROVE  Decided'
  BY <1>16 DEF Capture
<1>17. ASSUME NEW a \in Accepts, ReadCurrent(a, "write")
       PROVE  Decided'
  BY <1>17 DEF ReadCurrent
<1>18. ASSUME NEW c \in Commands, NEW p \in Proposals, CommandLoad(c, p)
       PROVE  Decided'
  BY <1>18 DEF CommandLoad
<1>19. ASSUME NEW c \in Commands, ReadCurrent(c, "commit")
       PROVE  Decided'
  BY <1>19 DEF ReadCurrent
<1>20. ASSUME NEW c \in Commands, CommandCommit(c)
       PROVE  Decided'
  BY <1>20 DEF CommandCommit
<1>21. ASSUME NEW c \in Commands, CommandAborts(c)
       PROVE  Decided'
  BY <1>21 DEF CommandAborts
<1>22. ASSUME NEW e \in Editors, NEW i \in Items, NEW f \in Fields, NEW v \in Values, EditRead(e, i, f, v)
       PROVE  Decided'
  BY <1>22 DEF EditRead
<1>23. ASSUME NEW e \in Editors, EditWrite(e)
       PROVE  Decided'
  BY <1>23 DEF EditWrite
<1>24. ASSUME NEW u \in Undos, NEW p \in Proposals, UndoLoad(u, p)
       PROVE  Decided'
  BY <1>24 DEF UndoLoad
<1>25. ASSUME NEW u \in Undos, UndoCheck(u)
       PROVE  Decided'
  BY <1>25 DEF UndoCheck, Patched
<1>26. ASSUME NEW u \in Undos, ReadCurrent(u, "write")
       PROVE  Decided'
  BY <1>26 DEF ReadCurrent
<1>27. ASSUME NEW u \in Undos, UndoWrite(u)
       PROVE  Decided'
  BY <1>27 DEF UndoWrite
<1>28. ASSUME NEW u \in Undos, UndoMark(u)
       PROVE  Decided'
  BY <1>28 DEF UndoMark
<1>29. ASSUME NEW u \in Undos, UndoRetract(u)
       PROVE  Decided'
  BY <1>29 DEF UndoRetract
<1>30. ASSUME NEW q \in MayDie, Dies(q)
       PROVE  Decided'
  BY <1>30 DEF Dies, Running
<1>31. CASE UNCHANGED vars
  BY <1>31 DEF vars
<1> QED
  BY <1>1, <1>2, <1>3, <1>4, <1>5, <1>6, <1>7, <1>8, <1>9, <1>10, <1>11, <1>12, <1>13, <1>14, <1>15, <1>16,
     <1>17, <1>18, <1>19, <1>20, <1>21, <1>22, <1>23, <1>24, <1>25, <1>26, <1>27, <1>28, <1>29, <1>30, <1>31, Zenon
     DEF Next, ProposalNext, AcceptNext, AcceptStep, CommandNext, EditNext, UndoNext, UndoStep

LEMMA DecidedHolds == Spec => []Decided
<1>1. Init => Decided
  BY ConstantsAssumption
     DEF Init, Decided, OneWinner, Winner, MemoryOnlyIfApplied, Requests
<1>2. IInv /\ Decided /\ [Next]_vars => Decided'
  BY DecidedStep
<1> QED
  BY <1>1, <1>2, IInvHolds, PTL DEF Spec

(* At most one accept or command is told that it applied a proposal.         *)
THEOREM OneWinnerHolds == Spec => []OneWinner
<1>1. Decided => OneWinner
  BY DEF Decided
<1> QED
  BY <1>1, DecidedHolds, PTL

(* Only an applied proposal ever leaves a captured memory.                   *)
THEOREM MemoryOnlyIfAppliedHolds == Spec => []MemoryOnlyIfApplied
<1>1. Decided => MemoryOnlyIfApplied
  BY DEF Decided
<1> QED
  BY <1>1, DecidedHolds, PTL

-----------------------------------------------------------------------------
(* An agent's write lands only on its baseline, at every step. *)
LEMMA AgentStep ==
    ASSUME IInv, [Next]_vars, NEW p \in Updates,
           stamp'[Target[p]] = p, item'[Target[p]] # item[Target[p]]
    PROVE  Patched(p) = snapshot[p]
<1> USE ConstantsAssumption
        DEF IInv, TypeOK, Requests, Made, Proposals, proposalVars, itemVars, readVars
<1>1. ASSUME NEW x \in Proposals, DraftSnapshot(x)
       PROVE  Patched(p) = snapshot[p]
  BY <1>1 DEF DraftSnapshot, Patched
<1>2. ASSUME NEW x \in Proposals, DraftInsert(x)
       PROVE  Patched(p) = snapshot[p]
  BY <1>2 DEF DraftInsert
<1>3. ASSUME NEW x \in Proposals, Reject(x)
       PROVE  Patched(p) = snapshot[p]
  BY <1>3 DEF Reject
<1>4. ASSUME NEW x \in Proposals, NEW e \in Edits \cup {None}, Approve(x, e)
       PROVE  Patched(p) = snapshot[p]
  BY <1>4 DEF Approve
<1>5. ASSUME NEW a \in Accepts, NEW x \in Proposals, NEW e \in Edits \cup {None}, AcceptLoad(a, x, e)
       PROVE  Patched(p) = snapshot[p]
  BY <1>5 DEF AcceptLoad
<1>6. ASSUME NEW a \in Accepts, AcceptFail(a)
       PROVE  Patched(p) = snapshot[p]
  BY <1>6 DEF AcceptFail
<1>7. ASSUME NEW a \in Accepts, ValidateCreate(a)
       PROVE  Patched(p) = snapshot[p]
  BY <1>7 DEF ValidateCreate
<1>8. ASSUME NEW a \in Accepts, ValidateUpdate(a)
       PROVE  Patched(p) = snapshot[p]
  BY <1>8 DEF ValidateUpdate
<1>9. ASSUME NEW a \in Accepts, CheckDrift(a)
       PROVE  Patched(p) = snapshot[p]
  BY <1>9 DEF CheckDrift, Patched
<1>10. ASSUME NEW a \in Accepts, WriteUpdate(a)
       PROVE  Patched(p) = snapshot[p]
  <2>1. on[a] \in Updates /\ UpdateRow(a, pay[a], on[a]) /\ Patched(on[a]) = snapshot[on[a]]
    BY <1>10, item' # item DEF WriteUpdate
  <2>2. Target[on[a]] = Target[p]
    BY <2>1 DEF UpdateRow
  <2>3. on[a] = p
    BY <2>1, <2>2 DEF UpdateRow
  <2> QED BY <2>1, <2>3
<1>11. ASSUME NEW a \in Accepts, WriteCreate(a)
       PROVE  Patched(p) = snapshot[p]
  BY <1>11 DEF WriteCreate
<1>12. ASSUME NEW a \in Accepts, WriteRefused(a)
       PROVE  Patched(p) = snapshot[p]
  BY <1>12 DEF WriteRefused
<1>13. ASSUME NEW a \in Accepts, Flip(a)
       PROVE  Patched(p) = snapshot[p]
  BY <1>13 DEF Flip
<1>14. ASSUME NEW a \in Accepts, Lost(a)
       PROVE  Patched(p) = snapshot[p]
  BY <1>14 DEF Lost
<1>15. ASSUME NEW a \in Accepts, Compensate(a)
       PROVE  Patched(p) = snapshot[p]
  BY <1>15 DEF Compensate
<1>16. ASSUME NEW a \in Accepts, Capture(a)
       PROVE  Patched(p) = snapshot[p]
  BY <1>16 DEF Capture
<1>17. ASSUME NEW a \in Accepts, ReadCurrent(a, "write")
       PROVE  Patched(p) = snapshot[p]
  BY <1>17 DEF ReadCurrent
<1>18. ASSUME NEW c \in Commands, NEW x \in Proposals, CommandLoad(c, x)
       PROVE  Patched(p) = snapshot[p]
  BY <1>18 DEF CommandLoad
<1>19. ASSUME NEW c \in Commands, ReadCurrent(c, "commit")
       PROVE  Patched(p) = snapshot[p]
  BY <1>19 DEF ReadCurrent
<1>20. ASSUME NEW c \in Commands, CommandCommit(c)
       PROVE  Patched(p) = snapshot[p]
  <2>1. on[c] \in Updates /\ UpdateRow(c, Effective(on[c]), on[c]) /\ Patched(on[c]) = snapshot[on[c]]
    BY <1>20, item' # item DEF CommandCommit
  <2>2. Target[on[c]] = Target[p]
    BY <2>1 DEF UpdateRow
  <2>3. on[c] = p
    BY <2>1, <2>2 DEF UpdateRow
  <2> QED BY <2>1, <2>3
<1>21. ASSUME NEW c \in Commands, CommandAborts(c)
       PROVE  Patched(p) = snapshot[p]
  BY <1>21 DEF CommandAborts
<1>22. ASSUME NEW e \in Editors, NEW i \in Items, NEW f \in Fields, NEW v \in Values, EditRead(e, i, f, v)
       PROVE  Patched(p) = snapshot[p]
  BY <1>22 DEF EditRead
<1>23. ASSUME NEW e \in Editors, EditWrite(e)
       PROVE  Patched(p) = snapshot[p]
  <2>1. stamp'[Target[p]] = None
    BY <1>23 DEF EditWrite
  <2> QED BY <2>1
<1>24. ASSUME NEW u \in Undos, NEW x \in Proposals, UndoLoad(u, x)
       PROVE  Patched(p) = snapshot[p]
  BY <1>24 DEF UndoLoad
<1>25. ASSUME NEW u \in Undos, UndoCheck(u)
       PROVE  Patched(p) = snapshot[p]
  BY <1>25 DEF UndoCheck, Patched
<1>26. ASSUME NEW u \in Undos, ReadCurrent(u, "write")
       PROVE  Patched(p) = snapshot[p]
  BY <1>26 DEF ReadCurrent
<1>27. ASSUME NEW u \in Undos, UndoWrite(u)
       PROVE  Patched(p) = snapshot[p]
  <2>1. on[u] \in Updates /\ UpdateRow(u, envelope[on[u]].pre, None)
    BY <1>27, item' # item DEF UndoWrite, RequestsKnow, UndoKnows, At
  <2>2. stamp'[Target[p]] = None
    BY <2>1 DEF UpdateRow
  <2> QED BY <2>2
<1>28. ASSUME NEW u \in Undos, UndoMark(u)
       PROVE  Patched(p) = snapshot[p]
  BY <1>28 DEF UndoMark
<1>29. ASSUME NEW u \in Undos, UndoRetract(u)
       PROVE  Patched(p) = snapshot[p]
  BY <1>29 DEF UndoRetract
<1>30. ASSUME NEW q \in MayDie, Dies(q)
       PROVE  Patched(p) = snapshot[p]
  BY <1>30 DEF Dies, Running
<1>31. CASE UNCHANGED vars
  BY <1>31 DEF vars
<1> QED
  BY <1>1, <1>2, <1>3, <1>4, <1>5, <1>6, <1>7, <1>8, <1>9, <1>10, <1>11, <1>12, <1>13, <1>14, <1>15, <1>16,
     <1>17, <1>18, <1>19, <1>20, <1>21, <1>22, <1>23, <1>24, <1>25, <1>26, <1>27, <1>28, <1>29, <1>30, <1>31, Zenon
     DEF Next, ProposalNext, AcceptNext, AcceptStep, CommandNext, EditNext, UndoNext, UndoStep

(* The guarantee of the fence inside the UPDATE: an accept or a command only *)
(* ever overwrites the value its proposal was authored against.              *)
THEOREM AgentOverwritesOnlyBaselineHolds == Spec => AgentOverwritesOnlyBaseline
<1>1. IInv /\ [Next]_vars =>
        [\A p \in Updates :
           stamp'[Target[p]] = p /\ item'[Target[p]] # item[Target[p]]
             => Patched(p) = snapshot[p]]_vars
  BY AgentStep
<1> QED
  BY <1>1, IInvHolds, PTL DEF Spec, AgentOverwritesOnlyBaseline

-----------------------------------------------------------------------------
Reverses(u) ==
    /\ Patched(on[u]) = envelope[on[u]].applied
    /\ Patched(on[u])' = snapshot[on[u]]

(* An undo that lands reverses exactly what the accept applied. *)
LEMMA UndoStepLemma ==
    ASSUME IInv, [Next]_vars, NEW z \in Undos, UndoLands(z)
    PROVE  Reverses(z)
<1> USE ConstantsAssumption
        DEF IInv, TypeOK, Requests, Made, Proposals, proposalVars, itemVars, readVars, At, Goto, UndoLands, Steps, Answers
<1>1. ASSUME NEW p \in Proposals, DraftSnapshot(p)
       PROVE  Reverses(z)
  BY <1>1 DEF DraftSnapshot, Patched
<1>2. ASSUME NEW p \in Proposals, DraftInsert(p)
       PROVE  Reverses(z)
  BY <1>2 DEF DraftInsert
<1>3. ASSUME NEW p \in Proposals, Reject(p)
       PROVE  Reverses(z)
  BY <1>3 DEF Reject
<1>4. ASSUME NEW p \in Proposals, NEW e \in Edits \cup {None}, Approve(p, e)
       PROVE  Reverses(z)
  BY <1>4 DEF Approve
<1>5. ASSUME NEW a \in Accepts, NEW p \in Proposals, NEW e \in Edits \cup {None}, AcceptLoad(a, p, e)
       PROVE  Reverses(z)
  BY <1>5 DEF AcceptLoad
<1>6. ASSUME NEW a \in Accepts, AcceptFail(a)
       PROVE  Reverses(z)
  BY <1>6 DEF AcceptFail
<1>7. ASSUME NEW a \in Accepts, ValidateCreate(a)
       PROVE  Reverses(z)
  BY <1>7 DEF ValidateCreate
<1>8. ASSUME NEW a \in Accepts, ValidateUpdate(a)
       PROVE  Reverses(z)
  BY <1>8 DEF ValidateUpdate
<1>9. ASSUME NEW a \in Accepts, CheckDrift(a)
       PROVE  Reverses(z)
  BY <1>9 DEF CheckDrift, Patched
<1>10. ASSUME NEW a \in Accepts, WriteUpdate(a)
       PROVE  Reverses(z)
  BY <1>10 DEF WriteUpdate
<1>11. ASSUME NEW a \in Accepts, WriteCreate(a)
       PROVE  Reverses(z)
  BY <1>11 DEF WriteCreate
<1>12. ASSUME NEW a \in Accepts, WriteRefused(a)
       PROVE  Reverses(z)
  BY <1>12 DEF WriteRefused
<1>13. ASSUME NEW a \in Accepts, Flip(a)
       PROVE  Reverses(z)
  BY <1>13 DEF Flip
<1>14. ASSUME NEW a \in Accepts, Lost(a)
       PROVE  Reverses(z)
  BY <1>14 DEF Lost
<1>15. ASSUME NEW a \in Accepts, Compensate(a)
       PROVE  Reverses(z)
  BY <1>15 DEF Compensate
<1>16. ASSUME NEW a \in Accepts, Capture(a)
       PROVE  Reverses(z)
  BY <1>16 DEF Capture
<1>17. ASSUME NEW a \in Accepts, ReadCurrent(a, "write")
       PROVE  Reverses(z)
  BY <1>17 DEF ReadCurrent
<1>18. ASSUME NEW c \in Commands, NEW p \in Proposals, CommandLoad(c, p)
       PROVE  Reverses(z)
  BY <1>18 DEF CommandLoad
<1>19. ASSUME NEW c \in Commands, ReadCurrent(c, "commit")
       PROVE  Reverses(z)
  BY <1>19 DEF ReadCurrent
<1>20. ASSUME NEW c \in Commands, CommandCommit(c)
       PROVE  Reverses(z)
  BY <1>20 DEF CommandCommit
<1>21. ASSUME NEW c \in Commands, CommandAborts(c)
       PROVE  Reverses(z)
  BY <1>21 DEF CommandAborts
<1>22. ASSUME NEW e \in Editors, NEW i \in Items, NEW f \in Fields, NEW v \in Values, EditRead(e, i, f, v)
       PROVE  Reverses(z)
  BY <1>22 DEF EditRead
<1>23. ASSUME NEW e \in Editors, EditWrite(e)
       PROVE  Reverses(z)
  BY <1>23 DEF EditWrite
<1>24. ASSUME NEW u \in Undos, NEW p \in Proposals, UndoLoad(u, p)
       PROVE  Reverses(z)
  BY <1>24 DEF UndoLoad
<1>25. ASSUME NEW u \in Undos, UndoCheck(u)
       PROVE  Reverses(z)
  BY <1>25 DEF UndoCheck, Patched
<1>26. ASSUME NEW u \in Undos, ReadCurrent(u, "write")
       PROVE  Reverses(z)
  BY <1>26 DEF ReadCurrent
<1>27. ASSUME NEW u \in Undos, UndoWrite(u)
       PROVE  Reverses(z)
  <2>1. u = z
    BY <1>27 DEF UndoWrite, UndoLands, At, Goto
  <2>2. on[z] \in Updates /\ envelope[on[z]] \in Envelopes /\ fence[z] = envelope[on[z]].applied
    BY DEF UndoLands, RequestsKnow, UndoKnows
  <2>3. envelope[on[z]].pre = snapshot[on[z]]
    BY <2>2 DEF RequestsKnow, EnvelopeKnows, Envelopes
  <2>4. Patched(on[z]) = fence[z] /\ UpdateRow(z, envelope[on[z]].pre, None) /\ on' = on
    <3>1. Patched(on[z]) # fence[z] => pc'[z] = "conflict"
      BY <1>27, <2>1 DEF UndoWrite
    <3> QED BY <1>27, <2>1, <3>1 DEF UndoWrite
  <2>5. cur[z] \in Rows /\ Target[on[z]] \in Items /\ Field[on[z]] \in Fields
    BY <2>2 DEF RequestsKnow, UndoKnows
  <2>6. item'[Target[on[z]]][Field[on[z]]] = envelope[on[z]].pre
    BY <2>2, <2>4, <2>5 DEF UpdateRow, Rows
  <2> QED BY <2>2, <2>3, <2>4, <2>6 DEF Patched, Reverses
<1>28. ASSUME NEW u \in Undos, UndoMark(u)
       PROVE  Reverses(z)
  BY <1>28 DEF UndoMark
<1>29. ASSUME NEW u \in Undos, UndoRetract(u)
       PROVE  Reverses(z)
  BY <1>29 DEF UndoRetract
<1>30. ASSUME NEW q \in MayDie, Dies(q)
       PROVE  Reverses(z)
  BY <1>30 DEF Dies, Running
<1>31. CASE UNCHANGED vars
  BY <1>31 DEF vars
<1> QED
  BY <1>1, <1>2, <1>3, <1>4, <1>5, <1>6, <1>7, <1>8, <1>9, <1>10, <1>11, <1>12, <1>13, <1>14, <1>15, <1>16,
     <1>17, <1>18, <1>19, <1>20, <1>21, <1>22, <1>23, <1>24, <1>25, <1>26, <1>27, <1>28, <1>29, <1>30, <1>31, Zenon
     DEF Next, ProposalNext, AcceptNext, AcceptStep, CommandNext, EditNext, UndoNext, UndoStep

(* An undo writes only over the value the accept applied, and puts back the  *)
(* value the proposal was authored against.                                  *)
THEOREM UndoReversesOnlyTheAcceptHolds == Spec => UndoReversesOnlyTheAccept
<1>1. IInv /\ [Next]_vars =>
        [\A u \in Undos : UndoLands(u) =>
          /\ Patched(on[u]) = envelope[on[u]].applied
          /\ Patched(on[u])' = snapshot[on[u]]]_vars
  BY UndoStepLemma DEF Reverses
<1> QED
  BY <1>1, IInvHolds, PTL DEF Spec, UndoReversesOnlyTheAccept

-----------------------------------------------------------------------------
(* The refinement: the proposal path implements ProposalDecision. Under the  *)
(* invariants every step of a handler is a step of the abstract decision, or *)
(* a stutter.                                                                *)
Invariant == IInv /\ Settled /\ Decided

AbstractStep == [Decision!Next]_<<AbsDecision, AbsWinners, AbsMade>>

(* A step that makes or unmakes no winner leaves the sets of winners alone.  *)
LEMMA WinnersKept ==
    ASSUME \A q \in Appliers : Winner(q)' <=> Winner(q),
           \A q \in Appliers : Winner(q) => on'[q] = on[q]
    PROVE  AbsWinners' = AbsWinners
<1>1. \A p \in Proposals :
        {q \in Appliers : Winner(q)' /\ on'[q] = p} = {q \in Appliers : Winner(q) /\ on[q] = p}
  OBVIOUS
<1> QED
  BY <1>1 DEF AbsWinners

(* A step that changes one status changes one decision at most. *)
LEMMA DecisionChanged ==
    ASSUME NEW p \in Proposals, NEW s \in Statuses,
           status \in [Proposals -> Statuses],
           status' = [status EXCEPT ![p] = s]
    PROVE  AbsDecision' = [AbsDecision EXCEPT ![p] =
              IF s = "drafting" THEN "absent"
              ELSE IF s \in {"rejected", "failed"} THEN "declined" ELSE s]
BY DEF AbsDecision, DecisionOf

(* A step that leaves the rows alone leaves the made proposals alone. *)
LEMMA MadeKept == row' = row => AbsMade' = AbsMade
BY DEF AbsMade

(* A step that leaves statuses, rows and winners alone is a stutter. *)
LEMMA Stutter ==
    ASSUME status' = status, row' = row, AbsWinners' = AbsWinners
    PROVE  AbstractStep
<1>1. AbsDecision' = AbsDecision
  BY DEF AbsDecision, DecisionOf
<1> QED
  BY <1>1, MadeKept DEF AbstractStep

(* A request that wins a proposal still undecided is its only winner. *)
LEMMA WinnerJoins ==
    ASSUME IInv, OneWinner, NEW q \in Appliers, NEW s \in {"capture", "applied"},
           on[q] \in Proposals, status[on[q]] # "applied",
           pc' = [pc EXCEPT ![q] = s], on' = on
    PROVE  AbsWinners' = [AbsWinners EXCEPT ![on[q]] = {q}]
<1>1. \A r \in Appliers : Winner(r)' <=> r = q \/ Winner(r)
  BY DEF IInv, TypeOK, Winner, Appliers, Requests
<1>2. \A r \in Appliers : Winner(r) => on[r] # on[q]
  BY DEF OneWinner, Appliers
<1>3. {r \in Appliers : Winner(r)' /\ on'[r] = on[q]} = {q}
  BY <1>1, <1>2
<1>4. \A p \in Proposals \ {on[q]} :
        {r \in Appliers : Winner(r)' /\ on'[r] = p} = {r \in Appliers : Winner(r) /\ on[r] = p}
  BY <1>1
<1> QED
  BY <1>3, <1>4 DEF AbsWinners

(* Every step of the code is a step of the decision, or a stutter. *)
LEMMA DecisionStep == Invariant /\ Invariant' /\ [Next]_vars => AbstractStep
<1> SUFFICES ASSUME Invariant /\ Invariant', [Next]_vars PROVE AbstractStep
  OBVIOUS
<1> USE ConstantsAssumption
        DEF Invariant, Decided, IInv, TypeOK, RequestsKnow, AcceptKnows, CommandKnows, Winner, Appliers,
            At, Goto, Steps, Answers, Statuses, Requests, Made, Proposals,
            proposalVars, itemVars, readVars
<1>1. ASSUME NEW p \in Proposals, DraftSnapshot(p)
       PROVE  AbstractStep
  <2>1. AbsWinners' = AbsWinners
    BY <1>1, WinnersKept DEF DraftSnapshot
  <2>4. AbsDecision' = AbsDecision
    <3>1. \A x \in Proposals : DecisionOf(x)' = DecisionOf(x)
      BY <1>1 DEF DraftSnapshot, DecisionOf
    <3> QED BY <3>1 DEF AbsDecision
  <2>5. AbsMade' = AbsMade
    BY <1>1, MadeKept DEF DraftSnapshot
  <2> QED BY <2>1, <2>4, <2>5 DEF AbstractStep
<1>2. ASSUME NEW p \in Proposals, DraftInsert(p)
       PROVE  AbstractStep
  <2>1. AbsWinners' = AbsWinners
    BY <1>2, WinnersKept DEF DraftInsert
  <2>2. AbsDecision' = [AbsDecision EXCEPT ![p] = "pending"]
    BY <1>2, DecisionChanged DEF DraftInsert
  <2>3. AbsDecision[p] = "absent"
    BY <1>2 DEF DraftInsert, AbsDecision, DecisionOf
  <2>4. AbsMade' = AbsMade
    BY <1>2, MadeKept DEF DraftInsert
  <2>5. Decision!Open(p)
    BY <2>1, <2>2, <2>3, <2>4 DEF Decision!Open, Decision!Decide
  <2> QED BY <1>2, <2>5 DEF AbstractStep, Decision!Next
<1>3. ASSUME NEW p \in Proposals, Reject(p)
       PROVE  AbstractStep
  <2>1. AbsWinners' = AbsWinners
    BY <1>3, WinnersKept DEF Reject
  <2>2. AbsDecision' = [AbsDecision EXCEPT ![p] = "declined"]
    BY <1>3, DecisionChanged DEF Reject
  <2>3. AbsDecision[p] = "pending"
    BY <1>3 DEF Reject, AbsDecision, DecisionOf
  <2>4. AbsMade' = AbsMade
    BY <1>3, MadeKept DEF Reject
  <2>5. Decision!Decline(p)
    BY <2>1, <2>2, <2>3, <2>4 DEF Decision!Decline, Decision!Decide
  <2> QED BY <1>3, <2>5 DEF AbstractStep, Decision!Next
<1>4. ASSUME NEW p \in Proposals, NEW e \in Edits \cup {None}, Approve(p, e)
       PROVE  AbstractStep
  <2>1. AbsWinners' = AbsWinners
    BY <1>4, WinnersKept DEF Approve
  <2>2. AbsDecision' = [AbsDecision EXCEPT ![p] = "accepted"]
    BY <1>4, DecisionChanged DEF Approve
  <2>3. AbsDecision[p] = "pending"
    BY <1>4 DEF Approve, AbsDecision, DecisionOf
  <2>4. AbsMade' = AbsMade
    BY <1>4, MadeKept DEF Approve
  <2>5. Decision!Approve(p)
    BY <2>1, <2>2, <2>3, <2>4 DEF Decision!Approve, Decision!Decide
  <2> QED BY <1>4, <2>5 DEF AbstractStep, Decision!Next
<1>5. ASSUME NEW a \in Accepts, NEW p \in Proposals, NEW e \in Edits \cup {None}, AcceptLoad(a, p, e)
       PROVE  AbstractStep
  <2>1. AbsWinners' = AbsWinners
    BY <1>5, WinnersKept DEF AcceptLoad
  <2> QED BY <1>5, <2>1, Stutter DEF AcceptLoad
<1>6. ASSUME NEW a \in Accepts, AcceptFail(a)
       PROVE  AbstractStep
  <2>1. AbsWinners' = AbsWinners
    BY <1>6, WinnersKept DEF AcceptFail
  <2>2. AbsMade' = AbsMade
    BY <1>6, MadeKept DEF AcceptFail
  <2>3. CASE status[on[a]] = "pending"
    <3>1. AbsDecision' = [AbsDecision EXCEPT ![on[a]] = "declined"]
      <4>1. /\ on[a] \in Proposals /\ status \in [Proposals -> Statuses] /\ "failed" \in Statuses
            /\ status' = [status EXCEPT ![on[a]] = "failed"]
        BY <1>6, <2>3 DEF AcceptFail
      <4>2. ASSUME NEW p \in Proposals, status' = [status EXCEPT ![p] = "failed"]
            PROVE  AbsDecision' = [AbsDecision EXCEPT ![p] = "declined"]
        BY <4>1, <4>2, DecisionChanged
      <4> QED BY <4>1, <4>2, Zenon
    <3>2. AbsDecision[on[a]] = "pending"
      BY <1>6, <2>3 DEF AcceptFail, AbsDecision, DecisionOf
    <3>3. Decision!Decline(on[a])
      BY <2>1, <2>2, <3>1, <3>2
         DEF Decision!Decline, Decision!Decide
    <3> QED BY <1>6, <3>3 DEF AcceptFail, AbstractStep, Decision!Next
  <2>4. CASE status[on[a]] # "pending"
    <3>1. status' = status /\ row' = row
      BY <1>6, <2>4 DEF AcceptFail
    <3> QED BY <2>1, <3>1, Stutter
  <2> QED BY <2>3, <2>4
<1>7. ASSUME NEW a \in Accepts, ValidateCreate(a)
       PROVE  AbstractStep
  <2>1. AbsWinners' = AbsWinners
    BY <1>7, WinnersKept DEF ValidateCreate
  <2> QED BY <1>7, <2>1, Stutter DEF ValidateCreate
<1>8. ASSUME NEW a \in Accepts, ValidateUpdate(a)
       PROVE  AbstractStep
  <2>1. AbsWinners' = AbsWinners
    BY <1>8, WinnersKept DEF ValidateUpdate
  <2> QED BY <1>8, <2>1, Stutter DEF ValidateUpdate
<1>9. ASSUME NEW a \in Accepts, CheckDrift(a)
       PROVE  AbstractStep
  <2>1. AbsWinners' = AbsWinners
    BY <1>9, WinnersKept DEF CheckDrift, Patched
  <2> QED BY <1>9, <2>1, Stutter DEF CheckDrift, Patched
<1>10. ASSUME NEW a \in Accepts, WriteUpdate(a)
       PROVE  AbstractStep
  <2>1. AbsWinners' = AbsWinners
    BY <1>10, WinnersKept DEF WriteUpdate
  <2> QED BY <1>10, <2>1, Stutter DEF WriteUpdate
<1>11. ASSUME NEW a \in Accepts, WriteCreate(a)
       PROVE  AbstractStep
  <2>1. AbsWinners' = AbsWinners
    BY <1>11, WinnersKept DEF WriteCreate
  <2>2. status' = status
    BY <1>11 DEF WriteCreate
  <2>3. CASE row[on[a]] = None /\ pay[a] = Bad
    BY <1>11, <2>1, <2>2, <2>3, Stutter DEF WriteCreate
  <2>4. CASE ~(row[on[a]] = None /\ pay[a] = Bad)
    <3>1. on[a] \in Made /\ AbsDecision[on[a]] # "absent"
      BY <1>11 DEF WriteCreate, AbsDecision, DecisionOf
    <3>2. row'[on[a]] # None /\ \A p \in Made \ {on[a]} : row'[p] = row[p]
      BY <1>11, <2>4 DEF WriteCreate
    <3>3. AbsMade' = AbsMade \cup {on[a]}
      BY <3>1, <3>2 DEF AbsMade
    <3>4. AbsDecision' = AbsDecision
      BY <2>2 DEF AbsDecision, DecisionOf
    <3>5. Decision!Make(on[a])
      BY <2>1, <3>1, <3>3, <3>4 DEF Decision!Make
    <3> QED BY <3>1, <3>5 DEF AbstractStep, Decision!Next
  <2> QED BY <2>3, <2>4
<1>12. ASSUME NEW a \in Accepts, WriteRefused(a)
       PROVE  AbstractStep
  <2>1. AbsWinners' = AbsWinners
    BY <1>12, WinnersKept DEF WriteRefused
  <2> QED BY <1>12, <2>1, Stutter DEF WriteRefused
<1>13. ASSUME NEW a \in Accepts, Flip(a)
       PROVE  AbstractStep
  <2>1. AbsMade' = AbsMade
    BY <1>13, MadeKept DEF Flip
  <2>2. CASE status[on[a]] = "pending"
    <3>1. /\ on[a] \in Proposals
          /\ status' = [status EXCEPT ![on[a]] = "applied"]
          /\ pc' = [pc EXCEPT ![a] = "capture"]
          /\ on' = on
      BY <1>13, <2>2 DEF Flip
    <3>2. AbsDecision' = [AbsDecision EXCEPT ![on[a]] = "applied"]
      BY <3>1, DecisionChanged
    <3>3. AbsDecision[on[a]] = "pending"
      BY <2>2, <3>1 DEF AbsDecision, DecisionOf
    <3>4. AbsWinners' = [AbsWinners EXCEPT ![on[a]] = {a}]
      BY <2>2, <3>1, WinnerJoins
    <3>5. on[a] \in Made => on[a] \in AbsMade
      BY <1>13, <2>2 DEF Flip, Settled, PastWriteKnows, AbsMade
    <3>6. Decision!Apply(on[a], a)
      BY <2>1, <3>2, <3>3, <3>4, <3>5
         DEF Decision!Apply, Decision!Decide
    <3> QED BY <3>1, <3>6 DEF AbstractStep, Decision!Next
  <2>3. CASE status[on[a]] # "pending"
    <3>1. status' = status /\ row' = row /\ on' = on /\ pc' = [pc EXCEPT ![a] = "lost"]
      BY <1>13, <2>3 DEF Flip
    <3>2. AbsWinners' = AbsWinners
      BY <1>13, <3>1, WinnersKept DEF Flip
    <3> QED BY <3>1, <3>2, Stutter
  <2> QED BY <2>2, <2>3
<1>14. ASSUME NEW a \in Accepts, Lost(a)
       PROVE  AbstractStep
  <2>1. AbsWinners' = AbsWinners
    BY <1>14, WinnersKept DEF Lost
  <2> QED BY <1>14, <2>1, Stutter DEF Lost
<1>15. ASSUME NEW a \in Accepts, Compensate(a)
       PROVE  AbstractStep
  <2>1. AbsWinners' = AbsWinners
    BY <1>15, WinnersKept DEF Compensate
  <2>2. on[a] \in Made /\ AbsDecision[on[a]] = "declined"
    BY <1>15 DEF Compensate, Settled, PastWriteKnows, AbsDecision, DecisionOf
  <2>3. AbsMade' = AbsMade \ {on[a]}
    BY <1>15, <2>2 DEF Compensate, AbsMade
  <2>4. AbsDecision' = AbsDecision
    BY <1>15 DEF Compensate, AbsDecision, DecisionOf
  <2>5. Decision!Withdraw(on[a])
    BY <2>1, <2>2, <2>3, <2>4 DEF Decision!Withdraw
  <2> QED BY <2>2, <2>5 DEF AbstractStep, Decision!Next
<1>16. ASSUME NEW a \in Accepts, Capture(a)
       PROVE  AbstractStep
  <2>1. AbsWinners' = AbsWinners
    BY <1>16, WinnersKept DEF Capture
  <2> QED BY <1>16, <2>1, Stutter DEF Capture
<1>17. ASSUME NEW a \in Accepts, ReadCurrent(a, "write")
       PROVE  AbstractStep
  <2>1. AbsWinners' = AbsWinners
    BY <1>17, WinnersKept DEF ReadCurrent
  <2> QED BY <1>17, <2>1, Stutter DEF ReadCurrent
<1>18. ASSUME NEW c \in Commands, NEW p \in Proposals, CommandLoad(c, p)
       PROVE  AbstractStep
  <2>1. AbsWinners' = AbsWinners
    BY <1>18, WinnersKept DEF CommandLoad
  <2> QED BY <1>18, <2>1, Stutter DEF CommandLoad
<1>19. ASSUME NEW c \in Commands, ReadCurrent(c, "commit")
       PROVE  AbstractStep
  <2>1. AbsWinners' = AbsWinners
    BY <1>19, WinnersKept DEF ReadCurrent
  <2> QED BY <1>19, <2>1, Stutter DEF ReadCurrent
<1>20. ASSUME NEW c \in Commands, CommandCommit(c)
       PROVE  AbstractStep
  <2>1. /\ on[c] \in Proposals
        /\ status[on[c]] = "accepted"
        /\ status' = [status EXCEPT ![on[c]] = "applied"]
        /\ pc' = [pc EXCEPT ![c] = "applied"]
        /\ on' = on
    BY <1>20 DEF CommandCommit
  <2>2. AbsDecision' = [AbsDecision EXCEPT ![on[c]] = "applied"]
    BY <2>1, DecisionChanged
  <2>3. AbsDecision[on[c]] = "accepted"
    BY <2>1 DEF AbsDecision, DecisionOf
  <2>4. AbsWinners' = [AbsWinners EXCEPT ![on[c]] = {c}]
    BY <2>1, WinnerJoins
  <2>5. AbsMade' = AbsMade \cup ({on[c]} \cap Made)
    <3>1. CASE on[c] \in Creates
      <4>1. Effective(on[c]) # None
        BY <2>1 DEF Effective
      <4>2. row' = [row EXCEPT ![on[c]] = Effective(on[c])]
        BY <1>20, <3>1 DEF CommandCommit
      <4> QED BY <3>1, <4>1, <4>2 DEF AbsMade
    <3>2. CASE on[c] \in Updates
      <4>1. row' = row
        BY <1>20, <3>2 DEF CommandCommit
      <4> QED BY <3>2, <4>1, MadeKept
    <3> QED BY <1>20, <3>1, <3>2 DEF CommandCommit
  <2>6. Decision!Apply(on[c], c)
    BY <2>1, <2>2, <2>3, <2>4, <2>5
       DEF Decision!Apply, Decision!Decide
  <2> QED BY <2>1, <2>6 DEF AbstractStep, Decision!Next
<1>21. ASSUME NEW c \in Commands, CommandAborts(c)
       PROVE  AbstractStep
  <2>1. AbsWinners' = AbsWinners
    BY <1>21, WinnersKept DEF CommandAborts
  <2> QED BY <1>21, <2>1, Stutter DEF CommandAborts
<1>22. ASSUME NEW e \in Editors, NEW i \in Items, NEW f \in Fields, NEW v \in Values, EditRead(e, i, f, v)
       PROVE  AbstractStep
  <2>1. AbsWinners' = AbsWinners
    BY <1>22, WinnersKept DEF EditRead
  <2> QED BY <1>22, <2>1, Stutter DEF EditRead
<1>23. ASSUME NEW e \in Editors, EditWrite(e)
       PROVE  AbstractStep
  <2>1. AbsWinners' = AbsWinners
    BY <1>23, WinnersKept DEF EditWrite
  <2> QED BY <1>23, <2>1, Stutter DEF EditWrite
<1>24. ASSUME NEW u \in Undos, NEW p \in Proposals, UndoLoad(u, p)
       PROVE  AbstractStep
  <2>1. AbsWinners' = AbsWinners
    BY <1>24, WinnersKept DEF UndoLoad
  <2> QED BY <1>24, <2>1, Stutter DEF UndoLoad
<1>25. ASSUME NEW u \in Undos, UndoCheck(u)
       PROVE  AbstractStep
  <2>1. AbsWinners' = AbsWinners
    BY <1>25, WinnersKept DEF UndoCheck, Patched
  <2> QED BY <1>25, <2>1, Stutter DEF UndoCheck, Patched
<1>26. ASSUME NEW u \in Undos, ReadCurrent(u, "write")
       PROVE  AbstractStep
  <2>1. AbsWinners' = AbsWinners
    BY <1>26, WinnersKept DEF ReadCurrent
  <2> QED BY <1>26, <2>1, Stutter DEF ReadCurrent
<1>27. ASSUME NEW u \in Undos, UndoWrite(u)
       PROVE  AbstractStep
  <2>1. AbsWinners' = AbsWinners
    BY <1>27, WinnersKept DEF UndoWrite
  <2> QED BY <1>27, <2>1, Stutter DEF UndoWrite
<1>28. ASSUME NEW u \in Undos, UndoMark(u)
       PROVE  AbstractStep
  <2>1. AbsWinners' = AbsWinners
    BY <1>28, WinnersKept DEF UndoMark
  <2> QED BY <1>28, <2>1, Stutter DEF UndoMark
<1>29. ASSUME NEW u \in Undos, UndoRetract(u)
       PROVE  AbstractStep
  <2>1. AbsWinners' = AbsWinners
    BY <1>29, WinnersKept DEF UndoRetract
  <2> QED BY <1>29, <2>1, Stutter DEF UndoRetract
<1>30. ASSUME NEW q \in MayDie, Dies(q)
       PROVE  AbstractStep
  <2>1. AbsWinners' = AbsWinners
    BY <1>30, WinnersKept DEF Dies, Running
  <2> QED BY <1>30, <2>1, Stutter DEF Dies, Running
<1>31. CASE UNCHANGED vars
  <2>1. AbsWinners' = AbsWinners
    BY <1>31, WinnersKept DEF vars
  <2> QED BY <1>31, <2>1, Stutter DEF vars
<1> QED
  BY <1>1, <1>2, <1>3, <1>4, <1>5, <1>6, <1>7, <1>8, <1>9, <1>10, <1>11, <1>12, <1>13, <1>14, <1>15, <1>16,
     <1>17, <1>18, <1>19, <1>20, <1>21, <1>22, <1>23, <1>24, <1>25, <1>26, <1>27, <1>28, <1>29, <1>30, <1>31, Zenon
     DEF Next, ProposalNext, AcceptNext, AcceptStep, CommandNext, EditNext, UndoNext, UndoStep

LEMMA DecisionInit == Init => Decision!Init
<1> SUFFICES ASSUME Init PROVE Decision!Init
  OBVIOUS
<1>1. \A p \in Proposals : DecisionOf(p) = "absent"
  BY DEF Init, DecisionOf
<1>2. \A p \in Proposals : {q \in Appliers : Winner(q) /\ on[q] = p} = {}
  BY DEF Init, Winner, Appliers, Requests
<1>3. {p \in Made : row[p] # None} = {}
  BY DEF Init, Made, Proposals
<1> QED
  BY <1>1, <1>2, <1>3 DEF Decision!Init, AbsDecision, AbsWinners, AbsMade

LEMMA InvariantHolds == Spec => []Invariant
<1>1. Init => Settled
  BY SettledInit
<1>2. IInv /\ Settled /\ [Next]_vars => Settled'
  BY SettledStep
<1> QED
  BY <1>1, <1>2, IInvHolds, DecidedHolds, PTL DEF Spec, Invariant

(* Refinement: whatever the handlers do is a behaviour of the abstract       *)
(* decision - decided once, applied by one request over an existing row, and *)
(* the row withdrawn only after a decline.                                   *)
THEOREM DecisionRefined == Spec => ImplementsDecision
<1>1. Invariant /\ Invariant' /\ [Next]_vars => [Decision!Next]_Decision!vars
  BY DecisionStep DEF AbstractStep, Decision!vars
<1> QED
  BY <1>1, DecisionInit, InvariantHolds, PTL DEF Spec, ImplementsDecision, Decision!Spec

=============================================================================
