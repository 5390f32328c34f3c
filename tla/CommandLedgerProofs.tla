------------------------ MODULE CommandLedgerProofs ------------------------
(***************************************************************************)
(* The ledger tells what was done, for any number of tries and requests,   *)
(* any scoping of keys and any bound on versions.                          *)
(*                                                                         *)
(* Beside the types this needs that an applied proposal says so, that an   *)
(* item is past the version of every update in the ledger, that the        *)
(* version a try has read lies between the one it names and the item's,    *)
(* and that a successful answer is the one stored for its own request.     *)
(***************************************************************************)
EXTENDS CommandLedger, TLAPS

(* A proposal that a command in the ledger applied is applied. *)
Closed == \A e \in ledger : e.ask.cmd = "apply" => proposal = "applied"

(* The item is past the version of every update that was carried out. *)
Passed == \A e \in ledger : e.ask.cmd = "update" => e.ask.at < item.version

(* What a try has read is no newer than the item, and what an update has     *)
(* read is no older than the version it names.                               *)
Reading ==
    \A t \in Tries :
        /\ saw[t] <= item.version
        /\ ask[t].cmd = "update" =>
              /\ pc[t] # "reload"
              /\ pc[t] = "read" => ask[t].at <= item.version
              /\ pc[t] = "commit" => ask[t].at <= saw[t]

(* A successful answer comes from the ledger row of its own request. *)
Backed ==
    \A t \in Tries : answer[t].kind = "ok" =>
        \E e \in ledger :
            /\ e.ask = ask[t]
            /\ ask[t].cmd \in {"create", "update"} => e.version = answer[t].version

IInv == TypeOK /\ EffectsAreLedgered /\ Closed /\ Passed /\ Reading /\ Backed

-----------------------------------------------------------------------------
(* The three kinds of steps.                                                *)

(* A try goes on or is answered, and nothing else changes but what it read. *)
Answers(t) ==
    /\ UNCHANGED <<item, proposal, ledger, effects, ask, id>>
    /\ \E step \in {"normalize", "reload", "read", "commit", "again", "done", "failed", "dead"} :
          pc' = [pc EXCEPT ![t] = step]
    /\ saw' \in {saw, [saw EXCEPT ![t] = item.version]}
    /\ \/ answer' = answer
       \/ \E kind \in Kinds \ {"ok"} :
             answer' = [answer EXCEPT ![t] = [kind |-> kind, version |-> 0]]
       \/ \E e \in ledger : /\ e.ask = ask[t]
                            /\ answer' = [answer EXCEPT ![t] = [kind |-> "ok", version |-> e.version]]
    /\ ask[t].cmd = "update" =>
          /\ pc'[t] # "reload"
          /\ pc'[t] = "read" => item.version = ask[t].at
          /\ pc'[t] = "commit" => pc[t] = "read" /\ saw' = [saw EXCEPT ![t] = item.version]

LEMMA QuietSteps ==
    ASSUME IInv, NEW t \in Tries,
           \/ FindReplay(t) \/ Normalize(t) \/ Reload(t) \/ Read(t)
           \/ Conflict(t) \/ Duplicate(t) \/ FindAgain(t) \/ Dies(t)
    PROVE  Answers(t)
<1> USE DEF IInv, TypeOK, Reading, Answers, Goto, Tell, Kinds
<1>1. CASE FindReplay(t)
  BY <1>1 DEF FindReplay, Replay, Entries
<1>2. CASE Normalize(t)
  BY <1>2 DEF Normalize
<1>3. CASE Reload(t)
  BY <1>3 DEF Reload
<1>4. CASE Read(t)
  BY <1>4 DEF Read
<1>5. CASE Conflict(t)
  BY <1>5 DEF Conflict
<1>6. CASE Duplicate(t)
  BY <1>6 DEF Duplicate
<1>7. CASE FindAgain(t)
  BY <1>7 DEF FindAgain, Replay, Entries
<1>8. CASE Dies(t)
  BY <1>8 DEF Dies
<1> QED BY <1>1, <1>2, <1>3, <1>4, <1>5, <1>6, <1>7, <1>8

LEMMA AnswersInv ==
    ASSUME IInv, NEW t \in Tries, Answers(t)
    PROVE  IInv'
<1> USE LedgerAssumption DEF IInv, Answers
<1>1. TypeOK'
  <2>1. item.version \in Versions /\ 0 \in 0 .. MaxVersion /\ Versions \subseteq 0 .. MaxVersion
    BY DEF TypeOK, Versions
  <2>2. pc' \in [Tries -> {"idle", "normalize", "reload", "read", "commit", "again",
                           "done", "failed", "dead"}]
    BY DEF TypeOK
  <2>3. saw' \in [Tries -> Versions]
    BY <2>1 DEF TypeOK
  <2>4. answer' \in [Tries -> Answer]
    <3>1. \A e \in ledger : e.version \in 0 .. MaxVersion
      BY <2>1 DEF TypeOK
    <3> QED BY <2>1, <3>1 DEF TypeOK, Answer, Kinds
  <2> QED BY <2>2, <2>3, <2>4 DEF TypeOK
<1>2. EffectsAreLedgered' /\ Closed' /\ Passed'
  BY DEF EffectsAreLedgered, Closed, Passed
<1>3. Reading'
  <2> SUFFICES ASSUME NEW u \in Tries
               PROVE  /\ saw'[u] <= item'.version
                      /\ ask'[u].cmd = "update" =>
                            /\ pc'[u] # "reload"
                            /\ pc'[u] = "read" => ask'[u].at <= item'.version
                            /\ pc'[u] = "commit" => ask'[u].at <= saw'[u]
    BY DEF Reading
  <2>1. item.version \in Nat /\ saw[u] \in Nat /\ ask[u].at \in Nat
    BY DEF TypeOK, Versions
  <2>2. CASE u = t
    BY <2>1, <2>2 DEF Reading, TypeOK
  <2>3. CASE u # t
    BY <2>3 DEF Reading, TypeOK
  <2> QED BY <2>2, <2>3
<1>4. Backed'
  <2> SUFFICES ASSUME NEW u \in Tries, answer'[u].kind = "ok"
               PROVE  \E e \in ledger' :
                          /\ e.ask = ask'[u]
                          /\ ask'[u].cmd \in {"create", "update"} => e.version = answer'[u].version
    BY DEF Backed
  <2>1. CASE answer'[u] = answer[u]
    BY <2>1 DEF Backed
  <2>2. CASE answer'[u] # answer[u]
    BY <2>2 DEF TypeOK, Kinds
  <2> QED BY <2>1, <2>2
<1> QED BY <1>1, <1>2, <1>3, <1>4

LEMMA CommitInv ==
    ASSUME IInv, NEW t \in Tries, Commit(t)
    PROVE  IInv'
<1> DEFINE new == [ask |-> ask[t], id |-> id[t], version |-> Stored(t)]
<1>0. /\ ask[t] \in Asks /\ id[t] \in Ids /\ ask' = ask /\ id' = id /\ saw' = saw
      /\ ledger' = ledger \cup {new} /\ new.ask = ask[t] /\ new.id = id[t]
      /\ new.version = Stored(t)
  BY DEF IInv, TypeOK, Commit
<1>1. /\ item.version \in Nat /\ item'.version \in Nat /\ item.version <= item'.version
      /\ ask[t].cmd # "create" => item'.version = item.version + 1
      /\ ask[t].cmd = "update" => item.version = ask[t].at /\ saw[t] = item.version
  <2>1. item.version \in Nat /\ saw[t] \in Nat /\ ask[t].at \in Nat
    BY <1>0, LedgerAssumption DEF IInv, TypeOK, Versions
  <2>2. item' = item \/ (ask[t].cmd # "create" /\ item'.version = item.version + 1)
    BY DEF Commit, Written
  <2>3. ask[t].cmd # "create" => item'.version = item.version + 1
    BY DEF Commit, Written
  <2>4. ask[t].cmd = "update" => /\ item.version = ask[t].at
                                 /\ ask[t].at <= saw[t] /\ saw[t] <= item.version
    BY DEF IInv, Commit, Matches, Reading
  <2> QED BY <2>1, <2>2, <2>3, <2>4
<1> USE LedgerAssumption
<1>2. TypeOK'
  <2>1. item.version + 1 \in Versions /\ 1 \in Versions /\ Versions \subseteq 0 .. MaxVersion
    BY DEF IInv, TypeOK, Commit, Versions
  <2>2. item' \in [version : Versions, value : Values]
    BY <1>0, <2>1 DEF IInv, TypeOK, Commit, Written
  <2>3. Returned(t) \in Versions
    BY <2>1 DEF Returned
  <2>4. Stored(t) \in Versions
    <3>1. saw[t] \in Nat /\ saw[t] <= item.version /\ item.version < MaxVersion
      BY DEF IInv, TypeOK, Versions, Reading, Commit
    <3> QED BY <1>1, <2>1, <3>1 DEF Stored, Versions
  <2>5. answer' \in [Tries -> Answer] /\ pc' \in [Tries -> {"idle", "normalize", "reload",
            "read", "commit", "again", "done", "failed", "dead"}]
    BY <2>1, <2>3 DEF IInv, TypeOK, Commit, Answer, Kinds, Goto, Tell
  <2>6. effects' \in [Asks -> 0 .. 2]
    BY <1>0 DEF IInv, TypeOK, Commit
  <2>7. ledger' \subseteq [ask : Asks, id : Ids, version : Versions]
    BY <1>0, <2>4 DEF IInv, TypeOK
  <2> QED BY <1>0, <2>2, <2>5, <2>6, <2>7 DEF IInv, TypeOK, Commit
<1>3. EffectsAreLedgered'
  <2>1. ~ \E e \in ledger : Scope(e.ask) = Scope(ask[t])
    BY DEF Commit, Recordable, Entries
  <2>2. ~ \E e \in ledger : e.ask = ask[t]
    BY <2>1
  <2>3. effects' = [effects EXCEPT ![ask[t]] = 1]
    <3>1. effects[ask[t]] = 0
      BY <1>0, <2>2 DEF IInv, EffectsAreLedgered
    <3>2. effects' = [effects EXCEPT ![ask[t]] =
                         IF effects[ask[t]] < 2 THEN effects[ask[t]] + 1 ELSE effects[ask[t]]]
      BY DEF Commit
    <3>3. (IF effects[ask[t]] < 2 THEN effects[ask[t]] + 1 ELSE effects[ask[t]]) = 1
      BY <3>1
    <3> QED BY <3>2, <3>3
  <2>4. \A q \in Asks : effects'[q] = IF \E e \in ledger' : e.ask = q THEN 1 ELSE 0
    <3> TAKE q \in Asks
    <3>1. CASE q = ask[t]
      BY <1>0, <2>3, <3>1 DEF IInv, TypeOK
    <3>2. CASE q # ask[t]
      BY <1>0, <2>3, <3>2 DEF IInv, TypeOK, EffectsAreLedgered
    <3> QED BY <3>1, <3>2
  <2>5. \A e, f \in ledger' : Scope(e.ask) = Scope(f.ask) \/ e.id = f.id => e = f
    BY <1>0, <2>1 DEF IInv, EffectsAreLedgered, Commit, Recordable
  <2> QED BY <2>4, <2>5 DEF EffectsAreLedgered
<1>4. Closed'
  BY <1>0 DEF IInv, Closed, Commit
<1>5. Passed'
  BY <1>0, <1>1 DEF IInv, Passed, TypeOK
<1>6. Reading'
  BY <1>0, <1>1 DEF IInv, Reading, TypeOK, Versions, Commit, Goto, Tell
<1>7. Backed'
  <2>1. ask[t].cmd \in {"create", "update"} => new.version = Returned(t)
    BY <1>0, <1>1 DEF Stored, Returned
  <2>2. answer' = [answer EXCEPT ![t] = [kind |-> "ok", version |-> Returned(t)]]
    BY DEF Commit, Tell
  <2>3. answer'[t].version = Returned(t)
    BY <2>2 DEF IInv, TypeOK
  <2>4. new \in ledger' /\ \A e \in ledger : e \in ledger'
    BY <1>0
  <2>5. \A u \in Tries \ {t} : answer'[u] = answer[u]
    BY <2>2 DEF IInv, TypeOK
  <2> HIDE DEF new
  <2> QED BY <1>0, <2>1, <2>3, <2>4, <2>5 DEF IInv, Backed
<1> QED BY <1>2, <1>3, <1>4, <1>5, <1>6, <1>7 DEF IInv

(* Edits and approvals. *)
LEMMA OthersInv ==
    ASSUME IInv, Edit \/ Approve
    PROVE  IInv'
<1> USE LedgerAssumption
<1>1. CASE Edit
  <2>1. /\ item.version \in Nat /\ item'.version = item.version + 1
        /\ item' \in [version : Versions, value : Values]
        /\ UNCHANGED <<proposal, ledger, effects, pc, ask, id, saw, answer>>
    BY <1>1 DEF IInv, TypeOK, Versions, Edit
  <2>2. TypeOK' /\ EffectsAreLedgered' /\ Closed' /\ Backed'
    BY <2>1 DEF IInv, TypeOK, EffectsAreLedgered, Closed, Backed
  <2>3. Passed' /\ Reading'
    BY <2>1 DEF IInv, TypeOK, Versions, Passed, Reading
  <2> QED BY <2>2, <2>3 DEF IInv
<1>2. CASE Approve
  BY <1>2 DEF Approve, IInv, TypeOK, EffectsAreLedgered, Closed, Passed, Reading, Backed
<1> QED BY <1>1, <1>2

LEMMA InitInv == Init => IInv
<1> SUFFICES ASSUME Init PROVE IInv
  OBVIOUS
<1> USE LedgerAssumption DEF Init
<1>1. TypeOK
  BY DEF TypeOK, Versions, Answer, Kinds
<1>2. EffectsAreLedgered /\ Closed /\ Passed
  BY DEF EffectsAreLedgered, Closed, Passed
<1>3. Reading /\ Backed
  BY DEF Reading, Backed
<1> QED BY <1>1, <1>2, <1>3 DEF IInv

LEMMA StepInv == IInv /\ [Next]_vars => IInv'
<1> SUFFICES ASSUME IInv, [Next]_vars PROVE IInv'
  OBVIOUS
<1>1. ASSUME NEW t \in Tries,
             \/ FindReplay(t) \/ Normalize(t) \/ Reload(t) \/ Read(t)
             \/ Conflict(t) \/ Duplicate(t) \/ FindAgain(t) \/ Dies(t)
      PROVE  IInv'
  BY <1>1, QuietSteps, AnswersInv
<1>2. ASSUME NEW t \in Tries, Commit(t) PROVE IInv'
  BY <1>2, CommitInv
<1>3. CASE Edit \/ Approve
  BY <1>3, OthersInv
<1>4. CASE UNCHANGED vars
  BY <1>4 DEF vars, IInv, TypeOK, EffectsAreLedgered, Closed, Passed, Reading, Backed, Entries
<1> QED BY <1>1, <1>2, <1>3, <1>4 DEF Next

(* Everything the invariant says holds of every state.                       *)
THEOREM Invariant == Spec => []IInv
<1> QED BY InitInv, StepInv, PTL DEF Spec

-----------------------------------------------------------------------------
(* The item, the ledger, the effects and the tries keep their types.         *)
THEOREM TypeCorrect == Spec => []TypeOK
<1>1. IInv => TypeOK
  BY DEF IInv
<1> QED BY <1>1, Invariant, PTL

(* A request's write is committed at most once, and exactly if the ledger    *)
(* says so, however many tries, deaths and reused keys there are.            *)
THEOREM EffectsAreLedgeredHolds == Spec => []EffectsAreLedgered
<1>1. IInv => EffectsAreLedgered
  BY DEF IInv
<1> QED BY <1>1, Invariant, PTL

(* Whoever is told of success has had the own request carried out.           *)
THEOREM AnsweredMeansDoneHolds == Spec => []AnsweredMeansDone
<1>1. IInv => AnsweredMeansDone
  BY DEF IInv, TypeOK, EffectsAreLedgered, Backed, AnsweredMeansDone
<1> QED BY <1>1, Invariant, PTL

(* All successful tries of a create or an update are told the same.          *)
THEOREM SameAnswerHolds == Spec => []SameAnswer
<1>1. IInv => SameAnswer
  <2> SUFFICES ASSUME IInv, NEW t \in Tries, NEW u \in Tries,
                      ask[t] = ask[u], ask[t].cmd \in {"create", "update"},
                      answer[t].kind = "ok", answer[u].kind = "ok"
               PROVE  answer[t] = answer[u]
    BY DEF SameAnswer, Alike
  <2>1. PICK e \in ledger : e.ask = ask[t] /\ e.version = answer[t].version
    BY DEF IInv, Backed
  <2>2. PICK f \in ledger : f.ask = ask[u] /\ f.version = answer[u].version
    BY DEF IInv, Backed
  <2>3. e = f
    BY <2>1, <2>2 DEF IInv, EffectsAreLedgered
  <2> QED BY <2>1, <2>2, <2>3 DEF IInv, TypeOK, Answer
<1> QED BY <1>1, Invariant, PTL

-----------------------------------------------------------------------------
(* The two statements about pairs of ledger rows are kept by a commit,       *)
(* because the row it adds finds none to pair with.                          *)

LEMMA LedgerGrows ==
    ASSUME [Next]_vars
    PROVE  \/ ledger' = ledger
           \/ \E t \in Tries : Commit(t)
<1> QED BY DEF Next, vars, FindReplay, Normalize, Reload, Read, Conflict, Duplicate, FindAgain,
               Dies, Edit, Approve

(* Of the update commands that name a version at most one is carried out.    *)
THEOREM OneCommandPerVersionHolds == Spec => []OneCommandPerVersion
<1>1. Init => OneCommandPerVersion
  BY DEF Init, OneCommandPerVersion
<1>2. IInv /\ OneCommandPerVersion /\ [Next]_vars => OneCommandPerVersion'
  <2> SUFFICES ASSUME IInv, OneCommandPerVersion, NEW t \in Tries, Commit(t)
               PROVE  OneCommandPerVersion'
    BY LedgerGrows DEF OneCommandPerVersion
  <2>1. PICK new : new.ask = ask[t] /\ ledger' = ledger \cup {new}
    BY DEF Commit
  <2>2. ASSUME NEW e \in ledger, e.ask.cmd = "update", ask[t].cmd = "update"
        PROVE  e.ask.at # ask[t].at
    <3>1. e.ask.at \in Nat /\ item.version \in Nat /\ e.ask.at < item.version
      BY <2>2, LedgerAssumption DEF IInv, TypeOK, Versions, Passed
    <3>2. item.version = ask[t].at
      BY <2>2 DEF Commit, Matches
    <3> QED BY <3>1, <3>2
  <2> QED BY <2>1, <2>2 DEF OneCommandPerVersion
<1> QED BY <1>1, <1>2, Invariant, PTL DEF Spec

(* A proposal is applied by one command at most.                             *)
THEOREM AppliedOnceHolds == Spec => []AppliedOnce
<1>1. Init => AppliedOnce
  BY DEF Init, AppliedOnce
<1>2. IInv /\ AppliedOnce /\ [Next]_vars => AppliedOnce'
  <2> SUFFICES ASSUME IInv, AppliedOnce, NEW t \in Tries, Commit(t)
               PROVE  AppliedOnce'
    BY LedgerGrows DEF AppliedOnce
  <2>1. PICK new : new.ask = ask[t] /\ ledger' = ledger \cup {new}
    BY DEF Commit
  <2>2. ASSUME ask[t].cmd = "apply" PROVE ~ \E e \in ledger : e.ask.cmd = "apply"
    BY <2>2 DEF IInv, Closed, Commit, Flips
  <2> QED BY <2>1, <2>2 DEF AppliedOnce
<1> QED BY <1>1, <1>2, Invariant, PTL DEF Spec
=============================================================================
