----------------------------- MODULE MeetingProofs -----------------------------
(* The meeting from its transcript to its proposals. First the ingest, for any  *)
(* records, any number of overlapping calls and any rewriting of the rows; then  *)
(* the chapters of any transcript, by induction on the turns of the loop that    *)
(* builds them; then the pipeline, which is the ingest with a particular         *)
(* rewriting.                                                                    *)
EXTENDS MeetingPipeline, FiniteSetTheorems, WellFoundedInduction, TLAPS

\* What a call still owes: everything it read is in the ledger or in its todo.
NothingForgotten ==
    \A i \in Requests :
        /\ pc[i] \in {"idle", "reading", "finishing"} => candidates[i] = {}
        /\ pc[i] = "proposing" => candidates[i] \subseteq Ledgered \cup todo[i]
        /\ pc[i] = "done" => candidates[i] \subseteq Ledgered
        /\ runs[i] = "completed" => pc[i] = "done"

IngestInv ==
    /\ IngestTypeOK
    /\ LedgerMatchesProposals
    /\ OneProposalPerRecord
    /\ NothingForgotten

\* The ledger names exactly the records that have a proposal.
LEMMA LedgeredRecords ==
    ASSUME LedgerMatchesProposals
    PROVE  Ledgered = {p[2] : p \in proposals}
<1>1. ASSUME NEW r \in Ledgered PROVE r \in {p[2] : p \in proposals}
  <2>1. PICK entry \in ledger : r = entry[1]
    BY DEF Ledgered
  <2>2. PICK p \in proposals : entry = <<p[2], p>>
    BY DEF LedgerMatchesProposals
  <2> QED
    BY <2>1, <2>2
<1>2. ASSUME NEW p \in proposals PROVE p[2] \in Ledgered
  <2>1. <<p[2], p>> \in ledger
    BY DEF LedgerMatchesProposals
  <2>2. <<p[2], p>>[1] = p[2]
    OBVIOUS
  <2> QED
    BY <2>1, <2>2 DEF Ledgered
<1> QED
  BY <1>1, <1>2

\* The invariant holds of a database without proposals.
LEMMA InitInv == Init => IngestInv
<1> SUFFICES ASSUME Init PROVE IngestInv
  OBVIOUS
<1> USE DEF Init, IngestInit
<1>1. IngestTypeOK
  BY DEF IngestTypeOK
<1>2. LedgerMatchesProposals /\ OneProposalPerRecord
  BY DEF LedgerMatchesProposals, OneProposalPerRecord
<1>3. NothingForgotten
  BY DEF NothingForgotten
<1> QED
  BY <1>1, <1>2, <1>3 DEF IngestInv

\* Every step keeps the types.
LEMMA TypeStep == IngestTypeOK /\ [Next]_<<rows, ingestVars>> => IngestTypeOK'
<1> SUFFICES ASSUME IngestTypeOK, [Next]_<<rows, ingestVars>> PROVE IngestTypeOK'
  OBVIOUS
<1> USE DEF IngestTypeOK, ProposalIds
<1>1. ASSUME NEW i \in Requests, MintRun(i) PROVE IngestTypeOK'
  BY <1>1 DEF MintRun
<1>2. ASSUME NEW i \in Requests, ReadPromotedCandidates(i) PROVE IngestTypeOK'
  BY <1>2 DEF ReadPromotedCandidates
<1>3. ASSUME NEW i \in Requests, ReadLedger(i) PROVE IngestTypeOK'
  BY <1>3 DEF ReadLedger
<1>4. ASSUME NEW i \in Requests, FinishRun(i) PROVE IngestTypeOK'
  BY <1>4 DEF FinishRun
<1>5. ASSUME NEW i \in Requests, NEW r \in Records, ProposeCandidate(i, r) PROVE IngestTypeOK'
  <2>1. todo' \in [Requests -> SUBSET Records]
    BY <1>5 DEF ProposeCandidate
  <2>2. ledger' \subseteq Records \X ProposalIds /\ proposals' \subseteq ProposalIds
    BY <1>5 DEF ProposeCandidate
  <2> QED
    BY <1>5, <2>1, <2>2 DEF ProposeCandidate
<1>6. CASE Rematerialize
  BY <1>6 DEF Rematerialize, ingestVars
<1>7. CASE UNCHANGED <<rows, ingestVars>>
  BY <1>7 DEF ingestVars
<1> QED
  BY <1>1, <1>2, <1>3, <1>4, <1>5, <1>6, <1>7 DEF Next, IngestNext

\* Every step keeps the ledger and the proposals in agreement, one for a record,
\* and removes nothing from the ledger.
LEMMA LedgerStep ==
    ASSUME IngestInv, [Next]_<<rows, ingestVars>>
    PROVE  LedgerMatchesProposals' /\ OneProposalPerRecord' /\ Ledgered \subseteq Ledgered'
<1> USE DEF IngestInv
<1>1. ASSUME NEW i \in Requests, NEW r \in Records, ProposeCandidate(i, r), r \notin Ledgered
      PROVE  LedgerMatchesProposals' /\ OneProposalPerRecord' /\ Ledgered \subseteq Ledgered'
  <2>1. proposals' = proposals \cup {<<i, r>>} /\ ledger' = ledger \cup {<<r, <<i, r>>>>}
    BY <1>1 DEF ProposeCandidate
  <2>2. LedgerMatchesProposals'
    BY <2>1 DEF LedgerMatchesProposals
  <2>3. \A p \in proposals : p[2] # r
    BY <1>1, LedgeredRecords
  <2>4. OneProposalPerRecord'
    BY <2>1, <2>3 DEF OneProposalPerRecord
  <2> QED
    BY <2>1, <2>2, <2>4 DEF Ledgered
<1>2. ASSUME UNCHANGED <<ledger, proposals>>
      PROVE  LedgerMatchesProposals' /\ OneProposalPerRecord' /\ Ledgered \subseteq Ledgered'
  BY <1>2 DEF LedgerMatchesProposals, OneProposalPerRecord, Ledgered
<1>3. \/ \E i \in Requests, r \in Records : ProposeCandidate(i, r) /\ r \notin Ledgered
      \/ UNCHANGED <<ledger, proposals>>
  BY DEF Next, IngestNext, MintRun, ReadPromotedCandidates, ReadLedger, FinishRun,
         ProposeCandidate, Rematerialize, ingestVars
<1> QED
  BY <1>1, <1>2, <1>3

\* No step lets a call forget a row it has read.
LEMMA ProgressStep ==
    ASSUME IngestInv, [Next]_<<rows, ingestVars>>, Ledgered \subseteq Ledgered'
    PROVE  NothingForgotten'
<1> USE DEF IngestInv, IngestTypeOK
<1>1. ASSUME NEW i \in Requests, MintRun(i) PROVE NothingForgotten'
  BY <1>1 DEF MintRun, NothingForgotten
<1>2. ASSUME NEW i \in Requests, ReadPromotedCandidates(i) PROVE NothingForgotten'
  BY <1>2 DEF ReadPromotedCandidates, NothingForgotten
<1>3. ASSUME NEW i \in Requests, ReadLedger(i) PROVE NothingForgotten'
  <2> SUFFICES ASSUME NEW j \in Requests
               PROVE  /\ pc'[j] \in {"idle", "reading", "finishing"} => candidates'[j] = {}
                      /\ pc'[j] = "proposing" => candidates'[j] \subseteq Ledgered' \cup todo'[j]
                      /\ pc'[j] = "done" => candidates'[j] \subseteq Ledgered'
                      /\ runs'[j] = "completed" => pc'[j] = "done"
    BY DEF NothingForgotten
  <2>1. CASE j = i
    BY <1>3, <2>1 DEF ReadLedger, NothingForgotten
  <2>2. CASE j # i
    BY <1>3, <2>2 DEF ReadLedger, NothingForgotten
  <2> QED
    BY <2>1, <2>2
<1>4. ASSUME NEW i \in Requests, FinishRun(i) PROVE NothingForgotten'
  BY <1>4 DEF FinishRun, NothingForgotten
<1>5. ASSUME NEW i \in Requests, NEW r \in Records, ProposeCandidate(i, r) PROVE NothingForgotten'
  <2>1. r \in Ledgered'
    <3>1. CASE r \in Ledgered
      BY <3>1
    <3>2. CASE r \notin Ledgered
      <4>1. <<r, <<i, r>>>> \in ledger' /\ <<r, <<i, r>>>>[1] = r
        BY <1>5, <3>2 DEF ProposeCandidate
      <4> QED
        BY <4>1 DEF Ledgered
    <3> QED
      BY <3>1, <3>2
  <2>2. \A j \in Requests : todo[j] \subseteq todo'[j] \cup {r}
    BY <1>5 DEF ProposeCandidate
  <2>3. UNCHANGED <<runs, pc, candidates>>
    BY <1>5 DEF ProposeCandidate
  <2> QED
    BY <2>1, <2>2, <2>3 DEF NothingForgotten
<1>6. CASE Rematerialize
  BY <1>6 DEF Rematerialize, ingestVars, NothingForgotten
<1>7. CASE UNCHANGED <<rows, ingestVars>>
  BY <1>7 DEF ingestVars, NothingForgotten
<1> QED
  BY <1>1, <1>2, <1>3, <1>4, <1>5, <1>6, <1>7 DEF Next, IngestNext

\* The invariant is inductive.
LEMMA InvStep == IngestInv /\ [Next]_<<rows, ingestVars>> => IngestInv'
<1> SUFFICES ASSUME IngestInv, [Next]_<<rows, ingestVars>> PROVE IngestInv'
  OBVIOUS
<1>1. IngestTypeOK'
  BY TypeStep DEF IngestInv
<1>2. LedgerMatchesProposals' /\ OneProposalPerRecord' /\ Ledgered \subseteq Ledgered'
  BY LedgerStep
<1>3. NothingForgotten'
  BY <1>2, ProgressStep
<1> QED
  BY <1>1, <1>2, <1>3 DEF IngestInv

\* It holds throughout.
LEMMA InvHolds == Spec => []IngestInv
BY InitInv, InvStep, PTL DEF Spec

\* However many calls of the ingest overlap, and whatever the meeting API rewrites
\* in between, a record id becomes at most one proposal (ingest.ts, the ledger's
\* unique index and the transaction around the two inserts).
THEOREM ProposedAtMostOnce == Spec => []OneProposalPerRecord
<1>1. IngestInv => OneProposalPerRecord
  BY DEF IngestInv
<1> QED
  BY <1>1, InvHolds, PTL

\* The ledger lists exactly the proposals that the ingest made (the transaction of
\* the two inserts), so that it can neither hide a record nor forget one.
THEOREM LedgerIsExact == Spec => []LedgerMatchesProposals
<1>1. IngestInv => LedgerMatchesProposals
  BY DEF IngestInv
<1> QED
  BY <1>1, InvHolds, PTL

\* A run marked completed has left none of the rows it read without a proposal,
\* the ones other runs were proposing meanwhile included (the loop of runMeetingIngest).
THEOREM CompletionMeansProposed == Spec => []CompletedRunLeftNothing
<1>1. IngestInv => CompletedRunLeftNothing
  BY DEF IngestInv, NothingForgotten, CompletedRunLeftNothing
<1> QED
  BY <1>1, InvHolds, PTL

--------------------------------------------------------------------------------
\* A set of naturals that is not empty has a smallest element.
LEMMA SmallestExists ==
    ASSUME NEW T \in SUBSET Nat, T # {}
    PROVE  \E m \in T : \A n \in T : m <= n
<1>1. PICK m \in T : \A n \in T : <<n, m>> \notin OpToRel(<, Nat)
  BY NatLessThanWellFounded, WFMin
<1>2. \A n \in T : ~ (n < m)
  BY <1>1 DEF OpToRel
<1> QED
  BY <1>2

\* Induction, about a set: what has 0 and the successor of each of its elements is Nat.
LEMMA SuccessorsReachAll ==
    ASSUME NEW T \in SUBSET Nat, 0 \in T, \A n \in T : n + 1 \in T
    PROVE  T = Nat
<1> DEFINE Left == Nat \ T
<1> SUFFICES ASSUME Left # {} PROVE FALSE
  OBVIOUS
<1>1. PICK m \in Left : \A n \in Left : m <= n
  <2> Left \in SUBSET Nat
    OBVIOUS
  <2> HIDE DEF Left
  <2> QED BY SmallestExists
<1>2. m - 1 \in Nat /\ m - 1 \notin Left
  BY <1>1
<1>3. m - 1 + 1 \in T
  BY <1>2
<1> QED
  BY <1>1, <1>3

\* A step can be repeated: there is a function from the number of repetitions.
LEMMA IterationExists ==
    ASSUME NEW S, NEW start \in S, NEW step \in [S -> S]
    PROVE  \E f \in [Nat -> S] : f[0] = start /\ \A n \in Nat : f[n + 1] = step[f[n]]
<1> DEFINE Upto(n, g) == /\ g \in [Nat -> S] /\ g[0] = start
                         /\ \A m \in Nat : m < n => g[m + 1] = step[g[m]]
           Reached == {n \in Nat : \E g : Upto(n, g)}
<1>1. 0 \in Reached
  <2>1. Upto(0, [n \in Nat |-> start])
    OBVIOUS
  <2> QED BY <2>1
<1>2. ASSUME NEW n \in Reached PROVE n + 1 \in Reached
  <2>1. PICK g : Upto(n, g)
    OBVIOUS
  <2> DEFINE h == [g EXCEPT ![n + 1] = step[g[n]]]
  <2>2. n \in Nat /\ n + 1 # 0 /\ step[g[n]] \in S
    BY <2>1
  <2>3. h \in [Nat -> S] /\ h[n + 1] = step[g[n]] /\ \A m \in Nat : m # n + 1 => h[m] = g[m]
    BY <2>1, <2>2
  <2> HIDE DEF h
  <2>4. ASSUME NEW m \in Nat, m < n + 1 PROVE h[m + 1] = step[h[m]]
    <3>1. CASE m = n
      BY <2>2, <2>3, <3>1
    <3>2. CASE m < n
      <4>1. m + 1 # n + 1 /\ m # n + 1 /\ m + 1 \in Nat
        BY <2>2, <3>2
      <4> QED BY <2>1, <2>3, <3>2, <4>1
    <3> QED BY <2>2, <2>4, <3>1, <3>2
  <2>5. Upto(n + 1, h)
    <3>1. h[0] = start
      BY <2>1, <2>2, <2>3
    <3> QED BY <2>2, <2>3, <2>4, <3>1
  <2> QED BY <2>2, <2>5
<1>3. Reached = Nat
  <2> Reached \in SUBSET Nat
    OBVIOUS
  <2> HIDE DEF Reached
  <2> QED BY <1>1, <1>2, SuccessorsReachAll
<1>4. ASSUME NEW n \in Nat, NEW m \in Nat, n <= m, NEW g, NEW h, Upto(n, g), Upto(m, h)
      PROVE  g[n] = h[n]
  <2> DEFINE Same == {k \in Nat : k <= n => g[k] = h[k]}
  <2>1. 0 \in Same
    BY <1>4
  <2>2. ASSUME NEW k \in Same PROVE k + 1 \in Same
    BY <1>4
  <2>3. Same = Nat
    <3> Same \in SUBSET Nat
      OBVIOUS
    <3> HIDE DEF Same
    <3> QED BY <2>1, <2>2, SuccessorsReachAll
  <2> QED BY <2>3
<1> DEFINE pick(n) == CHOOSE g : Upto(n, g)
           f == [n \in Nat |-> pick(n)[n]]
<1>5. \A n \in Nat : Upto(n, pick(n))
  <2> SUFFICES ASSUME NEW n \in Nat PROVE Upto(n, pick(n))
    OBVIOUS
  <2>1. \E g : Upto(n, g)
    BY <1>3
  <2> HIDE DEF Upto
  <2> QED BY <2>1
<1>6. f \in [Nat -> S] /\ f[0] = start
  <2> HIDE DEF pick
  <2> QED BY <1>5
<1>7. ASSUME NEW n \in Nat PROVE f[n + 1] = step[f[n]]
  <2> n + 1 \in Nat /\ n <= n + 1
    OBVIOUS
  <2>1. Upto(n, pick(n)) /\ Upto(n + 1, pick(n + 1))
    BY <1>5
  <2>2. pick(n)[n] = pick(n + 1)[n]
    <3> HIDE DEF Upto, pick
    <3> QED BY <1>4, <2>1
  <2>3. pick(n + 1)[n + 1] = step[pick(n + 1)[n]]
    <3> HIDE DEF pick
    <3> QED BY <2>1
  <2> HIDE DEF pick
  <2> QED BY <2>2, <2>3
<1> HIDE DEF f
<1> QED
  BY <1>6, <1>7

\* A finite set of naturals has a largest element.
LEMMA LargestExists ==
    ASSUME NEW T \in SUBSET Nat, IsFiniteSet(T), T # {}
    PROVE  \E m \in T : \A n \in T : n <= m
<1>1. PICK seq \in Seq(T) : \A t \in T : \E n \in 1 .. Len(seq) : seq[n] = t
  BY DEF IsFiniteSet
<1>2. Len(seq) \in Nat /\ \A i \in 1 .. Len(seq) : seq[i] \in Nat
  <2>1. Len(seq) \in Nat
    OBVIOUS
  <2>2. \A i \in 1 .. Len(seq) : seq[i] \in T
    OBVIOUS
  <2> QED BY <2>1, <2>2
<1> DEFINE Bounded == {n \in Nat : n <= Len(seq) =>
                          \E b \in Nat : \A i \in 1 .. n : seq[i] <= b}
<1>3. 0 \in Bounded
  <2>1. \A i \in 1 .. 0 : seq[i] <= 0
    OBVIOUS
  <2> QED BY <2>1
<1>4. ASSUME NEW n \in Bounded PROVE n + 1 \in Bounded
  <2> SUFFICES ASSUME n + 1 <= Len(seq)
               PROVE  \E b \in Nat : \A i \in 1 .. (n + 1) : seq[i] <= b
    OBVIOUS
  <2>1. PICK b \in Nat : \A i \in 1 .. n : seq[i] <= b
    OBVIOUS
  <2>2. seq[n + 1] \in Nat
    BY <1>2
  <2>3. \A i \in 1 .. (n + 1) : seq[i] <= b + seq[n + 1]
    <3> SUFFICES ASSUME NEW i \in 1 .. (n + 1) PROVE seq[i] <= b + seq[n + 1]
      OBVIOUS
    <3>1. CASE i = n + 1
      BY <2>2, <3>1
    <3>2. CASE i \in 1 .. n
      BY <1>2, <2>1, <2>2, <3>2
    <3> QED BY <3>1, <3>2
  <2>4. b + seq[n + 1] \in Nat
    BY <2>2
  <2> QED BY <2>3, <2>4
<1>5. Bounded = Nat
  <2> Bounded \in SUBSET Nat
    OBVIOUS
  <2> HIDE DEF Bounded
  <2> QED BY <1>3, <1>4, SuccessorsReachAll
<1>6. PICK b \in Nat : \A i \in 1 .. Len(seq) : seq[i] <= b
  <2>1. Len(seq) \in Bounded
    <3> HIDE DEF Bounded
    <3> QED BY <1>2, <1>5
  <2> QED BY <1>2, <2>1
<1> DEFINE Bounds == {c \in Nat : \A t \in T : t <= c}
<1>7. PICK m \in Bounds : \A c \in Bounds : m <= c
  <2>1. b \in Bounds
    BY <1>1, <1>6
  <2>2. Bounds \in SUBSET Nat /\ Bounds # {}
    BY <2>1
  <2> HIDE DEF Bounds
  <2> QED BY <2>2, SmallestExists
<1>8. m \in T
  <2> SUFFICES ASSUME m \notin T PROVE FALSE
    OBVIOUS
  <2>1. \A t \in T : t < m
    BY <1>7
  <2>2. PICK t \in T : TRUE
    OBVIOUS
  <2>3. m - 1 \in Nat
    BY <1>7, <2>1, <2>2
  <2>4. \A n \in T : n <= m - 1
    BY <1>7, <2>1
  <2>5. m - 1 \in Bounds
    BY <2>3, <2>4
  <2> QED BY <1>7, <2>3, <2>5
<1> QED
  BY <1>7, <1>8

\* The end of a transcript is that of its last segment.
LEMMA LastEndIs ==
    ASSUME NEW segs \in SUBSET Utterances
    PROVE  /\ LastEnd(segs) \in Nat
           /\ \A u \in segs : End[u] <= LastEnd(segs)
           /\ segs # {} => \E u \in segs : End[u] = LastEnd(segs)
<1> DEFINE Ends == {End[u] : u \in segs}
<1>1. CASE segs = {}
  BY <1>1 DEF LastEnd
<1>2. CASE segs # {}
  <2>1. Ends \in SUBSET Nat /\ Ends # {}
    BY <1>2, TimesAreSeconds
  <2>2. IsFiniteSet(Ends)
    <3>1. IsFiniteSet(segs)
      BY TimesAreSeconds, FS_Subset
    <3> DEFINE f == [u \in segs |-> End[u]]
    <3>2. f \in Surjection(segs, Ends)
      BY DEF Surjection
    <3> HIDE DEF f, Ends
    <3> QED BY <3>1, <3>2, FS_Surjection
  <2>3. \E m \in Ends : \A n \in Ends : m >= n
    <3> HIDE DEF Ends
    <3>1. PICK m \in Ends : \A n \in Ends : n <= m
      BY <2>1, <2>2, LargestExists
    <3> QED BY <2>1, <3>1
  <2>4. Max(Ends) \in Ends /\ \A n \in Ends : Max(Ends) >= n
    <3> HIDE DEF Ends
    <3> QED BY <2>3 DEF Max
  <2>5. LastEnd(segs) = Max(Ends)
    BY <1>2 DEF LastEnd
  <2> QED BY <2>1, <2>4, <2>5
<1> QED
  BY <1>1, <1>2

\* The segment that gives a chapter its end: of those that end near the target, one
\* that ends nearest to it, and of two equally near one that ends earlier.
Nearest(segs, target, e) ==
    /\ e \in Nat /\ Distance(e, target) <= Adjustment
    /\ \E u \in segs : e = End[u]
    /\ \A u \in segs : /\ Distance(e, target) <= Distance(End[u], target)
                       /\ Distance(e, target) = Distance(End[u], target) => e <= End[u]

\* Boundary is that segment's end, or the target if no segment ends near it.
LEMMA BoundaryIs ==
    ASSUME NEW segs \in SUBSET Utterances, NEW from, NEW target \in Nat, NEW ended
    PROVE  \/ /\ \A u \in segs : ~ Distance(End[u], target) <= Adjustment
              /\ Boundary(segs, from, target, ended) = Clamp(from, target, ended)
           \/ \E e : /\ Nearest(segs, target, e)
                     /\ Boundary(segs, from, target, ended) = Clamp(from, e, ended)
<1> DEFINE near == {End[u] : u \in {v \in segs : Distance(End[v], target) <= Adjustment}}
           best == {e \in near : \A f \in near : Distance(e, target) <= Distance(f, target)}
<1>1. Boundary(segs, from, target, ended) =
          Clamp(from, IF near = {} THEN target ELSE Min(best), ended)
  BY DEF Boundary
<1>2. CASE near = {}
  BY <1>1, <1>2
<1>3. CASE near # {}
  <2>1. near \in SUBSET Nat /\ \A u \in segs : End[u] \in Nat
    BY TimesAreSeconds
  <2>2. \A a \in Nat : Distance(a, target) \in Nat
    BY DEF Distance
  <2>3. best # {}
    <3> DEFINE away == {Distance(e, target) : e \in near}
    <3>1. away \in SUBSET Nat /\ away # {}
      BY <1>3, <2>1, <2>2
    <3>2. PICK d \in away : \A n \in away : d <= n
      <4> HIDE DEF away
      <4> QED BY <3>1, SmallestExists
    <3> HIDE DEF near
    <3> QED BY <3>2
  <2>4. PICK e \in best : \A f \in best : e <= f
    <3>1. best \in SUBSET Nat
      BY <2>1
    <3> HIDE DEF best
    <3> QED BY <2>3, <3>1, SmallestExists
  <2>5. Min(best) \in best /\ \A f \in best : Min(best) <= f
    <3> HIDE DEF best
    <3> QED BY <2>4 DEF Min
  <2> DEFINE m == Min(best)
  <2> HIDE DEF m
  <2>6. m \in best /\ \A f \in best : m <= f
    BY <2>5 DEF m
  <2>7. m \in Nat /\ Distance(m, target) <= Adjustment /\ \E u \in segs : m = End[u]
    BY <2>1, <2>6
  <2>8. ASSUME NEW u \in segs
        PROVE  /\ Distance(m, target) <= Distance(End[u], target)
               /\ Distance(m, target) = Distance(End[u], target) => m <= End[u]
    <3>1. Distance(m, target) \in Nat /\ Distance(End[u], target) \in Nat /\ Adjustment \in Nat
      BY <2>1, <2>2, <2>7, TimesAreSeconds
    <3>2. CASE Distance(End[u], target) <= Adjustment
      <4>1. End[u] \in near
        BY <3>2
      <4>2. Distance(m, target) <= Distance(End[u], target)
        BY <2>6, <4>1
      <4>3. ASSUME Distance(m, target) = Distance(End[u], target) PROVE m <= End[u]
        <5>1. End[u] \in best
          BY <2>6, <4>1, <4>3
        <5> QED BY <2>6, <5>1
      <4> QED BY <4>2, <4>3
    <3>3. CASE ~ Distance(End[u], target) <= Adjustment
      BY <2>7, <3>1, <3>3
    <3> QED BY <3>2, <3>3
  <2>9. Nearest(segs, target, m)
    BY <2>7, <2>8 DEF Nearest
  <2>10. Boundary(segs, from, target, ended) = Clamp(from, m, ended)
    BY <1>1, <1>3 DEF m
  <2> QED BY <2>9, <2>10
<1> QED
  BY <1>2, <1>3

\* Where a window ends. In the last one of a meeting, with the transcript.
LEMMA LastWindowEnds ==
    ASSUME NEW segs \in SUBSET Utterances, NEW from \in Nat, NEW finalize \in BOOLEAN,
           from < LastEnd(segs), Ended(segs, from, finalize)
    PROVE  WindowEnd(segs, from, finalize) = LastEnd(segs)
<1> DEFINE last == LastEnd(segs)
<1>1. last \in Nat /\ (\A u \in segs : End[u] <= last) /\ \E u \in segs : End[u] = last
  <2>1. segs # {}
    BY DEF LastEnd
  <2> QED BY <2>1, LastEndIs
<1>2. Lesser(from + ChapterWindow, last) = last
  BY <1>1, TimesAreSeconds DEF Lesser, Ended
<1>3. Distance(last, last) = 0
  BY <1>1 DEF Distance
<1>4. ASSUME NEW e, Nearest(segs, last, e) PROVE e = last
  BY <1>1, <1>3, <1>4 DEF Nearest, Distance
<1>5. Boundary(segs, from, last, TRUE) = Clamp(from, last, TRUE)
  <2> HIDE DEF last
  <2>1. Adjustment \in Nat
    BY TimesAreSeconds
  <2>2. PICK u \in segs : End[u] = last
    BY <1>1
  <2>3. Distance(End[u], last) <= Adjustment
    BY <1>3, <2>1, <2>2
  <2>4. PICK e : /\ Nearest(segs, last, e)
                 /\ Boundary(segs, from, last, TRUE) = Clamp(from, e, TRUE)
    BY <1>1, <2>3, BoundaryIs
  <2> QED BY <1>4, <2>4
<1>6. Ended(segs, from, finalize) = TRUE
  BY DEF Ended
<1> QED
  BY <1>1, <1>2, <1>5, <1>6 DEF WindowEnd, Clamp, Lesser

\* In an earlier one, at the segment nearest to the nominal end, or there.
LEMMA EarlierWindowEnds ==
    ASSUME NEW segs \in SUBSET Utterances, NEW from \in Nat, NEW finalize \in BOOLEAN,
           from + ChapterWindow <= LastEnd(segs), ~ Ended(segs, from, finalize)
    PROVE  LET nominal == from + ChapterWindow
               end(e)  == Lesser(Clamp(from, e, FALSE), LastEnd(segs))
           IN  \/ /\ \A u \in segs : ~ Distance(End[u], nominal) <= Adjustment
                  /\ WindowEnd(segs, from, finalize) = end(nominal)
               \/ \E e : /\ Nearest(segs, nominal, e)
                         /\ WindowEnd(segs, from, finalize) = end(e)
<1> DEFINE nominal == from + ChapterWindow
           last    == LastEnd(segs)
<1>1. last \in Nat /\ nominal \in Nat
  BY LastEndIs, TimesAreSeconds
<1>2. Lesser(nominal, last) = nominal
  BY <1>1 DEF Lesser
<1>3. Ended(segs, from, finalize) = FALSE
  BY DEF Ended
<1>4. WindowEnd(segs, from, finalize) = Lesser(Boundary(segs, from, nominal, FALSE), last)
  BY <1>2, <1>3 DEF WindowEnd
<1> HIDE DEF nominal, last
<1>5. \/ /\ \A u \in segs : ~ Distance(End[u], nominal) <= Adjustment
         /\ Boundary(segs, from, nominal, FALSE) = Clamp(from, nominal, FALSE)
      \/ \E e : /\ Nearest(segs, nominal, e)
                /\ Boundary(segs, from, nominal, FALSE) = Clamp(from, e, FALSE)
  <2>1. ASSUME NEW ended
        PROVE  \/ /\ \A u \in segs : ~ Distance(End[u], nominal) <= Adjustment
                  /\ Boundary(segs, from, nominal, ended) = Clamp(from, nominal, ended)
               \/ \E e : /\ Nearest(segs, nominal, e)
                         /\ Boundary(segs, from, nominal, ended) = Clamp(from, e, ended)
    BY <1>1, BoundaryIs
  <2> QED BY <2>1, Zenon
<1>6. CASE /\ \A u \in segs : ~ Distance(End[u], nominal) <= Adjustment
           /\ Boundary(segs, from, nominal, FALSE) = Clamp(from, nominal, FALSE)
  BY <1>4, <1>6, Zenon DEF nominal, last
<1>7. CASE \E e : /\ Nearest(segs, nominal, e)
                  /\ Boundary(segs, from, nominal, FALSE) = Clamp(from, e, FALSE)
  BY <1>4, <1>7, Zenon DEF nominal, last
<1> QED
  BY <1>5, <1>6, <1>7

\* So a window that the loop does not break at gets at least the shortest chapter
\* further or to the end, and a silent one all of the nominal length.
LEMMA WindowAdvances ==
    ASSUME NEW segs \in SUBSET Utterances, NEW from \in Nat, NEW finalize \in BOOLEAN,
           ~ Breaks(segs, from, finalize)
    PROVE  LET to == WindowEnd(segs, from, finalize)
           IN  /\ to \in Nat /\ from < to /\ to <= LastEnd(segs)
               /\ from + MinChapter <= to \/ to = LastEnd(segs)
               /\ SaidIn(segs, from, finalize) = {} => to >= from + ChapterWindow
<1> DEFINE nominal == from + ChapterWindow
           last    == LastEnd(segs)
           to      == WindowEnd(segs, from, finalize)
<1>1. /\ last \in Nat /\ nominal \in Nat /\ from < last /\ (nominal <= last \/ finalize)
      /\ from < nominal /\ from + Adjustment < nominal
      /\ MinChapter \in Nat /\ MaxChapter \in Nat /\ Adjustment \in Nat
      /\ 0 < MinChapter /\ from + MinChapter <= nominal /\ nominal <= from + MaxChapter
  BY LastEndIs, TimesAreSeconds DEF Breaks
<1>2. PICK v \in segs : End[v] = last
  <2>1. segs # {}
    BY <1>1 DEF LastEnd
  <2> QED BY <2>1, LastEndIs
<1>3. \A u \in segs : Start[u] \in Nat /\ End[u] \in Nat /\ Start[u] < End[u]
  BY TimesAreSeconds
<1> HIDE DEF nominal, last
<1>4. ASSUME NEW u \in segs, from < End[u], End[u] <= to, to \in Nat
      PROVE  u \in SaidIn(segs, from, finalize)
  BY <1>3, <1>4 DEF SaidIn, Overlaps
<1>5. CASE Ended(segs, from, finalize)
  <2>1. to = last
    BY <1>1, <1>5, LastWindowEnds DEF last
  <2>2. v \in SaidIn(segs, from, finalize)
    BY <1>1, <1>2, <1>4, <2>1
  <2> QED BY <1>1, <2>1, <2>2 DEF last
<1>6. CASE ~ Ended(segs, from, finalize)
  <2>1. nominal <= last
    BY <1>1, <1>6 DEF Ended, nominal, last
  <2>2. ASSUME NEW e \in Nat, to = Lesser(Clamp(from, e, FALSE), last)
        PROVE  /\ to \in Nat /\ from < to /\ to <= last /\ (from + MinChapter <= to \/ to = last)
               /\ (e < nominal /\ to < nominal) => e <= to
               /\ e >= nominal => to >= nominal
    BY <1>1, <2>1, <2>2 DEF Clamp, Lesser, Greater
  <2>3. CASE /\ \A u \in segs : ~ Distance(End[u], nominal) <= Adjustment
             /\ to = Lesser(Clamp(from, nominal, FALSE), last)
    <3>1. /\ to \in Nat /\ from < to /\ to <= last /\ (from + MinChapter <= to \/ to = last)
          /\ to >= nominal
      <4>1. to = Lesser(Clamp(from, nominal, FALSE), last)
        BY <2>3
      <4>2. nominal \in Nat
        BY <1>1
      <4> HIDE DEF to
      <4>3. to \in Nat /\ from < to /\ to <= last /\ (from + MinChapter <= to \/ to = last)
        BY <2>2, <4>1, <4>2
      <4>4. nominal >= nominal => to >= nominal
        BY <2>2, <4>1, <4>2
      <4> QED BY <4>2, <4>3, <4>4
    <3> QED BY <3>1 DEF nominal, last
  <2>4. CASE \E e : Nearest(segs, nominal, e) /\ to = Lesser(Clamp(from, e, FALSE), last)
    <3>1. PICK e : Nearest(segs, nominal, e) /\ to = Lesser(Clamp(from, e, FALSE), last)
      BY <2>4
    <3>2. e \in Nat /\ from < e
      BY <1>1, <3>1 DEF Nearest, Distance
    <3>3. PICK u \in segs : End[u] = e
      BY <3>1 DEF Nearest
    <3>4. /\ to \in Nat /\ from < to /\ to <= last /\ (from + MinChapter <= to \/ to = last)
          /\ (e < nominal /\ to < nominal) => e <= to
          /\ e >= nominal => to >= nominal
      BY <2>2, <3>1, <3>2
    <3>5. e <= to => u \in SaidIn(segs, from, finalize)
      BY <1>4, <3>2, <3>3, <3>4
    <3>6. SaidIn(segs, from, finalize) = {} => to >= nominal
      BY <1>1, <3>2, <3>4, <3>5
    <3> QED BY <3>4, <3>6 DEF nominal, last
  <2> QED BY <2>1, <1>6, <2>3, <2>4, EarlierWindowEnds DEF nominal, last
<1> QED
  BY <1>5, <1>6

\* A chapter, and the state of the loop: the next window's start and what is built.
Chapter == [index : Nat, from : Nat, to : Nat]

LoopState == [from : Nat, built : Seq(Chapter)]

FirstState == [from |-> 0, built |-> <<>>]

\* A turn of the loop leaves it a position and chapters.
LEMMA TurnType ==
    ASSUME NEW segs \in SUBSET Utterances, NEW finalize \in BOOLEAN, NEW loop \in LoopState
    PROVE  Turn(segs, finalize, loop) \in LoopState
<1> DEFINE to      == WindowEnd(segs, loop.from, finalize)
           nominal == loop.from + ChapterWindow
           chapter == [index |-> Len(loop.built), from |-> loop.from, to |-> to]
<1>1. loop.from \in Nat /\ loop.built \in Seq(Chapter) /\ Len(loop.built) \in Nat
  BY DEF LoopState
<1>2. CASE Breaks(segs, loop.from, finalize)
  BY <1>2 DEF Turn
<1>3. CASE ~ Breaks(segs, loop.from, finalize)
  <2>1. to \in Nat
    BY <1>1, <1>3, WindowAdvances
  <2>2. Greater(to, nominal) \in Nat
    BY <1>1, <2>1, TimesAreSeconds DEF Greater
  <2>3. [loop EXCEPT !.from = Greater(to, nominal)] \in LoopState
    BY <2>2 DEF LoopState
  <2>4. chapter \in Chapter
    BY <1>1, <2>1 DEF Chapter
  <2>5. Append(loop.built, chapter) \in Seq(Chapter)
    <3> HIDE DEF chapter
    <3> QED BY <1>1, <2>4
  <2>6. [from |-> to, built |-> Append(loop.built, chapter)] \in LoopState
    <3> HIDE DEF chapter, to
    <3> QED BY <2>1, <2>5 DEF LoopState
  <2> QED BY <1>3, <2>3, <2>6 DEF Turn
<1> QED
  BY <1>2, <1>3

\* The recursive function is the repetition of the turn.
LEMMA LoopTurns ==
    ASSUME NEW segs \in SUBSET Utterances, NEW finalize \in BOOLEAN
    PROVE  /\ Loop(segs, finalize)[0] = FirstState
           /\ \A n \in Nat : /\ Loop(segs, finalize)[n] \in LoopState
                             /\ Loop(segs, finalize)[n + 1]
                                    = Turn(segs, finalize, Loop(segs, finalize)[n])
<1> DEFINE step  == [s \in LoopState |-> Turn(segs, finalize, s)]
           Is(g) == g = [n \in Nat |-> IF n = 0 THEN FirstState
                                       ELSE Turn(segs, finalize, g[n - 1])]
           loop  == Loop(segs, finalize)
<1>1. FirstState \in LoopState
  BY DEF FirstState, LoopState
<1>2. step \in [LoopState -> LoopState]
  BY TurnType
<1>3. PICK f \in [Nat -> LoopState] :
          f[0] = FirstState /\ \A n \in Nat : f[n + 1] = step[f[n]]
  <2> HIDE DEF step
  <2>1. \A start \in LoopState, g \in [LoopState -> LoopState] :
           \E f \in [Nat -> LoopState] : f[0] = start /\ \A n \in Nat : f[n + 1] = g[f[n]]
    BY IterationExists, SMTT(60)
  <2> QED BY <1>1, <1>2, <2>1, ZenonT(30)
<1>4. Is(f)
  <2>1. ASSUME NEW n \in Nat, n # 0 PROVE f[n] = Turn(segs, finalize, f[n - 1])
    <3>1. n - 1 \in Nat /\ (n - 1) + 1 = n
      BY <2>1
    <3>2. f[n - 1] \in LoopState /\ f[(n - 1) + 1] = step[f[n - 1]]
      BY <1>3, <3>1
    <3> QED BY <3>1, <3>2
  <2> QED BY <1>3, <2>1
<1>5. loop = CHOOSE g : Is(g)
  BY DEF Loop, FirstState
<1>6. Is(loop)
  <2> HIDE DEF Is, loop
  <2> QED BY <1>4, <1>5
<1>7. loop[0] = FirstState /\ \A n \in Nat : loop[n + 1] = Turn(segs, finalize, loop[n])
  <2> HIDE DEF loop
  <2>1. \A n \in Nat : n + 1 \in Nat /\ n + 1 # 0 /\ (n + 1) - 1 = n
    OBVIOUS
  <2> QED BY <1>6, <2>1
<1> DEFINE Typed == {n \in Nat : loop[n] \in LoopState}
<1>8. Typed = Nat
  <2>1. 0 \in Typed
    BY <1>1, <1>7
  <2>2. \A n \in Typed : n + 1 \in Typed
    BY <1>7, TurnType
  <2>3. Typed \in SUBSET Nat
    OBVIOUS
  <2> HIDE DEF Typed
  <2> QED BY <2>1, <2>2, <2>3, SuccessorsReachAll
<1> QED
  BY <1>7, <1>8

\* What is built lies before the next window, one chapter after the other, numbered
\* from 0, and every segment that began before the next window is in a chapter.
LoopInv(segs, loop) ==
    /\ \A k \in 1 .. Len(loop.built) :
           loop.built[k].index = k - 1 /\ loop.built[k].to <= loop.from
    /\ \A k \in 1 .. (Len(loop.built) - 1) : loop.built[k].to <= loop.built[k + 1].from
    /\ \A u \in segs : Start[u] < loop.from =>
           \E k \in 1 .. Len(loop.built) : Overlaps(u, loop.built[k].from, loop.built[k].to)

\* Every turn keeps that: a window that is skipped is silent, one that is not becomes
\* the chapter of everything said in it.
LEMMA TurnInv ==
    ASSUME NEW segs \in SUBSET Utterances, NEW finalize \in BOOLEAN, NEW loop \in LoopState,
           LoopInv(segs, loop)
    PROVE  LoopInv(segs, Turn(segs, finalize, loop))
<1> DEFINE to      == WindowEnd(segs, loop.from, finalize)
           nominal == loop.from + ChapterWindow
           said    == SaidIn(segs, loop.from, finalize)
           chapter == [index |-> Len(loop.built), from |-> loop.from, to |-> to]
           next    == Turn(segs, finalize, loop)
           len     == Len(loop.built)
<1>1. /\ loop.from \in Nat /\ loop.built \in Seq(Chapter) /\ len \in Nat
      /\ \A k \in 1 .. len : loop.built[k] \in Chapter
  BY DEF LoopState
<1>2. CASE Breaks(segs, loop.from, finalize)
  BY <1>2 DEF Turn
<1>3. CASE ~ Breaks(segs, loop.from, finalize)
  <2>1. to \in Nat /\ loop.from < to /\ (said = {} => to >= nominal)
    BY <1>1, <1>3, WindowAdvances
  <2>2. \A u \in segs : /\ Start[u] \in Nat /\ End[u] \in Nat /\ Start[u] < End[u]
                        /\ u \in said <=> Start[u] < to /\ End[u] > loop.from
    BY TimesAreSeconds DEF SaidIn, Overlaps
  <2>3. CASE said = {}
    <3>1. next = [loop EXCEPT !.from = Greater(to, nominal)]
      BY <1>3, <2>3 DEF Turn
    <3>2. nominal \in Nat
      BY <1>1, TimesAreSeconds
    <3>3. next.from = to /\ next.built = loop.built
      <4>1. Greater(to, nominal) = to
        BY <2>1, <2>3, <3>2 DEF Greater
      <4> QED BY <3>1, <4>1 DEF LoopState
    <3> HIDE DEF to, said, next, nominal
    <3>4. \A u \in segs : Start[u] < to => Start[u] < loop.from
      BY <1>1, <2>1, <2>2, <2>3
    <3>5. \A k \in 1 .. len : loop.built[k].to <= to
      <4> SUFFICES ASSUME NEW k \in 1 .. len PROVE loop.built[k].to <= to
        OBVIOUS
      <4>1. loop.built[k].to \in Nat
        BY <1>1 DEF Chapter
      <4>2. loop.built[k].to <= loop.from
        BY DEF LoopInv
      <4> QED BY <1>1, <2>1, <4>1, <4>2
    <3>6. Len(next.built) = len
      BY <3>3
    <3> HIDE DEF len
    <3>7. \A k \in 1 .. len : next.built[k].index = k - 1 /\ next.built[k].to <= next.from
      BY <3>3, <3>5 DEF LoopInv, len
    <3>8. \A k \in 1 .. (len - 1) : next.built[k].to <= next.built[k + 1].from
      BY <3>3 DEF LoopInv, len
    <3>9. \A u \in segs : Start[u] < next.from =>
             \E k \in 1 .. len : Overlaps(u, next.built[k].from, next.built[k].to)
      BY <3>3, <3>4 DEF LoopInv, len
    <3> QED BY <3>6, <3>7, <3>8, <3>9 DEF LoopInv, next
  <2>4. CASE said # {}
    <3>1. next.from = to /\ next.built = Append(loop.built, chapter)
      BY <1>3, <2>4 DEF Turn
    <3>2. /\ Len(next.built) = len + 1 /\ next.built[len + 1] = chapter
          /\ \A k \in 1 .. len : next.built[k] = loop.built[k]
      <4>1. chapter \in Chapter
        BY <1>1, <2>1 DEF Chapter
      <4> HIDE DEF chapter, next
      <4> QED BY <1>1, <3>1, <4>1
    <3>3. chapter.index = len /\ chapter.from = loop.from /\ chapter.to = to
      OBVIOUS
    <3> HIDE DEF to, said, next, nominal, chapter, len
    <3>4. \A k \in 1 .. len : loop.built[k].to \in Nat /\ loop.built[k].to <= loop.from
      BY <1>1 DEF Chapter, LoopInv, len
    <3>5. ASSUME NEW k \in 1 .. (len + 1)
          PROVE  next.built[k].index = k - 1 /\ next.built[k].to <= to
      <4>1. CASE k = len + 1
        BY <1>1, <2>1, <3>2, <3>3, <4>1
      <4>2. CASE k \in 1 .. len
        <5>1. next.built[k].index = k - 1
          BY <3>2, <4>2 DEF LoopInv, len
        <5>2. loop.built[k].to <= to
          BY <1>1, <2>1, <3>4, <4>2
        <5> QED BY <3>2, <4>2, <5>1, <5>2
      <4> QED BY <1>1, <4>1, <4>2
    <3>6. ASSUME NEW k \in 1 .. len
          PROVE  next.built[k].to <= next.built[k + 1].from
      <4>1. CASE k = len
        BY <1>1, <3>2, <3>3, <3>4, <4>1
      <4>2. CASE k \in 1 .. (len - 1)
        <5>1. k + 1 \in 1 .. len
          BY <1>1, <4>2
        <5> QED BY <3>2, <4>2, <5>1 DEF LoopInv, len
      <4> QED BY <1>1, <4>1, <4>2
    <3>7. ASSUME NEW u \in segs, Start[u] < to
          PROVE  \E k \in 1 .. (len + 1) : Overlaps(u, next.built[k].from, next.built[k].to)
      <4>1. CASE Start[u] < loop.from
        <5>1. PICK k \in 1 .. len : Overlaps(u, loop.built[k].from, loop.built[k].to)
          BY <4>1 DEF LoopInv, len
        <5> QED BY <1>1, <3>2, <5>1
      <4>2. CASE ~ Start[u] < loop.from
        <5>1. Overlaps(u, chapter.from, chapter.to)
          BY <1>1, <2>2, <3>3, <3>7, <4>2 DEF Overlaps
        <5>2. len + 1 \in 1 .. (len + 1)
          BY <1>1
        <5> QED BY <3>2, <5>1, <5>2
      <4> QED BY <4>1, <4>2
    <3>8. len + 1 - 1 = len
      BY <1>1
    <3>9. next.from = to /\ Len(next.built) = len + 1
      BY <3>1, <3>2
    <3> DEFINE last == Len(next.built)
    <3>10. \A k \in 1 .. last : next.built[k].index = k - 1 /\ next.built[k].to <= next.from
      BY <3>5, <3>9
    <3>11. \A k \in 1 .. (last - 1) : next.built[k].to <= next.built[k + 1].from
      <4>1. last - 1 = len
        BY <1>1, <3>8, <3>9
      <4> QED BY <3>6, <4>1
    <3>12. \A u \in segs : Start[u] < next.from =>
              \E k \in 1 .. last : Overlaps(u, next.built[k].from, next.built[k].to)
      BY <3>7, <3>9
    <3> QED
      BY <3>10, <3>11, <3>12 DEF LoopInv, next
  <2> QED BY <2>3, <2>4
<1> QED
  BY <1>2, <1>3

\* So it holds after any number of turns.
LEMMA LoopInvHolds ==
    ASSUME NEW segs \in SUBSET Utterances, NEW finalize \in BOOLEAN, NEW n \in Nat
    PROVE  LoopInv(segs, Loop(segs, finalize)[n])
<1> DEFINE Kept == {m \in Nat : LoopInv(segs, Loop(segs, finalize)[m])}
<1>1. 0 \in Kept
  <2>1. LoopInv(segs, FirstState)
    BY TimesAreSeconds DEF LoopInv, FirstState
  <2> QED BY <2>1, LoopTurns
<1>2. ASSUME NEW m \in Kept PROVE m + 1 \in Kept
  <2>1. LoopInv(segs, Turn(segs, finalize, Loop(segs, finalize)[m]))
    BY LoopTurns, TurnInv
  <2> QED BY <2>1, LoopTurns
<1>3. Kept = Nat
  <2>1. Kept \in SUBSET Nat
    OBVIOUS
  <2> HIDE DEF Kept
  <2> QED BY <1>1, <1>2, <2>1, SuccessorsReachAll
<1> QED
  BY <1>3

\* A turn that does not end the loop gets further, by the shortest chapter or to the end.
LEMMA TurnAdvances ==
    ASSUME NEW segs \in SUBSET Utterances, NEW finalize \in BOOLEAN, NEW loop \in LoopState,
           ~ Breaks(segs, loop.from, finalize)
    PROVE  LET next == Turn(segs, finalize, loop)
           IN  loop.from + MinChapter <= next.from \/ LastEnd(segs) <= next.from
<1> DEFINE to      == WindowEnd(segs, loop.from, finalize)
           nominal == loop.from + ChapterWindow
<1>1. loop.from \in Nat
  BY DEF LoopState
<1>2. to \in Nat /\ (loop.from + MinChapter <= to \/ to = LastEnd(segs)) /\ LastEnd(segs) \in Nat
  BY <1>1, WindowAdvances, LastEndIs
<1>3. nominal \in Nat
  BY <1>1, TimesAreSeconds
<1>4. Turn(segs, finalize, loop).from \in {to, Greater(to, nominal)}
  BY DEF Turn, LoopState
<1>5. Greater(to, nominal) >= to
  BY <1>2, <1>3 DEF Greater
<1>6. MinChapter \in Nat /\ Greater(to, nominal) \in Nat
  BY <1>2, <1>3, TimesAreSeconds DEF Greater
<1> HIDE DEF to, nominal
<1> QED
  BY <1>1, <1>2, <1>4, <1>5, <1>6

\* The turns that Chapters takes.
Turns(segs) == LastEnd(segs) \div MinChapter + 1

\* That many times the shortest chapter reaches past the end of the transcript.
LEMMA TurnsSuffice ==
    ASSUME NEW segs \in SUBSET Utterances
    PROVE  Turns(segs) \in Nat /\ Turns(segs) * MinChapter > LastEnd(segs)
<1>1. LastEnd(segs) \in Nat /\ MinChapter \in Nat /\ 0 < MinChapter
  BY LastEndIs, TimesAreSeconds
<1>2. ASSUME NEW a \in Nat, NEW b \in Nat, 0 < b
      PROVE  a \div b \in Nat /\ a < b * (a \div b) + b
  <2>1. a \div b \in Nat
    BY <1>2
  <2>2. a < b * (a \div b) + b
    BY <1>2
  <2> QED BY <2>1, <2>2
<1>3. \A b, q \in Nat : (q + 1) * b = b * q + b
  OBVIOUS
<1> DEFINE q == LastEnd(segs) \div MinChapter
<1>4. q \in Nat /\ LastEnd(segs) < MinChapter * q + MinChapter
  BY <1>1, <1>2
<1> HIDE DEF q
<1>5. (q + 1) * MinChapter > LastEnd(segs) /\ q + 1 \in Nat
  BY <1>1, <1>3, <1>4
<1> QED
  BY <1>5 DEF Turns, q

\* Chapters is what the loop has built when it has ended (the while loop of
\* _build_chapter_summaries terminates, however its windows are moved): further
\* turns change nothing.
THEOREM LoopEnds ==
    ASSUME NEW segs \in SUBSET Utterances, NEW finalize \in BOOLEAN,
           NEW n \in Nat, Turns(segs) <= n
    PROVE  /\ Breaks(segs, Loop(segs, finalize)[n].from, finalize)
           /\ Loop(segs, finalize)[n].built = Chapters(segs, finalize)
<1> DEFINE loop  == Loop(segs, finalize)
           turns == Turns(segs)
           over(m) == Breaks(segs, loop[m].from, finalize)
           Far == {m \in Nat : over(m) \/ m * MinChapter <= loop[m].from}
<1>1. turns \in Nat /\ turns * MinChapter > LastEnd(segs)
  BY TurnsSuffice
<1>2. MinChapter \in Nat /\ LastEnd(segs) \in Nat
  BY LastEndIs, TimesAreSeconds
<1>3. \A m \in Nat : loop[m] \in LoopState /\ loop[m].from \in Nat
  BY LoopTurns DEF LoopState
<1>4. loop[0] = FirstState /\ \A m \in Nat : loop[m + 1] = Turn(segs, finalize, loop[m])
  BY LoopTurns
<1> HIDE DEF loop, turns
<1>5. \A m \in Nat : over(m) => loop[m + 1] = loop[m]
  BY <1>4 DEF Turn
<1>6. 0 \in Far
  <2>1. loop[0].from = 0 /\ 0 * MinChapter = 0
    BY <1>2, <1>4 DEF FirstState
  <2> QED BY <2>1
<1>7. ASSUME NEW m \in Far PROVE m + 1 \in Far
  <2>1. CASE over(m)
    BY <1>5, <2>1
  <2>2. CASE ~ over(m)
    <3>1. loop[m].from + MinChapter <= loop[m + 1].from \/ LastEnd(segs) <= loop[m + 1].from
      BY <1>3, <1>4, <2>2, TurnAdvances
    <3>2. CASE LastEnd(segs) <= loop[m + 1].from
      <4>1. loop[m + 1].from >= LastEnd(segs)
        BY <1>2, <1>3, <3>2
      <4> QED BY <4>1 DEF Breaks
    <3>3. CASE loop[m].from + MinChapter <= loop[m + 1].from
      <4>1. m * MinChapter <= loop[m].from /\ m \in Nat
        BY <2>2
      <4>2. (m + 1) * MinChapter = m * MinChapter + MinChapter /\ m * MinChapter \in Nat
        BY <1>2, <4>1
      <4>3. (m + 1) * MinChapter <= loop[m + 1].from
        BY <1>2, <1>3, <3>3, <4>1, <4>2
      <4> QED BY <4>1, <4>3
    <3> QED BY <3>1, <3>2, <3>3
  <2> QED BY <2>1, <2>2
<1>8. Far = Nat
  <2>1. Far \in SUBSET Nat
    OBVIOUS
  <2> HIDE DEF Far
  <2> QED BY <1>6, <1>7, <2>1, SuccessorsReachAll
<1>9. over(turns)
  <2>1. over(turns) \/ turns * MinChapter <= loop[turns].from
    BY <1>1, <1>8
  <2>2. CASE turns * MinChapter <= loop[turns].from
    <3>1. turns * MinChapter \in Nat
      BY <1>1, <1>2
    <3>2. loop[turns].from >= LastEnd(segs)
      BY <1>1, <1>2, <1>3, <2>2, <3>1
    <3> QED BY <3>2 DEF Breaks
  <2> QED BY <2>1, <2>2
<1> DEFINE Still == {m \in Nat : turns <= m => loop[m] = loop[turns]}
<1>10. Still = Nat
  <2>1. 0 \in Still
    <3>1. turns <= 0 => turns = 0
      BY <1>1
    <3> QED BY <3>1
  <2>2. ASSUME NEW m \in Still PROVE m + 1 \in Still
    <3>1. CASE turns <= m
      BY <1>5, <1>9, <3>1
    <3>2. CASE ~ turns <= m
      <4>1. turns <= m + 1 => turns = m + 1
        BY <1>1, <3>2
      <4> QED BY <4>1
    <3> QED BY <3>1, <3>2
  <2>3. Still \in SUBSET Nat
    OBVIOUS
  <2> HIDE DEF Still
  <2> QED BY <2>1, <2>2, <2>3, SuccessorsReachAll
<1>11. loop[n] = loop[turns]
  BY <1>10 DEF turns
<1>12. Chapters(segs, finalize) = loop[turns].built
  BY DEF Chapters, loop, turns, Turns
<1> QED
  BY <1>9, <1>11, <1>12 DEF loop

\* A transcript that is a beginning of another: what the other has more begins and
\* ends no earlier than anything in the first.
Begins(early, late) ==
    /\ early \subseteq late
    /\ \A u \in late \ early, v \in early : Start[v] <= Start[u] /\ End[v] <= End[u]

\* So the longer one ends no earlier, and none of its other segments ends before.
LEMMA BeginsEarlier ==
    ASSUME NEW early \in SUBSET Utterances, NEW late \in SUBSET Utterances, Begins(early, late)
    PROVE  /\ LastEnd(early) \in Nat /\ LastEnd(late) \in Nat /\ LastEnd(early) <= LastEnd(late)
           /\ \A u \in late \ early : LastEnd(early) <= End[u]
<1>1. CASE early = {}
  <2>1. LastEnd(early) = 0
    BY <1>1 DEF LastEnd
  <2>2. LastEnd(late) \in Nat /\ \A u \in late : End[u] \in Nat
    BY LastEndIs, TimesAreSeconds
  <2> QED BY <2>1, <2>2
<1>2. CASE early # {}
  <2>1. PICK v \in early : End[v] = LastEnd(early)
    BY <1>2, LastEndIs
  <2>2. v \in late /\ \A u \in late \ early : End[v] <= End[u]
    BY DEF Begins
  <2> QED BY <2>1, <2>2, LastEndIs
<1> QED
  BY <1>1, <1>2

\* A window that the shorter transcript fills ends at the same time in the longer one.
LEMMA SameWindow ==
    ASSUME NEW early \in SUBSET Utterances, NEW late \in SUBSET Utterances, Begins(early, late),
           NEW from \in Nat, NEW f \in BOOLEAN, NEW g \in BOOLEAN,
           ~ Breaks(early, from, f), ~ Ended(early, from, f)
    PROVE  /\ WindowEnd(early, from, f) = WindowEnd(late, from, g)
           /\ Ended(late, from, g) => WindowEnd(early, from, f) = LastEnd(early)
<1> DEFINE nominal == from + ChapterWindow
           last    == LastEnd(early)
           end(e)  == Clamp(from, e, FALSE)
<1>1. /\ nominal \in Nat /\ from < nominal /\ from + MinChapter <= nominal
      /\ nominal <= from + MaxChapter /\ Adjustment \in Nat /\ MinChapter \in Nat /\ MaxChapter \in Nat
  BY TimesAreSeconds
<1>2. /\ last \in Nat /\ LastEnd(late) \in Nat /\ last <= LastEnd(late)
      /\ \A u \in late \ early : last <= End[u]
  BY BeginsEarlier
<1>3. nominal <= last
  BY <1>1, <1>2 DEF Breaks, Ended
<1>4. PICK v \in early : End[v] = last
  <2>1. early # {}
    BY <1>1, <1>2, <1>3 DEF LastEnd
  <2> QED BY <2>1, LastEndIs
<1>5. /\ \A u \in late : End[u] \in Nat
      /\ \A u \in early : u \in late /\ End[u] <= last
  BY LastEndIs, TimesAreSeconds DEF Begins
<1> HIDE DEF nominal, last
<1>6. \A e \in Nat : e <= last => end(e) \in Nat /\ end(e) <= last
  BY <1>1, <1>2, <1>3 DEF Clamp, Lesser, Greater
<1>7. end(nominal) = nominal
  BY <1>1 DEF Clamp, Lesser, Greater
<1>8. \A e \in Nat : e <= last => Lesser(end(e), last) = end(e) /\ Lesser(end(e), LastEnd(late)) = end(e)
  <2> HIDE DEF end
  <2> QED BY <1>2, <1>6 DEF Lesser
<1>9. \/ /\ \A u \in early : ~ Distance(End[u], nominal) <= Adjustment
         /\ WindowEnd(early, from, f) = nominal
      \/ \E e : /\ Nearest(early, nominal, e)
                /\ WindowEnd(early, from, f) = end(e)
  <2>1. \/ /\ \A u \in early : ~ Distance(End[u], nominal) <= Adjustment
           /\ WindowEnd(early, from, f) = Lesser(end(nominal), last)
        \/ \E e : /\ Nearest(early, nominal, e)
                  /\ WindowEnd(early, from, f) = Lesser(end(e), last)
    BY <1>3, EarlierWindowEnds DEF nominal, last
  <2>2. \A e : Nearest(early, nominal, e) => e \in Nat /\ e <= last
    BY <1>5 DEF Nearest
  <2> HIDE DEF end
  <2> QED BY <1>1, <1>3, <1>7, <1>8, <2>1, <2>2
<1>10. CASE Ended(late, from, g)
  <2>1. nominal = last /\ LastEnd(late) = last
    BY <1>1, <1>2, <1>3, <1>10 DEF Ended, nominal
  <2>2. WindowEnd(late, from, g) = last
    <3>1. from < LastEnd(late)
      BY <1>1, <2>1
    <3> QED BY <1>10, <2>1, <3>1, LastWindowEnds
  <2>3. Distance(End[v], nominal) = 0
    BY <1>2, <1>4, <2>1 DEF Distance
  <2>4. \A e : Nearest(early, nominal, e) => e = nominal
    BY <1>1, <2>3 DEF Nearest, Distance
  <2>5. WindowEnd(early, from, f) = nominal
    BY <1>1, <1>7, <1>9, <2>3, <2>4
  <2> QED BY <2>1, <2>2, <2>5 DEF last
<1>11. CASE ~ Ended(late, from, g)
  <2>1. \/ /\ \A u \in late : ~ Distance(End[u], nominal) <= Adjustment
           /\ WindowEnd(late, from, g) = Lesser(end(nominal), LastEnd(late))
        \/ \E e : /\ Nearest(late, nominal, e)
                  /\ WindowEnd(late, from, g) = Lesser(end(e), LastEnd(late))
    <3>1. from + ChapterWindow <= LastEnd(late)
      BY <1>1, <1>2, <1>3 DEF nominal
    <3> QED BY <1>11, <3>1, EarlierWindowEnds DEF nominal
  <2>2. \A u \in late \ early : Distance(last, nominal) <= Distance(End[u], nominal)
    BY <1>1, <1>2, <1>3, <1>5 DEF Distance
  <2>3. \A x, y \in Nat : Distance(x, y) \in Nat
    BY DEF Distance
  <2>4. CASE \A u \in early : ~ Distance(End[u], nominal) <= Adjustment
    <3>1. \A u \in late : ~ Distance(End[u], nominal) <= Adjustment
      <4>1. ASSUME NEW u \in late, u \notin early
            PROVE  ~ Distance(End[u], nominal) <= Adjustment
        <5>1. Distance(last, nominal) <= Distance(End[u], nominal)
          BY <2>2, <4>1
        <5>2. ~ Distance(last, nominal) <= Adjustment
          BY <1>4, <2>4
        <5>3. Distance(last, nominal) \in Nat /\ Distance(End[u], nominal) \in Nat
          BY <1>1, <1>2, <1>5, <2>3
        <5> QED BY <1>1, <5>1, <5>2, <5>3
      <4> QED BY <2>4, <4>1
    <3>2. WindowEnd(late, from, g) = nominal
      <4>1. Lesser(end(nominal), LastEnd(late)) = nominal
        BY <1>1, <1>3, <1>7, <1>8
      <4> HIDE DEF end
      <4> QED BY <2>1, <3>1, <4>1 DEF Nearest
    <3>3. WindowEnd(early, from, f) = nominal
      <4> HIDE DEF end
      <4> QED BY <1>9, <2>4 DEF Nearest
    <3> QED BY <1>11, <3>2, <3>3
  <2>5. CASE \E u \in early : Distance(End[u], nominal) <= Adjustment
    <3>1. PICK e : Nearest(early, nominal, e) /\ WindowEnd(early, from, f) = end(e)
      BY <1>9, <2>5
    <3>2. PICK d : Nearest(late, nominal, d) /\ WindowEnd(late, from, g) = Lesser(end(d), LastEnd(late))
      BY <1>5, <2>1, <2>5
    <3>3. PICK p \in early : e = End[p]
      BY <3>1 DEF Nearest
    <3>4. PICK q \in late : d = End[q]
      BY <3>2 DEF Nearest
    <3>5. /\ e \in Nat /\ d \in Nat /\ e <= last
          /\ Distance(e, nominal) \in Nat /\ Distance(d, nominal) \in Nat /\ Distance(last, nominal) \in Nat
      BY <1>1, <1>2, <1>5, <2>3, <3>1, <3>2, <3>3 DEF Nearest
    <3>6. /\ Distance(d, nominal) <= Distance(e, nominal)
          /\ Distance(d, nominal) = Distance(e, nominal) => d <= e
      BY <1>5, <3>2, <3>3 DEF Nearest
    <3>7. CASE q \in early
      <4>1. /\ Distance(e, nominal) <= Distance(d, nominal)
            /\ Distance(e, nominal) = Distance(d, nominal) => e <= d
        BY <3>1, <3>4, <3>7 DEF Nearest
      <4>2. e = d
        BY <3>5, <3>6, <4>1
      <4> QED BY <1>8, <1>11, <3>1, <3>2, <3>5, <4>2
    <3>8. CASE q \notin early
      <4>1. Distance(e, nominal) <= Distance(last, nominal)
        BY <1>4, <3>1 DEF Nearest
      <4>2. Distance(last, nominal) <= Distance(d, nominal) /\ last <= d
        BY <1>2, <2>2, <3>4, <3>8
      <4>3. e = d
        BY <1>2, <3>5, <3>6, <4>1, <4>2
      <4> QED BY <1>8, <1>11, <3>1, <3>2, <3>5, <4>3
    <3> QED BY <3>7, <3>8
  <2> QED BY <2>4, <2>5
<1> QED
  BY <1>10, <1>11

\* And it is silent in both or in neither.
LEMMA SameSilence ==
    ASSUME NEW early \in SUBSET Utterances, NEW late \in SUBSET Utterances, Begins(early, late),
           NEW from \in Nat, NEW f \in BOOLEAN, NEW g \in BOOLEAN,
           ~ Breaks(early, from, f), ~ Ended(early, from, f)
    PROVE  SaidIn(early, from, f) = {} <=> SaidIn(late, from, g) = {}
<1> DEFINE to == WindowEnd(early, from, f)
<1>1. to = WindowEnd(late, from, g)
  <2> SUFFICES ASSUME NEW x, x = to, x # WindowEnd(late, from, g) PROVE FALSE
    OBVIOUS
  <2> QED BY SameWindow
<1>2. from < LastEnd(early) /\ LastEnd(early) \in Nat /\ to \in Nat /\ to <= LastEnd(early)
  BY LastEndIs, WindowAdvances DEF Breaks
<1>3. PICK v \in early : End[v] = LastEnd(early)
  <2>1. early # {}
    BY <1>2 DEF LastEnd
  <2> QED BY <2>1, LastEndIs
<1>4. early \subseteq late /\ \A u \in late \ early : Start[v] <= Start[u]
  BY DEF Begins
<1>5. \A u \in late : Start[u] \in Nat /\ End[u] \in Nat
  BY TimesAreSeconds
<1> HIDE DEF to
<1>6. SaidIn(early, from, f) = {u \in early : Overlaps(u, from, to)}
  BY DEF SaidIn, to
<1>7. SaidIn(late, from, g) = {u \in late : Overlaps(u, from, to)}
  BY <1>1 DEF SaidIn
<1>8. ASSUME SaidIn(early, from, f) = {}, NEW u \in late, Overlaps(u, from, to) PROVE FALSE
  <2>1. u \notin early
    BY <1>6, <1>8
  <2>2. ~ Overlaps(v, from, to)
    BY <1>6, <1>8
  <2>3. Start[v] >= to
    BY <1>2, <1>3, <1>4, <1>5, <2>2 DEF Overlaps
  <2> QED BY <1>2, <1>4, <1>5, <1>8, <2>1, <2>3 DEF Overlaps
<1> QED
  BY <1>4, <1>6, <1>7, <1>8

\* The window in which the shorter one ends reaches as far in the longer one.
LEMMA LastWindowGrows ==
    ASSUME NEW early \in SUBSET Utterances, NEW late \in SUBSET Utterances, Begins(early, late),
           NEW from \in Nat, NEW f \in BOOLEAN, NEW g \in BOOLEAN,
           ~ Breaks(early, from, f), Ended(early, from, f), ~ Breaks(late, from, g)
    PROVE  /\ WindowEnd(early, from, f) = LastEnd(early)
           /\ LastEnd(early) <= WindowEnd(late, from, g)
           /\ SaidIn(early, from, f) # {} /\ SaidIn(late, from, g) # {}
<1> DEFINE nominal == from + ChapterWindow
           last    == LastEnd(early)
           to      == WindowEnd(late, from, g)
<1>1. /\ last \in Nat /\ LastEnd(late) \in Nat /\ last <= LastEnd(late) /\ from < last
      /\ from < LastEnd(late) /\ last <= nominal /\ (nominal <= LastEnd(late) \/ g)
      /\ to \in Nat
  <2>1. last \in Nat /\ LastEnd(late) \in Nat /\ last <= LastEnd(late)
    BY BeginsEarlier
  <2>2. to \in Nat
    BY WindowAdvances
  <2>3. nominal \in Nat
    BY TimesAreSeconds
  <2>4. from < last
    BY <2>1 DEF Breaks
  <2>5. last <= nominal
    BY <2>1, <2>3 DEF Ended
  <2>6. nominal <= LastEnd(late) \/ g
    BY <2>1, <2>3 DEF Breaks
  <2>7. from < LastEnd(late)
    BY <2>1, <2>4
  <2> QED BY <2>1, <2>2, <2>4, <2>5, <2>6, <2>7
<1>2. PICK v \in early : v \in late /\ End[v] = last
  <2>1. early # {}
    BY <1>1 DEF LastEnd
  <2> QED BY <2>1, LastEndIs DEF Begins
<1>3. Start[v] \in Nat /\ Start[v] < last
  BY <1>2, TimesAreSeconds
<1>4. WindowEnd(early, from, f) = last
  BY <1>1, LastWindowEnds
<1>5. last <= to
  <2>1. CASE Ended(late, from, g)
    BY <1>1, <2>1, LastWindowEnds
  <2>2. CASE ~ Ended(late, from, g)
    <3>1. nominal <= LastEnd(late)
      BY <1>1, <2>2, TimesAreSeconds DEF Ended
    <3>2. MinChapter \in Nat /\ MaxChapter \in Nat /\ nominal \in Nat /\ nominal <= from + MaxChapter
      BY TimesAreSeconds
    <3>3. \/ to = Lesser(Clamp(from, nominal, FALSE), LastEnd(late))
          \/ \E e : Nearest(late, nominal, e) /\ to = Lesser(Clamp(from, e, FALSE), LastEnd(late))
      BY <2>2, <3>1, EarlierWindowEnds
    <3> HIDE DEF nominal, last, to
    <3>4. ASSUME NEW e \in Nat, last <= e, to = Lesser(Clamp(from, e, FALSE), LastEnd(late))
          PROVE  last <= to
      BY <1>1, <3>2, <3>4 DEF Clamp, Lesser, Greater
    <3>5. ASSUME NEW e, Nearest(late, nominal, e) PROVE e \in Nat /\ last <= e
      <4>1. e \in Nat /\ Distance(e, nominal) <= Distance(last, nominal)
        BY <1>2, <3>5 DEF Nearest
      <4> QED BY <1>1, <3>2, <4>1 DEF Distance
    <3> QED BY <1>1, <3>2, <3>3, <3>4, <3>5
  <2> QED BY <2>1, <2>2
<1>6. Overlaps(v, from, last) /\ Overlaps(v, from, to)
  BY <1>1, <1>2, <1>3, <1>5 DEF Overlaps
<1> QED
  BY <1>2, <1>4, <1>5, <1>6 DEF SaidIn

\* A turn keeps the chapters that are built, and adds at most one.
LEMMA TurnBuilds ==
    ASSUME NEW segs \in SUBSET Utterances, NEW finalize \in BOOLEAN, NEW loop \in LoopState
    PROVE  LET next == Turn(segs, finalize, loop)
           IN  /\ Len(loop.built) \in Nat /\ Len(next.built) \in Nat
               /\ Len(loop.built) <= Len(next.built)
               /\ \A k \in 1 .. Len(loop.built) : next.built[k] = loop.built[k]
<1> DEFINE chapter == [index |-> Len(loop.built), from |-> loop.from,
                       to |-> WindowEnd(segs, loop.from, finalize)]
           next    == Turn(segs, finalize, loop)
<1>1. next \in LoopState /\ loop.built \in Seq(Chapter) /\ next.built \in Seq(Chapter)
  BY TurnType DEF LoopState
<1>2. next.built = loop.built \/ next.built = Append(loop.built, chapter)
  BY DEF Turn, LoopState
<1> HIDE DEF next, chapter
<1>3. /\ Len(loop.built) \in Nat /\ Len(next.built) \in Nat
      /\ Len(loop.built) <= Len(next.built)
      /\ \A k \in 1 .. Len(loop.built) : next.built[k] = loop.built[k]
  BY <1>1, <1>2
<1> QED
  BY <1>3 DEF next

\* What two loops built of a beginning and of the longer transcript: where both have a
\* chapter it is the same, except that the last of the first may go on longer.
Similar(short, long) ==
    \A k \in 1 .. Len(short) : k <= Len(long) =>
        /\ long[k].from = short[k].from /\ short[k].to <= long[k].to
        /\ k # Len(short) => long[k] = short[k]

\* The two loops are where they were together; or the first has ended, and the
\* second has as many chapters or has ended too.
Paired(early, f, s, late, g, t) ==
    /\ Similar(s.built, t.built)
    /\ \/ s = t
       \/ /\ Breaks(early, s.from, f)
          /\ Len(s.built) <= Len(t.built) \/ Breaks(late, t.from, g)

\* Chapters are similar to the same ones with more behind them, either way round.
LEMMA SimilarToMore ==
    ASSUME NEW s \in Seq(Chapter), NEW t \in Seq(Chapter),
           Len(s) <= Len(t), \A k \in 1 .. Len(s) : t[k] = s[k]
    PROVE  Similar(s, t) /\ Similar(t, s)
<1>1. Len(s) \in Nat /\ Len(t) \in Nat /\ \A k \in 1 .. Len(s) : s[k] \in Chapter
  OBVIOUS
<1>2. \A k \in 1 .. Len(s) : s[k].to <= s[k].to
  <2>1. \A k \in 1 .. Len(s) : s[k].to \in Nat
    BY <1>1 DEF Chapter
  <2>2. \A n \in Nat : n <= n
    OBVIOUS
  <2> QED BY <2>1, <2>2
<1>3. \A k \in 1 .. Len(t) : k <= Len(s) => k \in 1 .. Len(s)
  BY <1>1
<1> QED
  BY <1>2, <1>3 DEF Similar

\* The two loops stay paired when each takes a turn.
LEMMA PairedTurn ==
    ASSUME NEW early \in SUBSET Utterances, NEW late \in SUBSET Utterances, Begins(early, late),
           NEW f \in BOOLEAN, NEW g \in BOOLEAN, NEW s \in LoopState, NEW t \in LoopState,
           Paired(early, f, s, late, g, t)
    PROVE  Paired(early, f, Turn(early, f, s), late, g, Turn(late, g, t))
<1> DEFINE s1 == Turn(early, f, s)
           t1 == Turn(late, g, t)
<1>1. /\ s1 \in LoopState /\ t1 \in LoopState
      /\ {s.built, t.built, s1.built, t1.built} \subseteq Seq(Chapter) /\ s.from \in Nat
      /\ Len(s.built) \in Nat /\ Len(t.built) \in Nat
  BY TurnType DEF LoopState
<1>2. /\ Len(s.built) <= Len(s1.built) /\ \A k \in 1 .. Len(s.built) : s1.built[k] = s.built[k]
      /\ Len(t.built) <= Len(t1.built) /\ \A k \in 1 .. Len(t.built) : t1.built[k] = t.built[k]
      /\ Len(s1.built) \in Nat /\ Len(t1.built) \in Nat
  BY TurnBuilds
<1>3. CASE s = t
  <2>1. CASE Breaks(early, s.from, f)
    <3>1. s1 = s
      BY <2>1 DEF Turn
    <3>2. Similar(s.built, t1.built)
      <4> HIDE DEF s1, t1
      <4> QED BY <1>1, <1>2, <1>3, SimilarToMore
    <3> HIDE DEF s1, t1
    <3>3. Paired(early, f, s1, late, g, t1)
      BY <1>2, <1>3, <2>1, <3>1, <3>2 DEF Paired
    <3> QED BY <3>3 DEF s1, t1
  <2>2. CASE ~ Breaks(early, s.from, f) /\ ~ Ended(early, s.from, f)
    <3> DEFINE to == WindowEnd(early, s.from, f)
    <3>1. /\ to = WindowEnd(late, s.from, g)
          /\ Ended(late, s.from, g) => to = LastEnd(early)
          /\ SaidIn(early, s.from, f) = {} <=> SaidIn(late, s.from, g) = {}
      <4>1. s.from \in Nat
        BY <1>1
      <4> HIDE DEF s1, t1
      <4>2. /\ WindowEnd(early, s.from, f) = WindowEnd(late, s.from, g)
            /\ Ended(late, s.from, g) => WindowEnd(early, s.from, f) = LastEnd(early)
        BY <2>2, <4>1, SameWindow
      <4>3. SaidIn(early, s.from, f) = {} <=> SaidIn(late, s.from, g) = {}
        BY <2>2, <4>1, SameSilence
      <4> QED BY <4>2, <4>3
    <3>2. CASE ~ Breaks(late, s.from, g)
      <4>1. s1 = t1
        BY <1>3, <2>2, <3>1, <3>2 DEF Turn
      <4>2. Similar(s1.built, s1.built)
        <5> HIDE DEF s1, t1
        <5> QED BY <1>1, <1>2, SimilarToMore
      <4> HIDE DEF s1, t1
      <4>3. Paired(early, f, s1, late, g, t1)
        BY <4>1, <4>2 DEF Paired
      <4> QED BY <4>3 DEF s1, t1
    <3>3. CASE Breaks(late, s.from, g)
      <4>1. t1 = s
        BY <1>3, <3>3 DEF Turn
      <4>2. Ended(late, s.from, g)
        <5>1. LastEnd(early) \in Nat /\ LastEnd(late) \in Nat /\ LastEnd(early) <= LastEnd(late)
          BY BeginsEarlier
        <5>2. s.from + ChapterWindow \in Nat
          BY <1>1, TimesAreSeconds
        <5>3. s.from + ChapterWindow <= LastEnd(early) /\ ~ s.from >= LastEnd(early)
          BY <2>2, <5>1, <5>2 DEF Breaks, Ended
        <5>4. s.from + ChapterWindow <= LastEnd(late) /\ ~ s.from >= LastEnd(late)
          BY <1>1, <5>1, <5>2, <5>3
        <5> QED BY <1>1, <3>3, <5>1, <5>2, <5>4 DEF Breaks
      <4>3. s1.from >= LastEnd(early)
        <5>1. to \in Nat /\ to = LastEnd(early)
          BY <1>1, <2>2, <3>1, <4>2, WindowAdvances
        <5>2. s1.from = to \/ s1.from = Greater(to, s.from + ChapterWindow)
          BY <2>2 DEF Turn, LoopState
        <5>3. s.from + ChapterWindow \in Nat
          BY <1>1, TimesAreSeconds
        <5> HIDE DEF to, s1
        <5> QED BY <5>1, <5>2, <5>3 DEF Greater
      <4>4. Similar(s1.built, s.built)
        <5> HIDE DEF s1, t1
        <5> QED BY <1>1, <1>2, SimilarToMore
      <4> HIDE DEF s1, t1
      <4>5. Paired(early, f, s1, late, g, t1)
        <5>1. Breaks(early, s1.from, f)
          BY <4>3 DEF Breaks
        <5> QED BY <3>3, <4>1, <4>4, <5>1 DEF Paired
      <4> QED BY <4>5 DEF s1, t1
    <3> QED BY <3>2, <3>3
  <2>3. CASE ~ Breaks(early, s.from, f) /\ Ended(early, s.from, f)
    <3> DEFINE len == Len(s.built)
               c   == [index |-> len, from |-> s.from, to |-> LastEnd(early)]
    <3>1. s1 = [from |-> LastEnd(early), built |-> Append(s.built, c)]
      <4>1. WindowEnd(early, s.from, f) = LastEnd(early) /\ SaidIn(early, s.from, f) # {}
        <5>1. LastEnd(early) \in Nat /\ s.from < LastEnd(early)
          BY <1>1, <2>3, LastEndIs DEF Breaks
        <5>2. WindowEnd(early, s.from, f) = LastEnd(early)
          BY <1>1, <2>3, <5>1, LastWindowEnds
        <5>3. early # {}
          BY <1>1, <5>1 DEF LastEnd
        <5>4. PICK v \in early : End[v] = LastEnd(early)
          BY <5>3, LastEndIs
        <5>5. Overlaps(v, s.from, LastEnd(early))
          BY <1>1, <5>1, <5>4, TimesAreSeconds DEF Overlaps
        <5> QED BY <5>2, <5>4, <5>5 DEF SaidIn
      <4> QED BY <2>3, <4>1 DEF Turn
    <3>2. LastEnd(early) \in Nat
      BY LastEndIs
    <3>3. Breaks(early, s1.from, f)
      BY <3>1, <3>2 DEF Breaks
    <3>4. CASE Breaks(late, s.from, g)
      <4>1. t1 = s
        BY <1>3, <3>4 DEF Turn
      <4>2. Similar(s1.built, s.built)
        <5> HIDE DEF s1, t1
        <5> QED BY <1>1, <1>2, SimilarToMore
      <4> HIDE DEF s1, t1
      <4>3. Paired(early, f, s1, late, g, t1)
        BY <3>3, <3>4, <4>1, <4>2 DEF Paired
      <4> QED BY <4>3 DEF s1, t1
    <3>5. CASE ~ Breaks(late, s.from, g)
      <4> DEFINE d == [index |-> len, from |-> s.from, to |-> WindowEnd(late, s.from, g)]
      <4>1. LastEnd(early) <= WindowEnd(late, s.from, g) /\ SaidIn(late, s.from, g) # {}
        BY <1>1, <2>3, <3>5, LastWindowGrows
      <4>2. t1.built = Append(s.built, d)
        BY <1>3, <3>5, <4>1 DEF Turn
      <4>3. s1.built = Append(s.built, c)
        BY <3>1
      <4>4. c.from = d.from /\ c.to <= d.to
        BY <4>1
      <4> HIDE DEF s1, t1, c, d
      <4>5. /\ Len(s1.built) = len + 1 /\ s1.built[len + 1] = c
            /\ Len(t1.built) = len + 1 /\ t1.built[len + 1] = d
        BY <1>1, <4>2, <4>3
      <4>6. Similar(s1.built, t1.built)
        <5> SUFFICES ASSUME NEW k \in 1 .. (len + 1)
                     PROVE  /\ t1.built[k].from = s1.built[k].from
                            /\ s1.built[k].to <= t1.built[k].to
                            /\ k # len + 1 => t1.built[k] = s1.built[k]
          BY <4>5 DEF Similar
        <5>1. CASE k = len + 1
          BY <4>4, <4>5, <5>1
        <5>2. CASE k \in 1 .. len
          <6>1. s1.built[k] = s.built[k] /\ t1.built[k] = s.built[k]
            BY <1>2, <1>3, <5>2
          <6>2. s.built[k] \in Chapter
            BY <1>1, <5>2
          <6> QED BY <6>1, <6>2 DEF Chapter
        <5> QED BY <1>1, <5>1, <5>2
      <4>7. Paired(early, f, s1, late, g, t1)
        BY <1>1, <3>3, <4>5, <4>6 DEF Paired
      <4> QED BY <4>7 DEF s1, t1
    <3> QED BY <3>4, <3>5
  <2> QED BY <2>1, <2>2, <2>3
<1>4. CASE s # t /\ Breaks(early, s.from, f)
  <2>1. s1 = s
    BY <1>4 DEF Turn
  <2>2. CASE Breaks(late, t.from, g)
    <3>1. t1 = t
      BY <2>2 DEF Turn
    <3> QED BY <2>1, <3>1
  <2>3. CASE Len(s.built) <= Len(t.built)
    <3> HIDE DEF s1, t1
    <3>1. Similar(s.built, t1.built)
      <4>1. \A k \in 1 .. Len(s.built) : k <= Len(t.built) /\ t1.built[k] = t.built[k]
        BY <1>1, <1>2, <2>3
      <4> QED BY <4>1 DEF Paired, Similar
    <3>2. Paired(early, f, s1, late, g, t1)
      BY <1>1, <1>2, <1>4, <2>1, <2>3, <3>1 DEF Paired
    <3> QED BY <3>2 DEF s1, t1
  <2> QED BY <1>4, <2>2, <2>3 DEF Paired
<1> QED
  BY <1>3, <1>4 DEF Paired

\* So the chapters of a transcript and of a beginning of it are the same, up to the last.
LEMMA ChaptersSimilar ==
    ASSUME NEW early \in SUBSET Utterances, NEW late \in SUBSET Utterances, Begins(early, late),
           NEW f \in BOOLEAN, NEW g \in BOOLEAN
    PROVE  Similar(Chapters(early, f), Chapters(late, g))
<1> DEFINE short == Loop(early, f)
           long  == Loop(late, g)
           Together == {n \in Nat : Paired(early, f, short[n], late, g, long[n])}
           n == Turns(early) + Turns(late)
<1>1. /\ short[0] = FirstState /\ long[0] = FirstState
      /\ \A m \in Nat : /\ short[m] \in LoopState /\ short[m + 1] = Turn(early, f, short[m])
                        /\ long[m] \in LoopState /\ long[m + 1] = Turn(late, g, long[m])
  BY LoopTurns
<1> HIDE DEF short, long
<1>2. 0 \in Together
  <2>1. Similar(FirstState.built, FirstState.built)
    BY DEF Similar, FirstState
  <2> QED BY <1>1, <2>1 DEF Paired
<1>3. ASSUME NEW m \in Together PROVE m + 1 \in Together
  <2>1. Paired(early, f, Turn(early, f, short[m]), late, g, Turn(late, g, long[m]))
    BY <1>1, PairedTurn
  <2> QED BY <1>1, <2>1
<1>4. Together = Nat
  <2>1. Together \in SUBSET Nat
    OBVIOUS
  <2> HIDE DEF Together
  <2> QED BY <1>2, <1>3, <2>1, SuccessorsReachAll
<1>5. n \in Nat /\ Turns(early) <= n /\ Turns(late) <= n
  <2>1. Turns(early) \in Nat /\ Turns(late) \in Nat
    BY TurnsSuffice
  <2> QED BY <2>1
<1> HIDE DEF n
<1>6. short[n].built = Chapters(early, f) /\ long[n].built = Chapters(late, g)
  BY <1>5, LoopEnds DEF short, long
<1>7. Paired(early, f, short[n], late, g, long[n])
  BY <1>4, <1>5
<1> QED
  BY <1>6, <1>7 DEF Paired

\* The chapters are those of a loop of which the invariant holds.
LEMMA ChaptersAre ==
    ASSUME NEW segs \in SUBSET Utterances, NEW finalize \in BOOLEAN
    PROVE  \E loop \in LoopState : Chapters(segs, finalize) = loop.built /\ LoopInv(segs, loop)
<1> DEFINE n == Turns(segs)
<1>1. n \in Nat /\ n <= n
  <2>1. n \in Nat
    BY TurnsSuffice
  <2> QED BY <2>1
<1> HIDE DEF n
<1>2. /\ Loop(segs, finalize)[n] \in LoopState
      /\ LoopInv(segs, Loop(segs, finalize)[n])
      /\ Loop(segs, finalize)[n].built = Chapters(segs, finalize)
  BY <1>1, LoopTurns, LoopInvHolds, LoopEnds DEF n
<1> QED
  BY <1>2

\* They are numbered from 0.
LEMMA ChaptersNumbered ==
    ASSUME NEW segs \in SUBSET Utterances, NEW finalize \in BOOLEAN
    PROVE  /\ Chapters(segs, finalize) \in Seq(Chapter)
           /\ \A k \in 1 .. Len(Chapters(segs, finalize)) :
                  Chapters(segs, finalize)[k].index = k - 1
  BY ChaptersAre DEF LoopState, LoopInv

\* A record stands for the first chapter that its utterance overlaps.
LEMMA RecordIs ==
    ASSUME NEW segs \in SUBSET Utterances, NEW finalize \in BOOLEAN,
           NEW r \in Generated(segs, Chapters(segs, finalize))
    PROVE  LET built == Chapters(segs, finalize)
           IN  /\ r = <<r[1], r[2]>> /\ r[1] \in Nat /\ r[2] \in segs
               /\ r[1] + 1 \in 1 .. Len(built)
               /\ Overlaps(r[2], built[r[1] + 1].from, built[r[1] + 1].to)
               /\ \A j \in 1 .. Len(built) :
                      Overlaps(r[2], built[j].from, built[j].to) => r[1] + 1 <= j
<1> DEFINE built == Chapters(segs, finalize)
<1>1. built \in Seq(Chapter) /\ \A k \in 1 .. Len(built) : built[k].index = k - 1
  BY ChaptersNumbered
<1> HIDE DEF built
<1>2. DOMAIN built = 1 .. Len(built) /\ Len(built) \in Nat
  BY <1>1
<1>3. r \in Drafts(segs, built) /\ \A other \in Drafts(segs, built) : other[2] = r[2] => r[1] <= other[1]
  BY DEF Generated, Deduplicated, built
<1>4. PICK k \in 1 .. Len(built) : \E u \in segs \cap Actionable :
          Overlaps(u, built[k].from, built[k].to) /\ r = <<built[k].index, u>>
  BY <1>2, <1>3 DEF Drafts
<1>5. PICK u \in segs \cap Actionable :
          Overlaps(u, built[k].from, built[k].to) /\ r = <<built[k].index, u>>
  BY <1>4
<1>6. r = <<k - 1, u>> /\ k \in Nat /\ k - 1 \in Nat /\ (k - 1) + 1 = k
  BY <1>1, <1>2, <1>5
<1>7. ASSUME NEW j \in 1 .. Len(built), Overlaps(u, built[j].from, built[j].to)
      PROVE  k <= j
  <2>1. <<j - 1, u>> \in Drafts(segs, built)
    BY <1>1, <1>2, <1>7 DEF Drafts
  <2>2. k - 1 <= j - 1
    BY <1>3, <1>6, <2>1
  <2> QED BY <1>2, <1>6, <2>2
<1>8. r[1] = k - 1 /\ r[2] = u /\ r[1] + 1 = k
  BY <1>6
<1> QED
  BY <1>5, <1>6, <1>7, <1>8 DEF built

\* An utterance keeps its record, id included, when the transcript goes on.
LEMMA SameRecord ==
    ASSUME NEW early \in SUBSET Utterances, NEW late \in SUBSET Utterances, Begins(early, late),
           NEW f \in BOOLEAN, NEW g \in BOOLEAN,
           NEW r \in Generated(early, Chapters(early, f)),
           NEW s \in Generated(late, Chapters(late, g)), r[2] = s[2]
    PROVE  r = s
<1> DEFINE short == Chapters(early, f)
           long  == Chapters(late, g)
           u == r[2]
           i == r[1] + 1
           j == s[1] + 1
<1>1. /\ short \in Seq(Chapter) /\ long \in Seq(Chapter)
      /\ Len(short) \in Nat /\ Len(long) \in Nat
      /\ \A k \in 1 .. Len(short) : short[k] \in Chapter
      /\ \A k \in 1 .. Len(long) : long[k] \in Chapter
  <2>1. short \in Seq(Chapter) /\ long \in Seq(Chapter)
    BY ChaptersNumbered
  <2> HIDE DEF short, long
  <2> QED BY <2>1
<1>2. /\ r = <<r[1], u>> /\ r[1] \in Nat /\ i \in 1 .. Len(short)
      /\ Overlaps(u, short[i].from, short[i].to)
      /\ \A k \in 1 .. Len(short) : Overlaps(u, short[k].from, short[k].to) => i <= k
      /\ u \in early
  BY RecordIs
<1>3. /\ s = <<s[1], u>> /\ s[1] \in Nat /\ j \in 1 .. Len(long)
      /\ Overlaps(u, long[j].from, long[j].to)
      /\ \A k \in 1 .. Len(long) : Overlaps(u, long[k].from, long[k].to) => j <= k
  BY RecordIs
<1>4. /\ \A k \in 1 .. Len(short) : k <= Len(long) =>
             /\ long[k].from = short[k].from /\ short[k].to <= long[k].to
             /\ k # Len(short) => long[k] = short[k]
  BY ChaptersSimilar DEF Similar
<1>5. Start[u] \in Nat /\ End[u] \in Nat
  BY <1>2, TimesAreSeconds
<1> HIDE DEF short, long, u
<1>6. i \in Nat /\ j \in Nat /\ i <= Len(short) /\ j <= Len(long) /\ i >= 1 /\ j >= 1
  BY <1>1, <1>2, <1>3
<1>7. ASSUME j < i PROVE FALSE
  <2>1. j \in 1 .. Len(short) /\ j # Len(short)
    BY <1>1, <1>6, <1>7
  <2>2. long[j] = short[j]
    BY <1>4, <1>6, <2>1
  <2>3. i <= j
    BY <1>2, <1>3, <2>1, <2>2
  <2> QED BY <1>6, <1>7, <2>3
<1>8. j <= i
  <2>1. CASE i <= Len(long)
    <3>1. i \in 1 .. Len(long)
      BY <1>1, <1>6, <2>1
    <3>2. long[i].from = short[i].from /\ short[i].to <= long[i].to
      BY <1>2, <1>4, <2>1
    <3>3. short[i].to \in Nat /\ long[i].to \in Nat /\ short[i].from \in Nat
      BY <1>1, <1>2, <3>1 DEF Chapter
    <3> DEFINE a == short[i].to
               b == long[i].to
    <3>4. Start[u] < a /\ a <= b /\ a \in Nat /\ b \in Nat /\ End[u] > short[i].from
      BY <1>2, <3>2, <3>3 DEF Overlaps
    <3>5. Overlaps(u, long[i].from, b)
      <4> HIDE DEF a, b
      <4>1. Start[u] < b
        BY <1>5, <3>4
      <4> QED BY <3>2, <3>4, <4>1 DEF Overlaps
    <3> QED BY <1>3, <3>1, <3>5
  <2>2. CASE ~ i <= Len(long)
    BY <1>1, <1>6, <2>2
  <2> QED BY <2>1, <2>2
<1>9. i = j
  BY <1>6, <1>7, <1>8
<1> QED
  BY <1>2, <1>3, <1>9

--------------------------------------------------------------------------------
\* The rows are those of a rewrite, if there was one.
PipelineInv ==
    /\ segments \subseteq Utterances
    /\ \/ rows = {}
       \/ \E segs \in SUBSET Utterances, finalize \in BOOLEAN :
              rows = Generated(segs, Chapters(segs, finalize))

\* A step of the meeting keeps the rows or rewrites them from the segments it leaves.
LEMMA MeetingWrites ==
    ASSUME MeetingNext
    PROVE  \/ UNCHANGED rows
           \/ \E finalize \in BOOLEAN : Materialize(segments', finalize)
<1>1. ASSUME NEW s, SetStatus(s)
      PROVE  UNCHANGED rows \/ \E finalize \in BOOLEAN : Materialize(segments', finalize)
  BY <1>1 DEF SetStatus
<1>2. ASSUME NEW c \in Chunks, BeginTranscription(c) PROVE UNCHANGED rows
  BY <1>2 DEF BeginTranscription
<1>3. ASSUME NEW c \in Chunks, NEW fails \in BOOLEAN, StoreSegments(c, fails)
      PROVE  UNCHANGED rows \/ \E finalize \in BOOLEAN : Materialize(segments', finalize)
  <2>1. UNCHANGED rows \/ Materialize(segments', meetingStatus = "stopped")
    BY <1>3 DEF StoreSegments
  <2> QED BY <2>1
<1>4. ASSUME ReadMemory PROVE \E finalize \in BOOLEAN : Materialize(segments', finalize)
  BY <1>4 DEF ReadMemory
<1>5. ASSUME TimePasses PROVE UNCHANGED rows
  BY <1>5 DEF TimePasses
<1> QED
  BY <1>1, <1>2, <1>3, <1>4, <1>5 DEF MeetingNext

\* How a step of the meeting changes the transcript.
LEMMA MeetingStores ==
    ASSUME MeetingNext, segments \subseteq Utterances
    PROVE  /\ segments' \subseteq Utterances
           /\ ordered' => ordered /\ Begins(segments, segments')
<1>1. ASSUME UNCHANGED <<segments, ordered>>
      PROVE  segments' \subseteq Utterances /\ (ordered' => ordered /\ Begins(segments, segments'))
  BY <1>1 DEF Begins
<1>2. ASSUME NEW c \in Chunks, NEW fails \in BOOLEAN, StoreSegments(c, fails)
      PROVE  segments' \subseteq Utterances /\ (ordered' => ordered /\ Begins(segments, segments'))
  <2>1. Said[c] \subseteq Utterances
    BY EveryUtteranceHasItsChunk
  <2>2. segments' = segments \cup Said[c]
    BY <1>2 DEF StoreSegments
  <2>3. ordered' => ordered /\ \A u \in Said[c], v \in segments :
                                   Start[v] <= Start[u] /\ End[v] <= End[u]
    BY <1>2 DEF StoreSegments
  <2> QED BY <2>1, <2>2, <2>3 DEF Begins
<1>3. ASSUME NEW s, SetStatus(s) PROVE UNCHANGED <<segments, ordered>>
  BY <1>3 DEF SetStatus
<1>4. ASSUME NEW c \in Chunks, BeginTranscription(c) PROVE UNCHANGED <<segments, ordered>>
  BY <1>4 DEF BeginTranscription
<1>5. ASSUME ReadMemory PROVE UNCHANGED <<segments, ordered>>
  BY <1>5 DEF ReadMemory
<1>6. ASSUME TimePasses PROVE UNCHANGED <<segments, ordered>>
  BY <1>6 DEF TimePasses
<1> QED
  BY <1>1, <1>2, <1>3, <1>4, <1>5, <1>6 DEF MeetingNext

\* The ingest reads the rows and never writes them.
LEMMA IngestOnlyReads ==
    ASSUME IngestNext
    PROVE  UNCHANGED rows
BY DEF IngestNext, MintRun, ReadPromotedCandidates, ReadLedger, FinishRun, ProposeCandidate

\* The invariant holds of a meeting that nobody has recorded.
LEMMA PipelineInitInv == PipelineInit => PipelineInv
BY DEF PipelineInit, Init, MeetingInit, PipelineInv

\* Every step of the meeting and of the ingest keeps it.
LEMMA PipelineStepInv ==
    PipelineInv /\ [PipelineNext]_<<rows, ingestVars, meetingVars>> => PipelineInv'
<1> SUFFICES ASSUME PipelineInv, [PipelineNext]_<<rows, ingestVars, meetingVars>>
             PROVE  PipelineInv'
  OBVIOUS
<1> USE DEF PipelineInv
<1>1. CASE MeetingNext
  <2>1. segments' \subseteq Utterances
    BY <1>1, MeetingStores
  <2>2. CASE UNCHANGED rows
    BY <2>1, <2>2
  <2>3. CASE \E finalize \in BOOLEAN : Materialize(segments', finalize)
    BY <2>1, <2>3 DEF Materialize
  <2> QED BY <1>1, <2>2, <2>3, MeetingWrites
<1>2. CASE IngestNext /\ UNCHANGED meetingVars
  BY <1>2, IngestOnlyReads DEF meetingVars
<1>3. CASE UNCHANGED <<rows, ingestVars, meetingVars>>
  BY <1>3 DEF meetingVars
<1> QED
  BY <1>1, <1>2, <1>3 DEF PipelineNext

\* It holds throughout.
LEMMA PipelineInvHolds == PipelineSpec => []PipelineInv
BY PipelineInitInv, PipelineStepInv, PTL DEF PipelineSpec

\* Whatever the recorder, the uploads and the readers do, the meeting API is to the
\* ingest nothing but somebody who rewrites the rows: the pipeline implements the
\* ingest with any rewriting (the ingest shares only action_items with the API).
THEOREM PipelineImplementsIngest == PipelineSpec => Spec
<1>1. PipelineInit => Init
  BY DEF PipelineInit
<1>2. PipelineInv /\ PipelineInv' /\ [PipelineNext]_<<rows, ingestVars, meetingVars>>
          => [Next]_<<rows, ingestVars>>
  <2> SUFFICES ASSUME PipelineInv', [PipelineNext]_<<rows, ingestVars, meetingVars>>
               PROVE  [Next]_<<rows, ingestVars>>
    OBVIOUS
  <2>1. CASE MeetingNext /\ UNCHANGED ingestVars
    <3>1. rows' \in SUBSET Records
      BY RecordsAreGenerated DEF PipelineInv
    <3> QED BY <2>1, <3>1 DEF Next, Rematerialize
  <2>2. CASE IngestNext
    BY <2>2 DEF Next
  <2>3. CASE UNCHANGED <<rows, ingestVars, meetingVars>>
    BY <2>3
  <2> QED BY <2>1, <2>2, <2>3 DEF PipelineNext
<1> QED
  BY <1>1, <1>2, PipelineInvHolds, PTL DEF PipelineSpec, Spec

\* So in the whole pipeline a record id becomes at most one proposal.
THEOREM PipelineProposesAtMostOnce == PipelineSpec => []OneProposalPerRecord
BY PipelineImplementsIngest, ProposedAtMostOnce, PTL

\* And a completed run has left nothing, whatever the meeting API rewrote meanwhile.
THEOREM PipelineCompletionMeansProposed == PipelineSpec => []CompletedRunLeftNothing
BY PipelineImplementsIngest, CompletionMeansProposed, PTL

\* However the windows are moved, skipped or cut, the chapters of any transcript follow
\* one another and lose no segment before their end (_build_chapter_summaries).
THEOREM ChaptersCover == PipelineSpec => []ChaptersCoverTheTranscript
<1>1. PipelineInv => ChaptersCoverTheTranscript
  <2> SUFFICES ASSUME PipelineInv, NEW finalize \in BOOLEAN
               PROVE  LET built == Chapters(segments, finalize)
                      IN /\ \A k \in 1..(Len(built) - 1) : built[k].to <= built[k + 1].from
                         /\ \A u \in segments :
                                built # <<>> /\ Start[u] < built[Len(built)].to
                                  => \E k \in DOMAIN built : Overlaps(u, built[k].from, built[k].to)
    BY DEF ChaptersCoverTheTranscript
  <2> DEFINE built == Chapters(segments, finalize)
  <2>1. segments \in SUBSET Utterances
    BY DEF PipelineInv
  <2>2. PICK loop \in LoopState : built = loop.built /\ LoopInv(segments, loop)
    BY <2>1, ChaptersAre
  <2> HIDE DEF built
  <2>3. built \in Seq(Chapter) /\ Len(built) \in Nat /\ loop.from \in Nat
    BY <2>2 DEF LoopState
  <2>4. ASSUME NEW u \in segments, built # <<>>, Start[u] < built[Len(built)].to
        PROVE  \E k \in DOMAIN built : Overlaps(u, built[k].from, built[k].to)
    <3>1. Len(built) \in 1 .. Len(built)
      BY <2>3, <2>4
    <3>2. built[Len(built)].to <= loop.from /\ built[Len(built)].to \in Nat
      <4>1. built[Len(built)] \in Chapter
        BY <2>3, <3>1
      <4>2. \A k \in 1 .. Len(built) : built[k].to <= loop.from
        BY <2>2 DEF LoopInv
      <4> QED BY <3>1, <4>1, <4>2 DEF Chapter
    <3>3. Start[u] \in Nat
      BY <2>1, TimesAreSeconds
    <3> DEFINE end == built[Len(built)].to
    <3>4. end \in Nat /\ end <= loop.from /\ Start[u] < end
      BY <2>4, <3>2
    <3> HIDE DEF end
    <3>5. Start[u] < loop.from
      BY <2>3, <3>3, <3>4
    <3> QED BY <2>2, <2>3, <3>5 DEF LoopInv
  <2>5. \A k \in 1..(Len(built) - 1) : built[k].to <= built[k + 1].from
    BY <2>2 DEF LoopInv
  <2> QED BY <2>4, <2>5 DEF built
<1> QED
  BY <1>1, PipelineInvHolds, PTL

\* An utterance across a boundary, drafted in two chapters, is one record
\* (dedupe_generated_records_across_chapters).
THEOREM RecordsAreUnique == PipelineSpec => []OneRecordPerUtterance
<1>1. PipelineInv => OneRecordPerUtterance
  <2> SUFFICES ASSUME PipelineInv, NEW r \in rows, NEW s \in rows, r[2] = s[2]
               PROVE  r = s
    BY DEF OneRecordPerUtterance
  <2>1. PICK segs \in SUBSET Utterances, finalize \in BOOLEAN :
            rows = Generated(segs, Chapters(segs, finalize))
    BY DEF PipelineInv
  <2>2. Begins(segs, segs)
    BY DEF Begins
  <2> QED BY <2>1, <2>2, SameRecord
<1> QED
  BY <1>1, PipelineInvHolds, PTL

--------------------------------------------------------------------------------
\* The ingest has met the record "r", or may meet it.
Met(r) ==
    \/ r \in rows
    \/ \E i \in Requests : r \in candidates[i] \/ r \in todo[i]
    \/ \E p \in proposals : p[2] = r

\* Only those of rewrites of beginnings of the transcript, each a beginning of the next.
InOrderInv ==
    ordered => \E past \in SUBSET SUBSET Utterances :
        /\ \A segs \in past : Begins(segs, segments)
        /\ \A early, late \in past : Begins(early, late) \/ Begins(late, early)
        /\ \A r \in Records : Met(r) =>
               \E segs \in past, finalize \in BOOLEAN :
                   r \in Generated(segs, Chapters(segs, finalize))

\* A beginning of a beginning is one.
LEMMA BeginsTransitive ==
    ASSUME NEW a, NEW b, NEW c, Begins(a, b), Begins(b, c)
    PROVE  Begins(a, c)
BY DEF Begins

\* At first nothing has been met.
LEMMA InOrderInit == PipelineInit => InOrderInv
<1> SUFFICES ASSUME PipelineInit PROVE InOrderInv
  OBVIOUS
<1>1. \A r \in Records : ~ Met(r)
  BY DEF PipelineInit, Init, IngestInit, Met
<1> DEFINE none == {}
<1>2. none \in SUBSET SUBSET Utterances
  OBVIOUS
<1> QED
  BY <1>1, <1>2 DEF InOrderInv

\* The ingest meets nothing that it has not met.
LEMMA IngestMeets ==
    ASSUME IngestTypeOK, IngestNext, NEW r, Met(r)'
    PROVE  Met(r)
<1>1. ASSUME NEW i \in Requests, MintRun(i) \/ FinishRun(i) PROVE Met(r)
  BY <1>1 DEF MintRun, FinishRun, Met
<1>2. ASSUME NEW i \in Requests, ReadPromotedCandidates(i) PROVE Met(r)
  <2>1. UNCHANGED <<rows, todo, proposals>>
    BY <1>2 DEF ReadPromotedCandidates
  <2>2. \A j \in Requests : candidates'[j] \subseteq candidates[j] \cup rows
    BY <1>2 DEF ReadPromotedCandidates, IngestTypeOK
  <2> QED BY <2>1, <2>2 DEF Met
<1>3. ASSUME NEW i \in Requests, ReadLedger(i) PROVE Met(r)
  <2>1. UNCHANGED <<rows, candidates, proposals>>
    BY <1>3 DEF ReadLedger
  <2>2. \A j \in Requests : todo'[j] \subseteq todo[j] \cup candidates[j]
    BY <1>3 DEF ReadLedger, IngestTypeOK
  <2> QED BY <2>1, <2>2 DEF Met
<1>4. ASSUME NEW i \in Requests, NEW s \in Records, ProposeCandidate(i, s) PROVE Met(r)
  <2>1. UNCHANGED <<rows, candidates>> /\ \A j \in Requests : todo'[j] \subseteq todo[j]
    BY <1>4 DEF ProposeCandidate, IngestTypeOK
  <2>2. s \in todo[i] /\ \A p \in proposals' : p \in proposals \/ p[2] = s
    BY <1>4 DEF ProposeCandidate
  <2> QED BY <2>1, <2>2 DEF Met
<1> QED
  BY <1>1, <1>2, <1>3, <1>4 DEF IngestNext

\* A rewrite meets records of the transcript as it is then, of which all earlier ones
\* are beginnings.
LEMMA InOrderStep ==
    PipelineInv /\ PipelineInv' /\ IngestTypeOK /\ InOrderInv
        /\ [PipelineNext]_<<rows, ingestVars, meetingVars>> => InOrderInv'
<1> SUFFICES ASSUME PipelineInv, PipelineInv', IngestTypeOK, InOrderInv,
                    [PipelineNext]_<<rows, ingestVars, meetingVars>>
             PROVE  InOrderInv'
  OBVIOUS
<1>0. CASE ~ ordered'
  BY <1>0 DEF InOrderInv
<1>1. ASSUME UNCHANGED <<segments, ordered>>, \A r \in Records : Met(r)' => Met(r)
      PROVE  InOrderInv'
  BY <1>1 DEF InOrderInv
<1>2. CASE MeetingNext /\ UNCHANGED ingestVars /\ ordered'
  <2>1. ordered /\ Begins(segments, segments') /\ segments' \in SUBSET Utterances
    BY <1>2, MeetingStores DEF PipelineInv
  <2>2. PICK past \in SUBSET SUBSET Utterances :
            /\ \A segs \in past : Begins(segs, segments)
            /\ \A early, late \in past : Begins(early, late) \/ Begins(late, early)
            /\ \A r \in Records : Met(r) =>
                   \E segs \in past, finalize \in BOOLEAN :
                       r \in Generated(segs, Chapters(segs, finalize))
    BY <2>1 DEF InOrderInv
  <2> DEFINE now == past \cup {segments'}
  <2>3. now \in SUBSET SUBSET Utterances
    BY <2>1
  <2>4. Begins(segments', segments')
    BY DEF Begins
  <2>5. \A segs \in now : Begins(segs, segments')
    BY <2>1, <2>2, <2>4, BeginsTransitive
  <2>6. \A early, late \in now : Begins(early, late) \/ Begins(late, early)
    BY <2>2, <2>5
  <2>7. \A r \in Records : Met(r)' => Met(r) \/ (r \in rows' /\ ~ UNCHANGED rows)
    BY <1>2 DEF Met, ingestVars
  <2>8. ASSUME NEW r \in Records, Met(r)'
        PROVE  \E segs \in now, finalize \in BOOLEAN :
                   r \in Generated(segs, Chapters(segs, finalize))
    <3>1. CASE Met(r)
      BY <2>2, <3>1
    <3>2. CASE r \in rows' /\ ~ UNCHANGED rows
      <4>1. PICK finalize \in BOOLEAN : rows' = Generated(segments', Chapters(segments', finalize))
        BY <1>2, <3>2, MeetingWrites DEF Materialize
      <4> QED BY <3>2, <4>1
    <3> QED BY <2>7, <2>8, <3>1, <3>2
  <2> HIDE DEF now
  <2> QED BY <2>3, <2>5, <2>6, <2>8 DEF InOrderInv
<1>3. CASE IngestNext /\ UNCHANGED meetingVars
  BY <1>1, <1>3, IngestMeets DEF meetingVars
<1>4. CASE UNCHANGED <<rows, ingestVars, meetingVars>>
  BY <1>1, <1>4 DEF meetingVars, ingestVars, Met
<1> QED
  BY <1>0, <1>2, <1>3, <1>4 DEF PipelineNext

\* As long as the segments arrive in order, an utterance becomes at most one proposal,
\* whatever was finalized, resumed and rewritten in between: a chapter that another
\* follows is never built differently from a longer transcript, so a record keeps the
\* index its id is made of.
THEOREM InOrderProposedOnce == PipelineSpec => []ProposedOnceInOrder
<1>1. Spec => []IngestTypeOK /\ []OneProposalPerRecord
  <2>1. IngestInv => IngestTypeOK /\ OneProposalPerRecord
    BY DEF IngestInv
  <2> QED BY <2>1, InvHolds, PTL
<1>2. InOrderInv /\ IngestTypeOK /\ OneProposalPerRecord => ProposedOnceInOrder
  <2> SUFFICES ASSUME InOrderInv, IngestTypeOK, OneProposalPerRecord, ordered,
                      NEW p \in proposals, NEW q \in proposals, p # q, p[2][2] = q[2][2]
               PROVE  FALSE
    BY DEF ProposedOnceInOrder, ProposedOnce, ProposedTwice
  <2>1. PICK past \in SUBSET SUBSET Utterances :
            /\ \A early, late \in past : Begins(early, late) \/ Begins(late, early)
            /\ \A r \in Records : Met(r) =>
                   \E segs \in past, finalize \in BOOLEAN :
                       r \in Generated(segs, Chapters(segs, finalize))
    BY DEF InOrderInv
  <2>2. p[2] \in Records /\ q[2] \in Records /\ Met(p[2]) /\ Met(q[2])
    BY DEF Met, IngestTypeOK, ProposalIds
  <2>3. PICK A \in past, f \in BOOLEAN : p[2] \in Generated(A, Chapters(A, f))
    BY <2>1, <2>2
  <2>4. PICK B \in past, g \in BOOLEAN : q[2] \in Generated(B, Chapters(B, g))
    BY <2>1, <2>2
  <2>5. A \in SUBSET Utterances /\ B \in SUBSET Utterances
    OBVIOUS
  <2>6. CASE Begins(A, B)
    <3>1. p[2] = q[2]
      BY <2>3, <2>4, <2>5, <2>6, SameRecord
    <3> QED BY <3>1 DEF OneProposalPerRecord
  <2>7. CASE Begins(B, A)
    <3>1. q[2] = p[2]
      BY <2>3, <2>4, <2>5, <2>7, SameRecord
    <3> QED BY <3>1 DEF OneProposalPerRecord
  <2> QED BY <2>1, <2>6, <2>7
<1> QED
  BY <1>1, <1>2, PipelineImplementsIngest, PipelineInvHolds, InOrderInit, InOrderStep, PTL
     DEF PipelineSpec
================================================================================
