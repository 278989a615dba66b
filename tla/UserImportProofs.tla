-------------------------- MODULE UserImportProofs --------------------------
(***************************************************************************)
(* Proofs about UserImport, for any people, accounts, listings, pages,     *)
(* batches and rounds, and any number of scans and imports at a time: the  *)
(* types, what a person is offered, what a scan shows and what an import   *)
(* answers.                                                                *)
(***************************************************************************)
EXTENDS UserImport, SequenceTheorems, FiniteSetTheorems, WellFoundedInduction, TLAPS

(* Recursion.  The library's theorems about it take an operator as a       *)
(* parameter; what is needed here is stated about sets and functions.      *)

\* Induction up to N: the least number outside S would have its predecessor in S.
LEMMA SetInduction ==
  ASSUME NEW S, NEW N \in Nat, 0 \in S, \A n \in 0..(N - 1) : n \in S => n + 1 \in S
  PROVE  0..N \subseteq S
<1> DEFINE T == (0..N) \ S
<1> SUFFICES ASSUME T # {} PROVE FALSE OBVIOUS
<1>1. T \subseteq Nat OBVIOUS
<1> HIDE DEF T
<1>2. PICK m \in T : \A k \in T : <<k, m>> \notin OpToRel(<, Nat)
  BY <1>1, WFMin, NatLessThanWellFounded
<1>3. \A k \in T : ~(k < m) BY <1>1, <1>2 DEF OpToRel
<1>4. m \in 0..N /\ m \notin S BY DEF T
<1>5. m # 0 BY <1>4
<1>6. m - 1 \in 0..(N - 1) /\ m - 1 \in 0..N /\ m - 1 < m BY <1>4, <1>5
<1>7. m - 1 \in S BY <1>3, <1>6 DEF T
<1> QED BY <1>4, <1>6, <1>7

\* g is defined by recursion up to N, from d by the steps in next.
Recurs(g, N, D, d, next) ==
  g \in [0..N -> D] /\ g[0] = d /\ \A n \in 1..N : g[n] = next[n][g[n - 1]]

\* What is defined by recursion exists.
LEMMA Recursion ==
  ASSUME NEW N \in Nat, NEW D, NEW d \in D, NEW next, next \in [1..N -> [D -> D]]
  PROVE  \E g : Recurs(g, N, D, d, next)
<1> DEFINE Upto(g, n) == g \in [0..n -> D] /\ g[0] = d /\ \A k \in 1..n : g[k] = next[k][g[k - 1]]
           S == {n \in 0..N : \E g : Upto(g, n)}
<1>1. 0 \in S
  <2>1. Upto([k \in 0..0 |-> d], 0) OBVIOUS
  <2> HIDE DEF Upto
  <2> QED BY <2>1
<1>2. ASSUME NEW n \in 0..(N - 1), n \in S PROVE n + 1 \in S
  <2>1. PICK g : Upto(g, n) BY <1>2
  <2> DEFINE h == [k \in 0..(n + 1) |-> IF k = n + 1 THEN next[n + 1][g[n]] ELSE g[k]]
  <2>2. n + 1 \in 1..N /\ n \in 0..n OBVIOUS
  <2>3. next[n + 1][g[n]] \in D BY <2>1, <2>2
  <2>4. h \in [0..(n + 1) -> D] BY <2>1, <2>3
  <2>5. h[0] = d BY <2>1
  <2>6. ASSUME NEW k \in 1..(n + 1) PROVE h[k] = next[k][h[k - 1]]
    <3>1. k - 1 \in 0..n /\ k \in 0..(n + 1) OBVIOUS
    <3>2. h[k - 1] = g[k - 1] BY <3>1
    <3>3. CASE k = n + 1 BY <3>1, <3>2, <3>3
    <3>4. CASE k # n + 1 BY <2>1, <3>1, <3>2, <3>4
    <3> QED BY <3>3, <3>4
  <2>7. Upto(h, n + 1) BY <2>4, <2>5, <2>6
  <2>8. n + 1 \in 0..N OBVIOUS
  <2> HIDE DEF h, Upto
  <2> QED BY <2>7, <2>8
<1> HIDE DEF S
<1>3. 0..N \subseteq S BY <1>1, <1>2, SetInduction
<1>4. N \in S BY <1>3
<1> QED BY <1>4 DEF S, Recurs

-----------------------------------------------------------------------------
(* Sequences: what Chosen and Slice return. *)

\* The chosen elements are a sequence of what was chosen.
LEMMA ChosenType ==
  ASSUME NEW D, NEW seq, Len(seq) \in Nat, NEW at, \A n \in 1..Len(seq) : n \in at => seq[n] \in D
  PROVE  Chosen(seq, at) \in Seq(D)
<1> DEFINE N == Len(seq)
           more(x, n) == IF n \in at THEN Append(x, seq[n]) ELSE x
           next == [n \in 1..N |-> [x \in Seq(D) |-> more(x, n)]]
           upto == CHOOSE f : f = [n \in 0..N |->
                     IF n = 0 THEN <<>> ELSE IF n \in at THEN Append(f[n - 1], seq[n]) ELSE f[n - 1]]
<1>1. N \in Nat /\ <<>> \in Seq(D) OBVIOUS
<1>2. next \in [1..N -> [Seq(D) -> Seq(D)]]
  <2>1. \A n \in 1..N, x \in Seq(D) : more(x, n) \in Seq(D) OBVIOUS
  <2> HIDE DEF more
  <2> QED BY <2>1
<1>3. PICK g : Recurs(g, N, Seq(D), <<>>, next)
  <2> HIDE DEF next, N
  <2> QED BY <1>1, <1>2, Recursion
<1>4. \A n \in 0..N : n # 0 => n \in 1..N /\ n - 1 \in 0..N BY <1>1
<1>5. \A n \in 1..N : g[n] = more(g[n - 1], n)
  <2> HIDE DEF N, more
  <2>1. \A n \in 1..N : n - 1 \in 0..N BY <1>1
  <2> QED BY <1>3, <2>1 DEF Recurs
<1>6. g = [n \in 0..N |-> IF n = 0 THEN <<>> ELSE IF n \in at THEN Append(g[n - 1], seq[n]) ELSE g[n - 1]]
  <2>1. g = [n \in 0..N |-> g[n]] BY <1>3 DEF Recurs
  <2> HIDE DEF N
  <2> QED BY <1>3, <1>4, <1>5, <2>1 DEF Recurs
<1>7. upto = [n \in 0..N |->
                IF n = 0 THEN <<>> ELSE IF n \in at THEN Append(upto[n - 1], seq[n]) ELSE upto[n - 1]]
  BY <1>6
<1>8. Chosen(seq, at) = upto[N] BY DEF Chosen
<1> HIDE DEF upto
<1> DEFINE S == {n \in 0..N : upto[n] \in Seq(D)}
<1>9. 0 \in S BY <1>1, <1>7
<1>10. ASSUME NEW n \in 0..(N - 1), n \in S PROVE n + 1 \in S
  <2>1. n + 1 \in 0..N /\ n + 1 # 0 /\ n + 1 \in 1..N BY <1>1
  <2>2. upto[n + 1] = IF n + 1 \in at THEN Append(upto[n], seq[n + 1]) ELSE upto[n]
    <3> HIDE DEF N
    <3>1. \A k \in 0..N : k # 0 =>
            upto[k] = IF k \in at THEN Append(upto[k - 1], seq[k]) ELSE upto[k - 1]
      BY <1>7
    <3>2. n + 1 - 1 = n OBVIOUS
    <3> QED BY <2>1, <3>1, <3>2
  <2>3. upto[n + 1] \in Seq(D) BY <1>10, <2>1, <2>2
  <2> QED BY <2>1, <2>3
<1> HIDE DEF S, N
<1>11. 0..N \subseteq S BY <1>1, <1>9, <1>10, SetInduction
<1>12. N \in S BY <1>1, <1>11
<1> QED BY <1>8, <1>12 DEF S

\* The people of a list are people.
LEMMA PeopleType == \A got \in Seq(Persons) : People(got) \in Seq(Humans)
<1> SUFFICES ASSUME NEW got \in Seq(Persons) PROVE People(got) \in Seq(Humans) OBVIOUS
<1> DEFINE at == {n \in DOMAIN got : got[n] \in Humans}
<1>1. Len(got) \in Nat /\ \A n \in 1..Len(got) : n \in at => got[n] \in Humans OBVIOUS
<1> HIDE DEF at
<1>2. Chosen(got, at) \in Seq(Humans) BY <1>1, ChosenType
<1> QED BY <1>2 DEF People, at

\* Ticked rows of a page are rows of it.
LEMMA TickedType == \A page \in Seq(ResultType) : \A s : Ticked(page, s) \in Seq(ResultType)
<1> SUFFICES ASSUME NEW page \in Seq(ResultType), NEW s PROVE Ticked(page, s) \in Seq(ResultType) OBVIOUS
<1> DEFINE at == {n \in DOMAIN page : page[n].person \in s /\ page[n].status # "existing"}
<1>1. Len(page) \in Nat /\ \A n \in 1..Len(page) : n \in at => page[n] \in ResultType OBVIOUS
<1> HIDE DEF at
<1>2. Chosen(page, at) \in Seq(ResultType) BY <1>1, ChosenType
<1> QED BY <1>2 DEF Ticked, at

\* The elements of a slice, and how many there are.
LEMMA SliceFacts ==
  ASSUME NEW D, NEW seq \in Seq(D), NEW k \in Nat, NEW n \in Nat
  PROVE  /\ Slice(seq, k, n) \in Seq(D)
         /\ Len(Slice(seq, k, n)) = IF k >= Len(seq) THEN 0 ELSE IF k + n < Len(seq) THEN n ELSE Len(seq) - k
         /\ \A i \in 1..Len(Slice(seq, k, n)) : k + i \in 1..Len(seq) /\ Slice(seq, k, n)[i] = seq[k + i]
<1> DEFINE end == IF k + n < Len(seq) THEN k + n ELSE Len(seq)
<1>1. Len(seq) \in Nat /\ end \in Nat /\ end <= Len(seq) OBVIOUS
<1>2. \A i \in (k + 1)..end : seq[i] \in D BY <1>1
<1>3. Slice(seq, k, n) = SubSeq(seq, k + 1, end) BY DEF Slice
<1>4. end - (k + 1) + 1 = end - k /\ (k + 1 <= end <=> k < end) BY <1>1
<1>5. /\ SubSeq(seq, k + 1, end) \in Seq(D)
      /\ Len(SubSeq(seq, k + 1, end)) = IF k < end THEN end - k ELSE 0
      /\ \A i \in 1..(end - k) : SubSeq(seq, k + 1, end)[i] = seq[k + 1 + i - 1]
  <2> HIDE DEF end
  <2> QED BY <1>1, <1>2, <1>4, SubSeqProperties
<1>6. (IF k < end THEN end - k ELSE 0)
         = IF k >= Len(seq) THEN 0 ELSE IF k + n < Len(seq) THEN n ELSE Len(seq) - k
  BY <1>1
<1>7. ASSUME NEW i \in 1..Len(Slice(seq, k, n))
      PROVE  k + i \in 1..Len(seq) /\ Slice(seq, k, n)[i] = seq[k + i]
  <2> HIDE DEF end
  <2>1. i \in 1..(end - k) BY <1>1, <1>3, <1>5, <1>7
  <2>2. k + 1 + i - 1 = k + i /\ k + i \in 1..Len(seq) BY <1>1, <2>1
  <2> QED BY <1>3, <1>5, <2>1, <2>2
<1> HIDE DEF end
<1> QED BY <1>3, <1>5, <1>6, <1>7

\* Pages of a list that does not change add up to it.
LEMMA SlicesAddUp ==
  ASSUME NEW D, NEW seq \in Seq(D), NEW k \in Nat, NEW n \in Nat
  PROVE  /\ Slice(seq, 0, k) \o Slice(seq, k, n) = Slice(seq, 0, k + n)
         /\ k >= Len(seq) => Slice(seq, 0, k) = seq
         /\ n > 0 /\ Slice(seq, k, n) = <<>> => k >= Len(seq)
<1> DEFINE a == Slice(seq, 0, k)  b == Slice(seq, k, n)  c == Slice(seq, 0, k + n)
<1>1. Len(seq) \in Nat /\ 0 \in Nat /\ k + n \in Nat OBVIOUS
<1>2. /\ a \in Seq(D) /\ Len(a) = IF k < Len(seq) THEN k ELSE Len(seq)
      /\ \A i \in 1..Len(a) : a[i] = seq[i]
  <2>1. /\ Slice(seq, 0, k) \in Seq(D)
        /\ Len(Slice(seq, 0, k)) = IF 0 >= Len(seq) THEN 0 ELSE IF 0 + k < Len(seq) THEN k ELSE Len(seq) - 0
        /\ \A i \in 1..Len(Slice(seq, 0, k)) : 0 + i \in 1..Len(seq) /\ Slice(seq, 0, k)[i] = seq[0 + i]
    BY <1>1, SliceFacts
  <2> QED BY <1>1, <2>1
<1>3. /\ b \in Seq(D) /\ Len(b) = IF k >= Len(seq) THEN 0 ELSE IF k + n < Len(seq) THEN n ELSE Len(seq) - k
      /\ \A i \in 1..Len(b) : b[i] = seq[k + i]
  BY SliceFacts
<1>4. /\ c \in Seq(D) /\ Len(c) = IF k + n < Len(seq) THEN k + n ELSE Len(seq)
      /\ \A i \in 1..Len(c) : c[i] = seq[i]
  <2>1. /\ Slice(seq, 0, k + n) \in Seq(D)
        /\ Len(Slice(seq, 0, k + n))
             = IF 0 >= Len(seq) THEN 0 ELSE IF 0 + (k + n) < Len(seq) THEN k + n ELSE Len(seq) - 0
        /\ \A i \in 1..Len(Slice(seq, 0, k + n)) :
             0 + i \in 1..Len(seq) /\ Slice(seq, 0, k + n)[i] = seq[0 + i]
    BY <1>1, SliceFacts
  <2> QED BY <1>1, <2>1
<1> HIDE DEF a, b, c
<1>5. a \o b = c
  <2>1. /\ Len(a) = IF k < Len(seq) THEN k ELSE Len(seq)
        /\ Len(b) = IF k >= Len(seq) THEN 0 ELSE IF k + n < Len(seq) THEN n ELSE Len(seq) - k
        /\ Len(c) = IF k + n < Len(seq) THEN k + n ELSE Len(seq)
    BY <1>2, <1>3, <1>4
  <2>2. Len(a) + Len(b) = Len(c) /\ Len(a) \in Nat /\ Len(b) \in Nat /\ (Len(a) = k \/ Len(b) = 0)
    <3>1. CASE k >= Len(seq)
      <4>1. Len(a) = Len(seq) /\ Len(b) = 0 /\ Len(c) = Len(seq) BY <1>1, <2>1, <3>1
      <4> QED BY <1>1, <4>1
    <3>2. CASE k < Len(seq) /\ k + n < Len(seq)
      <4>1. Len(a) = k /\ Len(b) = n /\ Len(c) = k + n BY <1>1, <2>1, <3>2
      <4> QED BY <1>1, <4>1
    <3>3. CASE k < Len(seq) /\ ~(k + n < Len(seq))
      <4>1. Len(a) = k /\ Len(b) = Len(seq) - k /\ Len(c) = Len(seq) BY <1>1, <2>1, <3>3
      <4> QED BY <1>1, <3>3, <4>1
    <3> QED BY <1>1, <3>1, <3>2, <3>3
  <2>3. /\ a \o b \in Seq(D) /\ Len(a \o b) = Len(c)
        /\ \A i \in 1..(Len(a) + Len(b)) : (a \o b)[i] = IF i <= Len(a) THEN a[i] ELSE b[i - Len(a)]
    <3>1. a \in Seq(D) /\ b \in Seq(D) BY <1>2, <1>3
    <3>2. /\ a \o b \in Seq(D) /\ Len(a \o b) = Len(a) + Len(b)
          /\ \A i \in 1..(Len(a) + Len(b)) : (a \o b)[i] = IF i <= Len(a) THEN a[i] ELSE b[i - Len(a)]
      BY <3>1, ConcatProperties
    <3> QED BY <2>2, <3>2
  <2>4. ASSUME NEW i \in 1..Len(c) PROVE (a \o b)[i] = c[i]
    <3>1. c[i] = seq[i] /\ (a \o b)[i] = IF i <= Len(a) THEN a[i] ELSE b[i - Len(a)]
      BY <1>4, <2>2, <2>3
    <3>2. CASE i <= Len(a)
      <4>1. i \in 1..Len(a) BY <2>2, <3>2
      <4> QED BY <1>2, <3>1, <3>2, <4>1
    <3>3. CASE ~(i <= Len(a))
      <4>1. Len(a) = k /\ i - k \in 1..Len(b) /\ k + (i - k) = i BY <2>2, <3>3
      <4> QED BY <1>3, <3>1, <3>3, <4>1
    <3> QED BY <3>2, <3>3
  <2> QED BY <1>4, <2>3, <2>4, SeqEqual
<1>6. ASSUME k >= Len(seq) PROVE a = seq
  <2>1. Len(a) = Len(seq) BY <1>1, <1>2, <1>6
  <2> QED BY <1>2, <2>1, SeqEqual
<1>7. ASSUME n > 0, b = <<>> PROVE k >= Len(seq)
  <2>1. Len(b) = 0 BY <1>7
  <2> QED BY <1>1, <1>3, <1>7, <2>1
<1> QED BY <1>5, <1>6, <1>7 DEF a, b, c

-----------------------------------------------------------------------------
(* The invariant. *)

ScanRec == [op : {"scan"}, at : {"fetch", "match"}, known : SUBSET Persons, offset : Nat,
            listing : Listings, steady : BOOLEAN, got : Seq(Persons),
            batch : Seq(SearchType), results : Seq(ResultType)]
BulkRec == [op : {"bulk"}, at : {"check", "insert"}, body : Seq(ResultType), i : Nat,
            failed : BOOLEAN, created : SUBSET Persons,
            rows : [Persons -> Accounts \cup {Placeholder, NoRow}]]

\* A search has its answers in what it has seen, and goes on while none is good enough.
SearchFine(s) ==
  /\ s.seen = s.answers
  /\ Searching(s) => s.best = None /\ BestMatches(s.person, s.answers) = {}
  /\ ~Searching(s) => \/ s.best \in BestMatches(s.person, s.answers)
                      \/ s.best = None /\ (s.raised \/ BestMatches(s.person, s.answers) = {})

\* What was fetched of a list that has not changed is its beginning.
Fetching(q) ==
  /\ q.batch = <<>> /\ q.results = <<>>
  /\ q.steady => q.listing = listed /\ q.got = Slice(listed, 0, q.offset)

\* The people up to some place from where no user follows.
PeopleShown(list) == {People(Slice(list, 0, n)) : n \in {k \in 0..Len(list) : NoUserFollows(list, k)}}

\* The results, then the batch, follow the people of the list.
Matching(q) ==
  /\ q.got \in Seq(Humans) /\ (q.steady => q.got \in PeopleShown(q.listing))
  /\ Len(q.results) + Len(q.batch) <= Len(q.got)
  /\ \A i \in 1..Len(q.results) : q.results[i].person = q.got[i]
  /\ \A i \in 1..Len(q.batch) :
       q.batch[i].person = q.got[Len(q.results) + i] /\ SearchFine(q.batch[i])

ScanFine(q) ==
  /\ q \in ScanRec /\ Len(q.batch) <= BatchSize
  /\ q.at = "fetch" => Fetching(q)
  /\ q.at = "match" => Matching(q)

\* An import holds the rows it reports as created, as they were posted, for people who
\* have none; one that has failed holds none.
BulkFine(q) ==
  /\ q \in BulkRec /\ q.i \in 1..(Len(q.body) + 1)
  /\ q.failed => q.at = "check" /\ \A p \in Persons : q.rows[p] = NoRow
  /\ ~q.failed => \A p \in Persons : p \in q.created => q.rows[p] # NoRow
  /\ \A p \in Persons : q.rows[p] # NoRow =>
       /\ p \in q.created /\ users[p] = NoRow
       /\ \E i \in 1..Len(q.body) : q.body[i].person = p /\ q.rows[p] = RoomFor(q.body[i])

Fine(q) == q = Idle \/ ScanFine(q) \/ BulkFine(q)

Typed ==
  /\ listed \in Listings
  /\ users \in [Persons -> Rooms \cup {NoRow}]
  /\ pages \subseteq Seq(ResultType)
  /\ req \in [Requests -> {Idle} \cup ScanRec \cup BulkRec]
  /\ scans \in 0..MaxScans /\ imports \in 0..MaxImports /\ edits \in 0..MaxEdits

\* No two imports hold a row of the same person.
Exclusive ==
  \A q, r \in Requests : q # r /\ req[q].op = "bulk" /\ req[r].op = "bulk" =>
    \A p \in Persons : req[q].rows[p] = NoRow \/ req[r].rows[p] = NoRow

Inv == Typed /\ Exclusive /\ \A r \in Requests : Fine(req[r])

-----------------------------------------------------------------------------
\* The kinds of records tell themselves apart.
LEMMA Kinds ==
  ASSUME NEW q, Fine(q)
  PROVE  /\ q \in {Idle} \cup ScanRec \cup BulkRec
         /\ q.op = "scan" => ScanFine(q)
         /\ q.op = "bulk" => BulkFine(q)
         /\ q.op = "idle" => q = Idle
         /\ q = Idle => q.op = "idle"
<1>1. Idle.op = "idle" BY DEF Idle
<1>2. \A x \in ScanRec : x.op = "scan" BY DEF ScanRec
<1>3. \A x \in BulkRec : x.op = "bulk" BY DEF BulkRec
<1>4. (ScanFine(q) => q \in ScanRec) /\ (BulkFine(q) => q \in BulkRec) BY DEF ScanFine, BulkFine
<1> QED BY <1>1, <1>2, <1>3, <1>4 DEF Fine

LEMMA InvInit == Init => Inv
<1> SUFFICES ASSUME Init PROVE Inv OBVIOUS
<1>1. \A r \in Requests : req[r] = Idle BY DEF Init
<1>2. Idle.op # "bulk" BY DEF Idle
<1>3. Exclusive BY <1>1, <1>2 DEF Exclusive
<1>4. FirstPages \subseteq Seq(ResultType) BY ImportAssumption
<1>5. Typed
  <2>1. NoRow \in Rooms \cup {NoRow} OBVIOUS
  <2> QED BY <1>4, <2>1, ImportAssumption DEF Init, Typed
<1> QED BY <1>1, <1>3, <1>5 DEF Inv, Fine

\* A request goes on, and may show a page: the rest is as it was.
LEMMA RequestGoes ==
  ASSUME Inv, NEW r \in Requests, NEW new, Goes(r, new), Fine(new),
         new.op = "bulk" => \A p \in Persons : new.rows[p] # NoRow =>
                              \A q \in Requests : ~HeldBy(q, r, p),
         UNCHANGED <<listed, users>>, pages' \subseteq Seq(ResultType),
         scans' \in 0..MaxScans, imports' \in 0..MaxImports, edits' \in 0..MaxEdits
  PROVE  Inv'
<1>1. req \in [Requests -> {Idle} \cup ScanRec \cup BulkRec] BY DEF Inv, Typed
<1>2. \A q \in Requests : req'[q] = IF q = r THEN new ELSE req[q] BY <1>1 DEF Goes
<1>3. Typed'
  <2>1. new \in {Idle} \cup ScanRec \cup BulkRec BY Kinds
  <2>2. req' \in [Requests -> {Idle} \cup ScanRec \cup BulkRec] BY <1>1, <2>1 DEF Goes
  <2> QED BY <2>2 DEF Inv, Typed, ScanRec, BulkRec, Rooms
<1>4. ASSUME NEW q \in Requests PROVE Fine(req[q])'
  <2>1. Fine(req'[q]) BY <1>2 DEF Inv
  <2> QED BY <2>1 DEF Fine, ScanFine, Fetching, Matching, BulkFine, SearchFine, Searching
<1>5. Exclusive'
  <2> SUFFICES ASSUME NEW q \in Requests, NEW s \in Requests, q # s,
                      req'[q].op = "bulk", req'[s].op = "bulk", NEW p \in Persons
               PROVE  req'[q].rows[p] = NoRow \/ req'[s].rows[p] = NoRow
    BY DEF Exclusive
  <2>1. CASE q = r BY <1>2, <2>1 DEF HeldBy
  <2>2. CASE s = r BY <1>2, <2>2 DEF HeldBy
  <2>3. CASE q # r /\ s # r BY <1>2, <2>3 DEF Inv, Exclusive
  <2> QED BY <2>1, <2>2, <2>3
<1> QED BY <1>3, <1>4, <1>5 DEF Inv

-----------------------------------------------------------------------------
(* The scan. *)

LEMMA IdleFine == Fine(Idle) /\ Idle.op # "bulk" /\ Idle.op # "scan"
BY DEF Fine, Idle

\* What a request does changes no counter but its own.
LEMMA Bounds == Inv => scans \in 0..MaxScans /\ imports \in 0..MaxImports /\ edits \in 0..MaxEdits
                       /\ MaxScans \in Nat /\ MaxImports \in Nat /\ MaxEdits \in Nat /\ pages \subseteq Seq(ResultType)
BY ImportAssumption DEF Inv, Typed

\* A request that ends leaves the invariant; so does one that shows a page.
LEMMA EndsInv ==
  ASSUME Inv, NEW r \in Requests, Ends(r), pages' \subseteq Seq(ResultType), UNCHANGED <<listed, users, counters>>
  PROVE  Inv'
<1> USE DEF Ends, counters
<1> QED BY RequestGoes, IdleFine, Bounds

\* A scan that goes on leaves the invariant, if what it is afterwards is fine.
LEMMA ScanGoes ==
  ASSUME Inv, NEW r \in Requests, NEW new, ScanFine(new), Goes(r, new),
         UNCHANGED <<listed, users, pages, counters>>
  PROVE  Inv'
<1>1. Fine(new) /\ new.op # "bulk" BY DEF Fine, ScanFine, ScanRec
<1> QED BY <1>1, RequestGoes, Bounds DEF counters

LEMMA ScanStartInv == ASSUME Inv, NEW r \in Requests, ScanStart(r) PROVE Inv'
<1> DEFINE new == [op |-> "scan", at |-> "fetch", known |-> {p \in Persons : users[p] # NoRow},
                   offset |-> 0, listing |-> listed, steady |-> TRUE,
                   got |-> <<>>, batch |-> <<>>, results |-> <<>>]
<1>1. Goes(r, new) /\ UNCHANGED <<listed, users, pages, imports, edits>> BY DEF ScanStart
<1>2. scans' \in 0..MaxScans BY Bounds DEF ScanStart
<1>3. ScanFine(new)
  <2>1. Slice(listed, 0, 0) = <<>>
    <3>1. listed \in Seq(Persons) BY ImportAssumption DEF Inv, Typed
    <3>2. /\ Slice(listed, 0, 0) \in Seq(Persons)
          /\ Len(Slice(listed, 0, 0))
               = IF 0 >= Len(listed) THEN 0 ELSE IF 0 + 0 < Len(listed) THEN 0 ELSE Len(listed) - 0
      BY <3>1, SliceFacts
    <3>3. Len(Slice(listed, 0, 0)) = 0 BY <3>1, <3>2
    <3> QED BY <3>2, <3>3, EmptySeq
  <2>2. new \in ScanRec BY DEF ScanRec, Inv, Typed
  <2> QED BY <2>1, <2>2, ImportAssumption DEF ScanFine, Fetching
<1> HIDE DEF new
<1>4. Fine(new) /\ new.op # "bulk" BY <1>3 DEF Fine, ScanFine, ScanRec
<1> QED BY <1>1, <1>2, <1>4, RequestGoes, Bounds

\* A batch has the next people of the list, each with nothing seen yet.
LEMMA BatchFine ==
  ASSUME NEW got \in Seq(Humans), NEW done \in Nat, done <= Len(got)
  PROVE  /\ Batch(got, done) \in Seq(SearchType) /\ Len(Batch(got, done)) <= BatchSize
         /\ done + Len(Batch(got, done)) <= Len(got)
         /\ \A i \in 1..Len(Batch(got, done)) :
              Batch(got, done)[i].person = got[done + i] /\ SearchFine(Batch(got, done)[i])
<1> DEFINE next == Slice(got, done, BatchSize)
<1>1. BatchSize \in Nat /\ Stages \in Nat \ {0} /\ Humans \subseteq Persons
  BY ImportAssumption, MatchAssumption
<1>2. /\ next \in Seq(Humans)
      /\ Len(next) = IF done >= Len(got) THEN 0 ELSE IF done + BatchSize < Len(got) THEN BatchSize ELSE Len(got) - done
      /\ \A i \in 1..Len(next) : done + i \in 1..Len(got) /\ next[i] = got[done + i]
  <2>1. BatchSize \in Nat BY <1>1
  <2> QED BY <2>1, SliceFacts
<1>3. \A p \in Humans : NewSearch(p) \in SearchType /\ SearchFine(NewSearch(p)) /\ NewSearch(p).person = p
  BY <1>1 DEF NewSearch, SearchType, SearchFine, Searching, BestMatches
<1>4. Batch(got, done) = [i \in 1..Len(next) |-> NewSearch(next[i])] BY DEF Batch
<1> HIDE DEF next
<1>5. Len(next) \in Nat /\ \A i \in 1..Len(next) : next[i] \in Humans BY <1>2
<1>6. Batch(got, done) \in Seq(SearchType) /\ Len(Batch(got, done)) = Len(next)
  BY <1>3, <1>4, <1>5
<1>7. Len(next) <= BatchSize /\ done + Len(next) <= Len(got)
  <2>1. Len(got) \in Nat OBVIOUS
  <2> QED BY <1>1, <1>2, <2>1
<1>8. ASSUME NEW i \in 1..Len(Batch(got, done))
      PROVE  Batch(got, done)[i].person = got[done + i] /\ SearchFine(Batch(got, done)[i])
  <2>1. i \in 1..Len(next) BY <1>6, <1>8
  <2>2. Batch(got, done)[i] = NewSearch(next[i]) BY <1>4, <2>1
  <2> QED BY <1>2, <1>3, <1>5, <2>1, <2>2
<1> QED BY <1>6, <1>7, <1>8

\* The end of a list is a place from where no user follows, and so is what is beyond it.
LEMMA EndOfList ==
  ASSUME NEW list \in Seq(Persons), NEW k \in Nat,
         k >= Len(list) \/ Users(Slice(list, k, Limit)) = {}
  PROVE  \E n \in 0..Len(list) : NoUserFollows(list, n) /\ Slice(list, 0, k) = Slice(list, 0, n)
<1>1. Len(list) \in Nat /\ Limit \in Nat BY ImportAssumption
<1>2. CASE k >= Len(list)
  <2> DEFINE end == Len(list)
  <2>1. end \in Nat /\ end >= Len(list) /\ end \in 0..Len(list) BY <1>1
  <2> HIDE DEF end
  <2>2. Slice(list, 0, k) = list BY <1>1, <1>2, SlicesAddUp
  <2>3. Slice(list, 0, end) = list BY <1>1, <2>1, SlicesAddUp
  <2>4. Slice(list, end, Limit) \in Seq(Persons) /\ Len(Slice(list, end, Limit)) = 0
    BY <1>1, <2>1, SliceFacts
  <2>5. NoUserFollows(list, end) BY <2>4 DEF NoUserFollows, Users
  <2> QED BY <2>1, <2>2, <2>3, <2>5
<1>3. CASE ~(k >= Len(list))
  <2>1. k \in 0..Len(list) BY <1>1, <1>3
  <2> QED BY <1>3, <2>1 DEF NoUserFollows
<1> QED BY <1>2, <1>3

\* The list a steady scan has read goes as far as a page without a user.
LEMMA FetchedInv ==
  ASSUME Inv, NEW r \in Requests, Scanning(r, "fetch"), NEW got \in Seq(Persons),
         req[r].steady => /\ req[r].listing = listed
                          /\ \E n \in 0..Len(listed) : NoUserFollows(listed, n) /\ got = Slice(listed, 0, n),
         Fetched(r, got), UNCHANGED <<listed, users, pages, counters>>
  PROVE  Inv'
<1> DEFINE q == req[r]
           people == People(got)
           new == [q EXCEPT !.at = "match", !.offset = 0, !.got = people, !.batch = Batch(people, 0)]
<1>1. CASE people = <<>> BY <1>1, EndsInv, Bounds DEF Fetched
<1>2. CASE people # <<>>
  <2>1. Goes(r, new) BY <1>2 DEF Fetched
  <2>2. people \in Seq(Humans) /\ Len(people) \in Nat BY PeopleType
  <2>3. q \in ScanRec /\ q.results = <<>> /\ ScanFine(q)
    <3>1. Fine(q) /\ q.op = "scan" /\ q.at = "fetch" BY DEF Inv, Scanning
    <3>2. ScanFine(q) BY <3>1, Kinds
    <3> QED BY <3>1, <3>2 DEF ScanFine, Fetching
  <2> DEFINE batch == Batch(people, 0)
  <2> HIDE DEF people, q, batch
  <2>4. /\ batch \in Seq(SearchType) /\ Len(batch) <= BatchSize
        /\ 0 + Len(batch) <= Len(people)
        /\ \A i \in 1..Len(batch) :
             batch[i].person = people[0 + i] /\ SearchFine(batch[i])
    <3>1. 0 \in Nat /\ 0 <= Len(people) BY <2>2
    <3>2. /\ Batch(people, 0) \in Seq(SearchType) /\ Len(Batch(people, 0)) <= BatchSize
          /\ 0 + Len(Batch(people, 0)) <= Len(people)
          /\ \A i \in 1..Len(Batch(people, 0)) :
               Batch(people, 0)[i].person = people[0 + i] /\ SearchFine(Batch(people, 0)[i])
      BY <2>2, <3>1, BatchFine
    <3> QED BY <3>2 DEF batch
  <2>5. people \in Seq(Persons)
    <3>1. Humans \subseteq Persons BY MatchAssumption
    <3> QED BY <2>2, <3>1
  <2>6. new = [q EXCEPT !.at = "match", !.offset = 0, !.got = people, !.batch = batch]
    BY DEF batch
  <2> HIDE DEF new
  <2>7. /\ new \in ScanRec /\ new.at = "match" /\ new.got = people /\ new.batch = batch
        /\ new.results = q.results /\ new.steady = q.steady /\ new.listing = q.listing
    BY <2>3, <2>4, <2>5, <2>6 DEF ScanRec
  <2>8. Matching(new)
    <3>1. q.steady => people \in PeopleShown(q.listing) BY DEF people, q, PeopleShown
    <3>2. Len(new.results) = 0 BY <2>3, <2>7
    <3> QED BY <2>2, <2>4, <2>7, <3>1, <3>2 DEF Matching
  <2>9. ScanFine(new) BY <2>4, <2>7, <2>8 DEF ScanFine
  <2> QED BY <2>1, <2>9, ScanGoes
<1> QED BY <1>1, <1>2

LEMMA FetchPageInv == ASSUME Inv, NEW r \in Requests, FetchPage(r) PROVE Inv'
<1> DEFINE q == req[r]
           page == Slice(listed, q.offset, Limit)
           got == q.got \o page
           new == [q EXCEPT !.got = got, !.offset = @ + Limit]
<1>1. ScanFine(q) /\ Fetching(q) /\ q.at = "fetch" /\ q \in ScanRec
  <2>1. Fine(q) /\ q.op = "scan" /\ q.at = "fetch" BY DEF Inv, FetchPage, Scanning
  <2>2. ScanFine(q) BY <2>1, Kinds
  <2> QED BY <2>1, <2>2 DEF ScanFine
<1>2. listed \in Seq(Persons) /\ Limit \in Nat /\ Limit > 0 /\ q.offset \in Nat /\ q.got \in Seq(Persons)
  BY <1>1, ImportAssumption DEF Inv, Typed, ScanRec
<1>3. page \in Seq(Persons) BY <1>2, SliceFacts
<1>4. got \in Seq(Persons) BY <1>2, <1>3, ConcatProperties
<1>5. q.steady => q.listing = listed /\ got = Slice(listed, 0, q.offset + Limit)
  <2>1. Slice(listed, 0, q.offset) \o Slice(listed, q.offset, Limit) = Slice(listed, 0, q.offset + Limit)
    BY <1>2, SlicesAddUp
  <2> QED BY <1>1, <2>1 DEF Fetching
<1>6. q.offset + Limit \in Nat /\ Len(listed) \in Nat BY <1>2
<1>7. CASE Users(page) = {}
  <2>1. Fetched(r, q.got) /\ UNCHANGED <<listed, users, pages, counters>> BY <1>7 DEF FetchPage
  <2>2. Scanning(r, "fetch") BY DEF FetchPage
  <2>3. q.steady => q.listing = listed /\ q.got = Slice(listed, 0, q.offset) BY <1>1 DEF Fetching
  <2>4. \E n \in 0..Len(listed) :
           NoUserFollows(listed, n) /\ Slice(listed, 0, q.offset) = Slice(listed, 0, n)
    BY <1>2, <1>7, EndOfList
  <2>5. req[r].steady => /\ req[r].listing = listed
                         /\ \E n \in 0..Len(listed) : NoUserFollows(listed, n) /\ q.got = Slice(listed, 0, n)
    BY <2>3, <2>4
  <2> QED BY <1>2, <2>1, <2>2, <2>5, FetchedInv
<1>8. CASE Users(page) # {} /\ LastPage(q.offset + Limit, Len(listed))
  <2>1. q.offset + Limit >= Len(listed) BY <1>8 DEF LastPage
  <2>2. Fetched(r, got) /\ UNCHANGED <<listed, users, pages, counters>> BY <1>8 DEF FetchPage
  <2>3. Scanning(r, "fetch") BY DEF FetchPage
  <2>4. \E n \in 0..Len(listed) :
           NoUserFollows(listed, n) /\ Slice(listed, 0, q.offset + Limit) = Slice(listed, 0, n)
    BY <1>2, <1>6, <2>1, EndOfList
  <2>5. req[r].steady => /\ req[r].listing = listed
                         /\ \E n \in 0..Len(listed) : NoUserFollows(listed, n) /\ got = Slice(listed, 0, n)
    BY <1>5, <2>4
  <2> HIDE DEF got
  <2> QED BY <1>4, <2>2, <2>3, <2>5, FetchedInv
<1>9. CASE Users(page) # {} /\ ~LastPage(q.offset + Limit, Len(listed))
  <2>1. Goes(r, new) /\ UNCHANGED <<listed, users, pages, counters>> BY <1>9 DEF FetchPage
  <2> HIDE DEF got, q
  <2>2. /\ new \in ScanRec /\ new.got = got /\ new.offset = q.offset + Limit /\ new.batch = q.batch
        /\ new.results = q.results /\ new.steady = q.steady /\ new.listing = q.listing /\ new.at = q.at
    BY <1>1, <1>4, <1>6 DEF ScanRec
  <2> HIDE DEF new
  <2>3. Fetching(new) BY <1>1, <1>5, <2>2 DEF Fetching
  <2>4. ScanFine(new) BY <1>1, <2>2, <2>3 DEF ScanFine
  <2> QED BY <2>1, <2>4, ScanGoes
<1> QED BY <1>7, <1>8, <1>9

LEMMA FetchAllInv == ASSUME Inv, NEW r \in Requests, FetchAll(r) PROVE Inv'
<1>1. Scanning(r, "fetch") /\ Fetched(r, listed) /\ UNCHANGED <<listed, users, pages, counters>>
  BY DEF FetchAll
<1>2. ScanFine(req[r])
  <2>1. Fine(req[r]) /\ req[r].op = "scan" BY <1>1 DEF Inv, Scanning
  <2> QED BY <2>1, Kinds
<1>3. req[r].steady => req[r].listing = listed BY <1>1, <1>2 DEF Scanning, ScanFine, Fetching
<1>4. listed \in Seq(Persons) BY ImportAssumption DEF Inv, Typed
<1>5. \E n \in 0..Len(listed) : NoUserFollows(listed, n) /\ Slice(listed, 0, Len(listed)) = Slice(listed, 0, n)
  BY <1>4, EndOfList
<1>6. Slice(listed, 0, Len(listed)) = listed BY <1>4, SlicesAddUp
<1>7. \E n \in 0..Len(listed) : NoUserFollows(listed, n) /\ listed = Slice(listed, 0, n)
  BY <1>5, <1>6
<1> QED BY <1>1, <1>3, <1>4, <1>7, FetchedInv

LEMMA FetchFailsInv == ASSUME Inv, NEW r \in Requests, FetchFails(r) PROVE Inv'
BY EndsInv, Bounds DEF FetchFails

\* What is known of a scan that matches.
LEMMA MatchFacts ==
  ASSUME Inv, NEW r \in Requests, Scanning(r, "match")
  PROVE  /\ ScanFine(req[r]) /\ Matching(req[r]) /\ req[r] \in ScanRec
         /\ req[r].batch \in Seq(SearchType) /\ req[r].results \in Seq(ResultType)
<1>1. Fine(req[r]) /\ req[r].op = "scan" BY DEF Inv, Scanning
<1>2. ScanFine(req[r]) BY <1>1, Kinds
<1> QED BY <1>2 DEF ScanFine, Scanning, ScanRec

\* One search of the batch goes on.
LEMMA SearchGoes ==
  ASSUME Inv, NEW r \in Requests, Scanning(r, "match"), NEW i \in DOMAIN req[r].batch,
         NEW s \in SearchType, s.person = req[r].batch[i].person, SearchFine(s),
         Goes(r, [req[r] EXCEPT !.batch = [req[r].batch EXCEPT ![i] = s]]),
         UNCHANGED <<listed, users, pages, counters>>
  PROVE  Inv'
<1> DEFINE q == req[r]  batch == [q.batch EXCEPT ![i] = s]  new == [q EXCEPT !.batch = batch]
<1>1. ScanFine(q) /\ Matching(q) /\ q \in ScanRec /\ q.batch \in Seq(SearchType) BY MatchFacts
<1>2. i \in 1..Len(q.batch) BY <1>1
<1>3. /\ batch \in Seq(SearchType) /\ Len(batch) = Len(q.batch)
      /\ \A j \in 1..Len(q.batch) : batch[j] = IF j = i THEN s ELSE q.batch[j]
  BY <1>1, <1>2, ExceptSeq
<1> HIDE DEF batch, q
<1>4. /\ new \in ScanRec /\ new.batch = batch /\ new.got = q.got /\ new.results = q.results
      /\ new.steady = q.steady /\ new.listing = q.listing /\ new.at = q.at
  BY <1>1, <1>3 DEF ScanRec
<1>5. Goes(r, new) BY DEF q, batch
<1>6. q.at = "match" BY DEF Scanning, q
<1> HIDE DEF new
<1>7. ASSUME NEW j \in 1..Len(batch)
      PROVE  batch[j].person = q.got[Len(q.results) + j] /\ SearchFine(batch[j])
  <2>1. j \in 1..Len(q.batch) /\ batch[j] = IF j = i THEN s ELSE q.batch[j] BY <1>3, <1>7
  <2> QED BY <1>1, <2>1 DEF Matching, q
<1>8. Matching(new) BY <1>1, <1>3, <1>4, <1>7 DEF Matching
<1>9. ScanFine(new) BY <1>1, <1>3, <1>4, <1>6, <1>8 DEF ScanFine
<1> QED BY <1>5, <1>9, ScanGoes

LEMMA SearchInv == ASSUME Inv, NEW r \in Requests, Search(r) PROVE Inv'
<1> DEFINE q == req[r]
<1>1. Scanning(r, "match") /\ UNCHANGED <<listed, users, pages, counters>> BY DEF Search
<1>2. PICK i \in DOMAIN q.batch, answer \in SUBSET Accounts :
        LET s == q.batch[i]
            seen == s.seen \cup Unseen(q, i, answer)
            after == [s EXCEPT !.seen = seen, !.answers = @ \cup answer]
        IN /\ Searching(s)
           /\ IF BestMatches(s.person, seen) = {}
                THEN Goes(r, [q EXCEPT !.batch[i] = [after EXCEPT !.stage = @ + 1]])
                ELSE \E best \in BestMatches(s.person, seen) :
                       Goes(r, [q EXCEPT !.batch[i] = [after EXCEPT !.best = best, !.stage = Stages + 1]])
  BY DEF Search
<1>3. q \in ScanRec /\ q.batch \in Seq(SearchType) /\ Matching(q) BY <1>1, MatchFacts
<1> DEFINE s == q.batch[i]
           seen == s.seen \cup Unseen(q, i, answer)
           after == [s EXCEPT !.seen = seen, !.answers = @ \cup answer]
<1>4. s \in SearchType /\ SearchFine(s) /\ Searching(s) /\ i \in 1..Len(q.batch)
  <2>1. i \in 1..Len(q.batch) BY <1>3
  <2>2. q.batch[i] \in SearchType BY <1>3, <2>1
  <2>3. SearchFine(q.batch[i]) BY <1>3, <2>1 DEF Matching
  <2>4. Searching(q.batch[i]) BY <1>2
  <2> QED BY <2>1, <2>2, <2>3, <2>4
<1>5. seen = s.answers \cup answer /\ seen \in SUBSET Accounts
  <2>1. s.seen = s.answers /\ s.answers \subseteq Accounts BY <1>4 DEF SearchFine, SearchType
  <2> QED BY <2>1 DEF Unseen
<1>6. \A x : [q EXCEPT !.batch[i] = x] = [q EXCEPT !.batch = [q.batch EXCEPT ![i] = x]]
  BY <1>3 DEF ScanRec
<1>7. Stages \in Nat /\ s.stage \in 1..Stages BY <1>4, ImportAssumption DEF Searching, SearchType
<1>8. CASE BestMatches(s.person, seen) = {}
  <2> DEFINE new == [after EXCEPT !.stage = @ + 1]
  <2>1. Goes(r, [q EXCEPT !.batch[i] = new]) BY <1>2, <1>8
  <2>2. Goes(r, [q EXCEPT !.batch = [q.batch EXCEPT ![i] = new]]) BY <1>6, <2>1
  <2> HIDE DEF s, q
  <2>3. /\ new \in SearchType /\ new.person = s.person /\ new.seen = seen /\ new.answers = seen
        /\ new.best = s.best
    <3> HIDE DEF seen
    <3>1. after \in SearchType /\ after = [s EXCEPT !.seen = seen, !.answers = seen] BY <1>4, <1>5 DEF SearchType
    <3>2. after.stage = s.stage /\ s.stage + 1 \in 1..(Stages + 1) BY <1>4, <1>7 DEF SearchType
    <3> HIDE DEF after
    <3>3. new = [after EXCEPT !.stage = s.stage + 1] BY <3>2
    <3> HIDE DEF new
    <3> QED BY <1>4, <3>1, <3>2, <3>3 DEF SearchType
  <2> HIDE DEF new, seen
  <2>4. SearchFine(new) BY <1>4, <1>8, <2>3 DEF SearchFine
  <2>5. new.person = req[r].batch[i].person /\ i \in DOMAIN req[r].batch BY <1>2, <2>3 DEF s, q
  <2>6. Goes(r, [req[r] EXCEPT !.batch = [req[r].batch EXCEPT ![i] = new]]) BY <2>2 DEF q
  <2> QED BY <1>1, <2>3, <2>4, <2>5, <2>6, SearchGoes
<1>9. CASE BestMatches(s.person, seen) # {}
  <2>1. PICK best \in BestMatches(s.person, seen) :
          Goes(r, [q EXCEPT !.batch[i] = [after EXCEPT !.best = best, !.stage = Stages + 1]])
    BY <1>2, <1>9
  <2> DEFINE new == [after EXCEPT !.best = best, !.stage = Stages + 1]
  <2>2. Goes(r, [q EXCEPT !.batch = [q.batch EXCEPT ![i] = new]]) BY <1>6, <2>1
  <2>3. best \in Accounts BY <1>5 DEF BestMatches
  <2> HIDE DEF s, q
  <2>4. /\ new \in SearchType /\ new.person = s.person /\ new.seen = seen /\ new.answers = seen
        /\ new.best = best /\ new.stage = Stages + 1
    <3> HIDE DEF seen
    <3>1. after \in SearchType /\ after = [s EXCEPT !.seen = seen, !.answers = seen] BY <1>4, <1>5 DEF SearchType
    <3>2. Stages + 1 \in 1..(Stages + 1) BY <1>7
    <3> HIDE DEF after
    <3> QED BY <1>4, <2>3, <3>1, <3>2 DEF SearchType
  <2> HIDE DEF new, seen
  <2>5. ~Searching(new) BY <1>7, <2>4 DEF Searching
  <2>6. SearchFine(new) BY <2>1, <2>4, <2>5 DEF SearchFine
  <2>7. new.person = req[r].batch[i].person /\ i \in DOMAIN req[r].batch BY <1>2, <2>4 DEF s, q
  <2>8. Goes(r, [req[r] EXCEPT !.batch = [req[r].batch EXCEPT ![i] = new]]) BY <2>2 DEF q
  <2> QED BY <1>1, <2>4, <2>6, <2>7, <2>8, SearchGoes
<1> QED BY <1>8, <1>9

LEMMA SearchRaisesInv == ASSUME Inv, NEW r \in Requests, SearchRaises(r) PROVE Inv'
<1> DEFINE q == req[r]
<1>1. Scanning(r, "match") /\ UNCHANGED <<listed, users, pages, counters>> BY DEF SearchRaises
<1>2. PICK i \in DOMAIN q.batch :
        Searching(q.batch[i]) /\ Goes(r, [q EXCEPT !.batch[i].raised = TRUE, !.batch[i].stage = Stages + 1])
  BY DEF SearchRaises
<1>3. q \in ScanRec /\ q.batch \in Seq(SearchType) /\ Matching(q) BY <1>1, MatchFacts
<1> DEFINE s == q.batch[i]
           new == [s EXCEPT !.raised = TRUE, !.stage = Stages + 1]
<1>4. s \in SearchType /\ SearchFine(s) /\ Searching(s) /\ i \in 1..Len(q.batch)
  <2>1. i \in 1..Len(q.batch) BY <1>3
  <2>2. q.batch[i] \in SearchType BY <1>3, <2>1
  <2>3. SearchFine(q.batch[i]) BY <1>3, <2>1 DEF Matching
  <2> QED BY <1>2, <2>1, <2>2, <2>3
<1>5. Stages \in Nat BY ImportAssumption
<1>6. Goes(r, [q EXCEPT !.batch = [q.batch EXCEPT ![i] = new]])
  <2>1. [q EXCEPT !.batch[i].raised = TRUE, !.batch[i].stage = Stages + 1]
          = [q EXCEPT !.batch = [q.batch EXCEPT ![i] = new]]
    BY <1>3, <1>4 DEF ScanRec
  <2> QED BY <1>2, <2>1
<1> HIDE DEF s, q
<1>7. /\ new \in SearchType /\ new.person = s.person /\ new.answers = s.answers /\ new.seen = s.seen
      /\ new.best = s.best /\ new.raised = TRUE /\ new.stage = Stages + 1
  <2>1. Stages + 1 \in 1..(Stages + 1) BY <1>5
  <2> QED BY <1>4, <2>1 DEF SearchType
<1> HIDE DEF new
<1>8. ~Searching(new) BY <1>5, <1>7 DEF Searching
<1>9. SearchFine(new) BY <1>4, <1>7, <1>8 DEF SearchFine
<1>10. new.person = req[r].batch[i].person /\ i \in DOMAIN req[r].batch BY <1>2, <1>7 DEF s, q
<1>11. Goes(r, [req[r] EXCEPT !.batch = [req[r].batch EXCEPT ![i] = new]]) BY <1>6 DEF q
<1> QED BY <1>1, <1>7, <1>9, <1>10, <1>11, SearchGoes

\* The results of a batch that is done: one for each person, in order, and shown rightly.
LEMMA BatchResults ==
  ASSUME Inv, NEW r \in Requests, Scanning(r, "match"),
         \A i \in DOMAIN req[r].batch : ~Searching(req[r].batch[i]),
         NEW results, results = req[r].results \o [i \in DOMAIN req[r].batch |-> Result(req[r], req[r].batch[i])]
  PROVE  /\ results \in Seq(ResultType)
         /\ Len(results) <= Len(req[r].got) /\ req[r].got \in Seq(Humans)
         /\ \A i \in 1..Len(results) : results[i].person = req[r].got[i]
<1> DEFINE q == req[r]
<1>1. /\ Matching(q) /\ q \in ScanRec /\ q.batch \in Seq(SearchType) /\ q.results \in Seq(ResultType)
      /\ q.known \subseteq Persons
  BY MatchFacts DEF ScanRec
<1> DEFINE n == Len(q.results)  m == Len(q.batch)
           tail == [i \in 1..m |-> Result(q, q.batch[i])]
<1>2. results = q.results \o tail
  <2>1. DOMAIN q.batch = 1..m BY <1>1
  <2> QED BY <2>1
<1>3. \A i \in 1..m : ~Searching(q.batch[i]) BY <1>1
<1> HIDE DEF q
<1>4. n \in Nat /\ m \in Nat /\ q.got \in Seq(Humans) /\ n + m <= Len(q.got) /\ Len(q.got) \in Nat
  <2>1. n \in Nat /\ m \in Nat BY <1>1
  <2>2. q.got \in Seq(Humans) /\ n + m <= Len(q.got) BY <1>1 DEF Matching
  <2>3. Len(q.got) \in Nat BY <2>2
  <2> HIDE DEF n, m
  <2> QED BY <2>1, <2>2, <2>3
<1>5. ASSUME NEW i \in 1..m
      PROVE  /\ Result(q, q.batch[i]) \in ResultType
             /\ Result(q, q.batch[i]).person = q.got[n + i]
  <2>1. q.batch[i] \in SearchType /\ ~Searching(q.batch[i]) BY <1>1, <1>3
  <2>2. q.batch[i].person = q.got[n + i] /\ SearchFine(q.batch[i]) BY <1>1 DEF Matching
  <2>3. q.got[n + i] \in Humans
    <3>1. n + i \in 1..Len(q.got)
      <4> DEFINE total == Len(q.got)
      <4>1. n \in Nat /\ m \in Nat /\ total \in Nat /\ n + m <= total /\ i \in 1..m BY <1>4
      <4> HIDE DEF total, n, m
      <4> QED BY <4>1 DEF total
    <3> QED BY <1>4, <3>1
  <2> DEFINE s == q.batch[i]
  <2>4. s \in SearchType /\ s.person \in Humans /\ s.person = q.got[n + i] BY <2>1, <2>2, <2>3
  <2>5. s.best = None \/ s.best \in BestMatches(s.person, s.answers) BY <2>1, <2>2 DEF SearchFine
  <2> HIDE DEF s
  <2>6. s.best # None => s.best \in Accounts
    BY <2>4, <2>5 DEF BestMatches, SearchType
  <2>7. Result(q, s) \in ResultType BY <2>4, <2>6 DEF Result, ResultType, SearchType
  <2>8. Result(q, s).person = s.person BY DEF Result
  <2> QED BY <2>4, <2>7, <2>8 DEF s
<1>6. tail \in Seq(ResultType) /\ Len(tail) = m
  <2>1. \A i \in 1..m : Result(q, q.batch[i]) \in ResultType BY <1>5
  <2> QED BY <1>4, <2>1
<1>7. \A i \in 1..m : tail[i] = Result(q, q.batch[i]) OBVIOUS
<1> HIDE DEF tail
<1>8. /\ q.results \o tail \in Seq(ResultType) /\ Len(q.results \o tail) = Len(q.results) + Len(tail)
      /\ \A i \in 1..(Len(q.results) + Len(tail)) :
           (q.results \o tail)[i] = IF i <= Len(q.results) THEN q.results[i] ELSE tail[i - Len(q.results)]
  BY <1>1, <1>6, ConcatProperties
<1>9. ASSUME NEW i \in 1..Len(results) PROVE results[i].person = q.got[i]
  <2>1. CASE i <= n
    <3>1. i \in 1..n /\ results[i] = q.results[i] BY <1>2, <1>4, <1>6, <1>8, <1>9, <2>1
    <3> QED BY <1>1, <3>1 DEF Matching
  <2>2. CASE ~(i <= n)
    <3>1. Len(results) = n + m /\ n \in Nat /\ m \in Nat BY <1>2, <1>4, <1>6, <1>8
    <3>2. i - n \in 1..m /\ n + (i - n) = i /\ i \in 1..(n + m)
      <4> HIDE DEF n, m
      <4> QED BY <1>9, <2>2, <3>1
    <3>3. results[i] = tail[i - n] BY <1>2, <1>6, <1>8, <2>2, <3>2
    <3> QED BY <1>5, <1>7, <3>2, <3>3
  <2> QED BY <2>1, <2>2
<1> QED BY <1>2, <1>4, <1>6, <1>8, <1>9 DEF q

LEMMA BatchDoneInv == ASSUME Inv, NEW r \in Requests, BatchDone(r) PROVE Inv'
<1> DEFINE q == req[r]
           results == q.results \o [i \in DOMAIN q.batch |-> Result(q, q.batch[i])]
<1>1. Scanning(r, "match") /\ (\A i \in DOMAIN q.batch : ~Searching(q.batch[i]))
      /\ UNCHANGED <<listed, users, counters>>
  BY DEF BatchDone
<1>2. /\ results \in Seq(ResultType) /\ Len(results) <= Len(q.got) /\ q.got \in Seq(Humans)
      /\ \A i \in 1..Len(results) : results[i].person = q.got[i]
  BY <1>1, BatchResults
<1>3. IF Len(results) = Len(q.got)
        THEN Ends(r) /\ pages' = pages \cup {results}
        ELSE /\ Goes(r, [q EXCEPT !.results = results, !.batch = Batch(q.got, Len(results))])
             /\ UNCHANGED pages
  BY DEF BatchDone
<1>4. ScanFine(q) /\ Matching(q) /\ q \in ScanRec /\ q.at = "match" BY <1>1, MatchFacts DEF Scanning
<1> HIDE DEF results
<1>5. CASE Len(results) = Len(q.got)
  <2> QED BY <1>1, <1>2, <1>3, <1>5, EndsInv, Bounds
<1>6. CASE Len(results) # Len(q.got)
  <2> DEFINE k == Len(results)  batch == Batch(q.got, k)
             new == [q EXCEPT !.results = results, !.batch = batch]
  <2>1. Goes(r, new) /\ UNCHANGED <<listed, users, pages, counters>> BY <1>1, <1>3, <1>6
  <2>2. k \in Nat BY <1>2
  <2> HIDE DEF k, q
  <2>3. k <= Len(q.got) BY <1>2 DEF k
  <2>4. /\ batch \in Seq(SearchType) /\ Len(batch) <= BatchSize
        /\ k + Len(batch) <= Len(q.got)
        /\ \A i \in 1..Len(batch) :
             batch[i].person = q.got[k + i] /\ SearchFine(batch[i])
    BY <1>2, <2>2, <2>3, BatchFine
  <2> HIDE DEF batch
  <2>5. /\ new \in ScanRec /\ new.batch = batch /\ new.got = q.got /\ new.results = results
        /\ new.steady = q.steady /\ new.listing = q.listing /\ new.at = q.at
    BY <1>2, <1>4, <2>4 DEF ScanRec
  <2> HIDE DEF new
  <2>6. Matching(new) BY <1>2, <1>4, <2>4, <2>5 DEF Matching, k
  <2>7. ScanFine(new) BY <1>4, <2>4, <2>5, <2>6 DEF ScanFine
  <2> QED BY <2>1, <2>7, ScanGoes
<1> QED BY <1>5, <1>6

-----------------------------------------------------------------------------
(* The import. *)

\* What is known of an import.
LEMMA BulkFacts == ASSUME Inv, NEW r \in Requests, req[r].op = "bulk" PROVE BulkFine(req[r]) /\ req[r] \in BulkRec
<1>1. Fine(req[r]) BY DEF Inv
<1> QED BY <1>1, Kinds DEF BulkFine

\* An import that goes on with the rows it holds.
LEMMA BulkGoes ==
  ASSUME Inv, NEW r \in Requests, NEW new, BulkFine(new), Goes(r, new),
         \A p \in Persons : new.rows[p] # NoRow => \A q \in Requests : ~HeldBy(q, r, p),
         UNCHANGED <<listed, users, pages, counters>>
  PROVE  Inv'
<1>1. Fine(new) BY DEF Fine
<1> QED BY <1>1, RequestGoes, Bounds DEF counters

\* Nobody else holds what an import holds.
LEMMA HeldOnce ==
  ASSUME Inv, NEW r \in Requests, req[r].op = "bulk", NEW p \in Persons, req[r].rows[p] # NoRow,
         NEW q \in Requests
  PROVE  ~HeldBy(q, r, p)
BY DEF Inv, Exclusive, HeldBy

LEMMA BulkStartInv == ASSUME Inv, NEW r \in Requests, BulkStart(r) PROVE Inv'
<1>1. UNCHANGED <<listed, users, pages, scans, edits>> /\ imports' \in 0..MaxImports
  BY Bounds DEF BulkStart
<1>2. PICK page \in pages, s \in SUBSET Humans :
        Goes(r, [op |-> "bulk", at |-> "check", body |-> Ticked(page, s), i |-> 1,
                 failed |-> FALSE, created |-> {}, rows |-> [p \in Persons |-> NoRow]])
  BY DEF BulkStart
<1> DEFINE new == [op |-> "bulk", at |-> "check", body |-> Ticked(page, s), i |-> 1,
                   failed |-> FALSE, created |-> {}, rows |-> [p \in Persons |-> NoRow]]
<1>3. Ticked(page, s) \in Seq(ResultType)
  <2>1. page \in Seq(ResultType) BY DEF Inv, Typed
  <2> QED BY <2>1, TickedType
<1>4. BulkFine(new)
  <2>1. 1 \in 1..(Len(Ticked(page, s)) + 1) BY <1>3
  <2>2. new \in BulkRec BY <1>3 DEF BulkRec
  <2> QED BY <2>1, <2>2 DEF BulkFine
<1>5. Fine(new) /\ \A p \in Persons : new.rows[p] = NoRow BY <1>4 DEF Fine
<1>6. Goes(r, new) BY <1>2
<1> HIDE DEF new
<1> QED BY <1>1, <1>5, <1>6, RequestGoes, Bounds

\* An import that has handled a row, or decided to insert it, holds what it held.
LEMMA SameRows ==
  ASSUME NEW q, BulkFine(q), q.i <= Len(q.body), ~q.failed
  PROVE  /\ BulkFine(NextRow(q)) /\ NextRow(q).rows = q.rows
         /\ BulkFine([q EXCEPT !.at = "insert"]) /\ [q EXCEPT !.at = "insert"].rows = q.rows
<1>1. q \in BulkRec /\ q.i \in 1..(Len(q.body) + 1) BY DEF BulkFine
<1>2. Len(q.body) \in Nat /\ q.i + 1 \in 1..(Len(q.body) + 1) /\ q.i + 1 \in Nat
  <2>1. Len(q.body) \in Nat BY <1>1 DEF BulkRec
  <2> QED BY <1>1, <2>1
<1> DEFINE new == NextRow(q)
<1>3. /\ new \in BulkRec /\ new.i = q.i + 1 /\ new.body = q.body /\ new.failed = q.failed
      /\ new.created = q.created /\ new.rows = q.rows
  BY <1>1, <1>2 DEF NextRow, BulkRec
<1> DEFINE next == [q EXCEPT !.at = "insert"]
<1>4. /\ next \in BulkRec /\ next.i = q.i /\ next.body = q.body /\ next.failed = q.failed
      /\ next.created = q.created /\ next.rows = q.rows
  BY <1>1 DEF BulkRec
<1> HIDE DEF new, next
<1>5. BulkFine(new) BY <1>2, <1>3 DEF BulkFine
<1>6. BulkFine(next) BY <1>4 DEF BulkFine
<1> QED BY <1>3, <1>4, <1>5, <1>6 DEF new, next

LEMMA CheckInv == ASSUME Inv, NEW r \in Requests, Check(r) PROVE Inv'
<1> DEFINE q == req[r]
           new == IF users[Current(q)] # NoRow \/ q.rows[Current(q)] # NoRow
                    THEN NextRow(q) ELSE [q EXCEPT !.at = "insert"]
<1>1. /\ q.op = "bulk" /\ q.i <= Len(q.body) /\ ~q.failed /\ Goes(r, new)
      /\ UNCHANGED <<listed, users, pages, counters>>
  BY DEF Check, Importing
<1>2. BulkFine(q) BY <1>1, BulkFacts
<1>3. BulkFine(new) /\ new.rows = q.rows BY <1>1, <1>2, SameRows
<1> HIDE DEF new
<1>4. \A p \in Persons : new.rows[p] # NoRow => \A s \in Requests : ~HeldBy(s, r, p)
  BY <1>1, <1>3, HeldOnce
<1> QED BY <1>1, <1>3, <1>4, BulkGoes

\* An import that fails holds nothing.
LEMMA FailedFine ==
  ASSUME NEW q, BulkFine(q), q.i <= Len(q.body)
  PROVE  BulkFine(Failed(q)) /\ \A p \in Persons : Failed(q).rows[p] = NoRow
<1>1. q \in BulkRec /\ q.i \in 1..(Len(q.body) + 1) BY DEF BulkFine
<1>2. q.i + 1 \in 1..(Len(q.body) + 1) /\ q.i + 1 \in Nat
  <2>1. Len(q.body) \in Nat BY <1>1 DEF BulkRec
  <2> QED BY <1>1, <2>1
<1> DEFINE new == Failed(q)
<1>3. /\ new \in BulkRec /\ new.i = q.i + 1 /\ new.body = q.body /\ new.failed = TRUE
      /\ new.at = "check" /\ new.rows = [p \in Persons |-> NoRow]
  BY <1>1, <1>2 DEF Failed, NextRow, BulkRec
<1> HIDE DEF new
<1>4. BulkFine(new) BY <1>2, <1>3 DEF BulkFine
<1> QED BY <1>3, <1>4 DEF new

\* The place for a person whom nobody has a row for.
LEMMA InsertInv == ASSUME Inv, NEW r \in Requests, Insert(r) PROVE Inv'
<1> DEFINE q == req[r]  p == Current(q)  m == q.body[q.i]
<1>1. /\ q.op = "bulk" /\ q.at = "insert" /\ q.i <= Len(q.body)
      /\ \A s \in Requests : ~HeldBy(s, r, p)
      /\ UNCHANGED <<listed, users, pages, counters>>
  BY DEF Insert, Importing
<1>2. BulkFine(q) /\ q \in BulkRec BY <1>1, BulkFacts
<1>3. CASE users[p] # NoRow
  <2>1. Goes(r, Failed(q)) BY <1>3 DEF Insert
  <2>2. BulkFine(Failed(q)) /\ \A x \in Persons : Failed(q).rows[x] = NoRow BY <1>1, <1>2, FailedFine
  <2> QED BY <1>1, <2>1, <2>2, BulkGoes
<1>4. CASE users[p] = NoRow
  <2> DEFINE new == [NextRow(q) EXCEPT !.created = @ \cup {p}, !.rows[p] = RoomFor(m)]
  <2>1. Goes(r, new) BY <1>4 DEF Insert
  <2>2. ~q.failed BY <1>1, <1>2 DEF BulkFine
  <2>3. q.i \in 1..Len(q.body) /\ m \in ResultType /\ p \in Persons /\ p = m.person
    <3>1. q.body \in Seq(ResultType) /\ q.i \in 1..(Len(q.body) + 1) BY <1>2 DEF BulkFine, BulkRec
    <3>2. Len(q.body) \in Nat BY <3>1
    <3>3. q.i \in 1..Len(q.body) BY <1>1, <3>1, <3>2
    <3>4. m \in ResultType BY <3>1, <3>3
    <3> QED BY <3>3, <3>4 DEF Current, ResultType
  <2>4. RoomFor(m) \in Accounts \cup {Placeholder} /\ RoomFor(m) # NoRow
    BY <2>3, ImportAssumption DEF RoomFor, ResultType
  <2>5. BulkFine(NextRow(q)) /\ NextRow(q).rows = q.rows BY <1>1, <1>2, <2>2, SameRows
  <2> DEFINE old == NextRow(q)
  <2>6. old \in BulkRec /\ old.body = q.body /\ old.failed = FALSE
    BY <1>2, <2>2, <2>5 DEF BulkFine, NextRow, BulkRec
  <2>7. new = [old EXCEPT !.created = @ \cup {p}, !.rows = [old.rows EXCEPT ![p] = RoomFor(m)]]
    BY <2>6 DEF BulkRec
  <2> HIDE DEF old, new, p, m
  <2>8. /\ new \in BulkRec /\ new.body = old.body /\ new.i = old.i /\ new.failed = old.failed
        /\ new.created = old.created \cup {p} /\ new.rows = [old.rows EXCEPT ![p] = RoomFor(m)]
    BY <2>3, <2>4, <2>6, <2>7 DEF BulkRec
  <2>9. \A x \in Persons : new.rows[x] = IF x = p THEN RoomFor(m) ELSE old.rows[x]
    BY <2>6, <2>8 DEF BulkRec
  <2>10. BulkFine(old) /\ old.rows = q.rows BY <2>5 DEF old
  <2>11. ASSUME NEW x \in Persons, new.rows[x] # NoRow
         PROVE  /\ x \in new.created /\ users[x] = NoRow
                /\ \E i \in 1..Len(new.body) : new.body[i].person = x /\ new.rows[x] = RoomFor(new.body[i])
    <3>1. CASE x = p
      <4>1. q.body[q.i] = m /\ m.person = x BY <2>3, <3>1 DEF m, p
      <4>2. new.body[q.i].person = x /\ new.rows[x] = RoomFor(new.body[q.i]) /\ q.i \in 1..Len(new.body)
        BY <2>3, <2>6, <2>8, <2>9, <3>1, <4>1
      <4> QED BY <1>4, <2>8, <3>1, <4>2 DEF p
    <3>2. CASE x # p
      <4>1. old.rows[x] # NoRow /\ new.rows[x] = old.rows[x] BY <2>9, <2>11, <3>2
      <4> QED BY <2>8, <2>10, <4>1 DEF BulkFine
    <3> QED BY <3>1, <3>2
  <2>12. \A x \in Persons : x \in new.created => new.rows[x] # NoRow
    BY <2>4, <2>6, <2>8, <2>9, <2>10 DEF BulkFine
  <2>13. BulkFine(new)
    <3>1. new.i \in 1..(Len(new.body) + 1) /\ ~new.failed BY <2>6, <2>8, <2>10 DEF BulkFine
    <3> QED BY <2>8, <2>11, <2>12, <3>1 DEF BulkFine
  <2>14. ASSUME NEW x \in Persons, new.rows[x] # NoRow, NEW s \in Requests PROVE ~HeldBy(s, r, x)
    <3>1. CASE x = p BY <1>1, <3>1 DEF p
    <3>2. CASE x # p
      <4>1. q.rows[x] # NoRow BY <2>9, <2>10, <2>14, <3>2
      <4> QED BY <1>1, <4>1, HeldOnce
    <3> QED BY <3>1, <3>2
  <2> QED BY <1>1, <2>1, <2>13, <2>14, BulkGoes
<1> QED BY <1>3, <1>4

LEMMA DeadlockInv == ASSUME Inv, NEW r \in Requests, DeadlockBroken(r) PROVE Inv'
<1>1. /\ req[r].op = "bulk" /\ req[r].i <= Len(req[r].body) /\ Goes(r, Failed(req[r]))
      /\ UNCHANGED <<listed, users, pages, counters>>
  BY DEF DeadlockBroken, Importing
<1>2. BulkFine(Failed(req[r])) /\ \A p \in Persons : Failed(req[r]).rows[p] = NoRow
  BY <1>1, BulkFacts, FailedFine
<1> QED BY <1>1, <1>2, BulkGoes

LEMMA RaisesInv == ASSUME Inv, NEW r \in Requests, Raises(r) PROVE Inv'
BY EndsInv, Bounds DEF Raises

\* Rooms come, go and change only for people whom no open import holds.
LEMMA UsersChange ==
  ASSUME Inv, users' \in [Persons -> Rooms \cup {NoRow}], UNCHANGED <<listed, pages, scans, imports>>,
         edits' \in 0..MaxEdits, req' \in [Requests -> {Idle} \cup ScanRec \cup BulkRec],
         \A q \in Requests : req'[q] = req[q] \/ req'[q] = Idle,
         \A q \in Requests, p \in Persons :
           req'[q].op = "bulk" /\ req[q].rows[p] # NoRow => users'[p] = NoRow
  PROVE  Inv'
<1>1. Typed' BY DEF Inv, Typed, ScanRec, BulkRec, Rooms
<1>2. ASSUME NEW q \in Requests PROVE Fine(req[q])'
  <2>1. CASE req'[q] = Idle BY <2>1 DEF Fine, Idle
  <2>2. CASE req'[q] = req[q]
    <3>1. Fine(req[q]) BY DEF Inv
    <3>2. CASE req[q] = Idle BY <2>2, <3>2 DEF Fine, Idle
    <3>3. CASE ScanFine(req[q])
      <4>1. ScanFine(req[q])'
        BY <2>2, <3>3 DEF ScanFine, Fetching, Matching, SearchFine, Searching
      <4> QED BY <4>1 DEF Fine
    <3>4. CASE BulkFine(req[q])
      <4>1. req[q].op = "bulk" BY <3>4 DEF BulkFine, BulkRec
      <4>2. \A p \in Persons : req[q].rows[p] # NoRow => users'[p] = NoRow BY <2>2, <4>1
      <4>3. BulkFine(req[q])' BY <2>2, <3>4, <4>2 DEF BulkFine
      <4> QED BY <4>3 DEF Fine
    <3> QED BY <3>1, <3>2, <3>3, <3>4 DEF Fine
  <2> QED BY <2>1, <2>2
<1>3. Exclusive'
  <2>1. Idle.op # "bulk" BY DEF Idle
  <2> SUFFICES ASSUME NEW q \in Requests, NEW s \in Requests, q # s,
                      req'[q].op = "bulk", req'[s].op = "bulk", NEW p \in Persons
               PROVE  req'[q].rows[p] = NoRow \/ req'[s].rows[p] = NoRow
    BY DEF Exclusive
  <2>2. req'[q] = req[q] /\ req'[s] = req[s] BY <2>1
  <2> QED BY <2>2 DEF Inv, Exclusive
<1> QED BY <1>1, <1>2, <1>3 DEF Inv

LEMMA BulkCommitInv == ASSUME Inv, NEW r \in Requests, BulkCommit(r) PROVE Inv'
<1>1. /\ req[r].op = "bulk" /\ ~req[r].failed /\ req' = [req EXCEPT ![r] = Idle]
      /\ users' = [p \in Persons |-> IF req[r].rows[p] # NoRow THEN req[r].rows[p] ELSE users[p]]
      /\ UNCHANGED <<listed, pages, scans, imports, edits>>
  BY DEF BulkCommit, Ends, Goes, counters
<1>2. BulkFine(req[r]) /\ req[r] \in BulkRec BY <1>1, BulkFacts
<1>3. req \in [Requests -> {Idle} \cup ScanRec \cup BulkRec] /\ users \in [Persons -> Rooms \cup {NoRow}]
  BY DEF Inv, Typed
<1>4. req' \in [Requests -> {Idle} \cup ScanRec \cup BulkRec] BY <1>1, <1>3
<1>5. users' \in [Persons -> Rooms \cup {NoRow}]
  <2>1. \A p \in Persons : req[r].rows[p] \in Accounts \cup {Placeholder, NoRow} BY <1>2 DEF BulkRec
  <2> QED BY <1>1, <1>3, <2>1 DEF Rooms
<1>6. \A q \in Requests : req'[q] = IF q = r THEN Idle ELSE req[q] BY <1>1, <1>3
<1>7. ASSUME NEW q \in Requests, NEW p \in Persons, req'[q].op = "bulk", req[q].rows[p] # NoRow
      PROVE  users'[p] = NoRow
  <2>1. q # r /\ req[q].op = "bulk" BY <1>6, <1>7 DEF Idle
  <2>2. req[r].rows[p] = NoRow BY <1>1, <1>7, <2>1 DEF Inv, Exclusive
  <2>3. users[p] = NoRow BY <1>7, <2>1, BulkFacts DEF BulkFine
  <2> QED BY <1>1, <2>2, <2>3
<1> QED BY <1>1, <1>4, <1>5, <1>6, <1>7, Bounds, UsersChange

LEMMA EditedBounds == ASSUME Inv, Edited PROVE edits' \in 0..MaxEdits
BY Bounds DEF Edited

LEMMA AddByHandInv == ASSUME Inv, AddByHand PROVE Inv'
<1>1. PICK p \in Humans : /\ users[p] = NoRow
                          /\ \A q \in Requests : req[q].op = "bulk" => req[q].rows[p] = NoRow
                          /\ users' = [users EXCEPT ![p] = ByHand]
  BY DEF AddByHand
<1>2. UNCHANGED <<listed, pages, req, scans, imports>> /\ edits' \in 0..MaxEdits
  BY EditedBounds DEF AddByHand
<1>3. users \in [Persons -> Rooms \cup {NoRow}] /\ req \in [Requests -> {Idle} \cup ScanRec \cup BulkRec]
  BY DEF Inv, Typed
<1>4. users' \in [Persons -> Rooms \cup {NoRow}] BY <1>1, <1>3 DEF Rooms
<1>5. ASSUME NEW q \in Requests, NEW x \in Persons, req[q].op = "bulk", req[q].rows[x] # NoRow
      PROVE  users'[x] = NoRow
  <2>1. users[x] = NoRow /\ x # p BY <1>1, <1>5, BulkFacts DEF BulkFine
  <2> QED BY <1>1, <1>3, <2>1
<1> QED BY <1>2, <1>3, <1>4, <1>5, UsersChange

LEMMA RemoveUserInv == ASSUME Inv, RemoveUser PROVE Inv'
<1>1. PICK p \in Humans : users[p] # NoRow /\ users' = [users EXCEPT ![p] = NoRow]
  BY DEF RemoveUser
<1>2. UNCHANGED <<listed, pages, req, scans, imports>> /\ edits' \in 0..MaxEdits
  BY EditedBounds DEF RemoveUser
<1>3. users \in [Persons -> Rooms \cup {NoRow}] /\ req \in [Requests -> {Idle} \cup ScanRec \cup BulkRec]
  BY DEF Inv, Typed
<1>4. users' \in [Persons -> Rooms \cup {NoRow}] BY <1>1, <1>3
<1>5. ASSUME NEW q \in Requests, NEW x \in Persons, req[q].op = "bulk", req[q].rows[x] # NoRow
      PROVE  users'[x] = NoRow
  <2>1. users[x] = NoRow BY <1>5, BulkFacts DEF BulkFine
  <2> QED BY <1>1, <1>3, <2>1
<1> QED BY <1>2, <1>3, <1>4, <1>5, UsersChange

\* A list that changes makes no scan's pages wrong that is not told so.
LEMMA RedmineInv == ASSUME Inv, RedmineChanges PROVE Inv'
<1>1. /\ listed' \in Listings /\ edits' \in 0..MaxEdits /\ UNCHANGED <<users, pages, scans, imports>>
      /\ req' = [r \in Requests |-> IF req[r].op = "scan" /\ req[r].at = "fetch"
                                      THEN [req[r] EXCEPT !.steady = FALSE] ELSE req[r]]
  BY EditedBounds DEF RedmineChanges
<1>2. req \in [Requests -> {Idle} \cup ScanRec \cup BulkRec] BY DEF Inv, Typed
<1>3. ASSUME NEW r \in Requests
      PROVE  /\ Fine(req[r])' /\ req'[r] \in {Idle} \cup ScanRec \cup BulkRec
             /\ req'[r].op = "bulk" => req'[r] = req[r]
  <2> DEFINE q == req[r]
  <2>1. Fine(q) BY DEF Inv
  <2>2. CASE q.op = "scan" /\ q.at = "fetch"
    <3> DEFINE new == [q EXCEPT !.steady = FALSE]
    <3>1. ScanFine(q) /\ q \in ScanRec BY <2>1, <2>2, Kinds DEF ScanFine
    <3>2. req'[r] = new BY <1>1, <2>2
    <3> HIDE DEF q
    <3>3. /\ new \in ScanRec /\ new.batch = q.batch /\ new.results = q.results
          /\ new.steady = FALSE /\ new.at = "fetch" /\ new.op = "scan"
      BY <2>2, <3>1 DEF ScanRec
    <3> HIDE DEF new
    <3>4. Fetching(q) BY <2>2, <3>1 DEF ScanFine
    <3>5. ScanFine(req[r])' BY <3>1, <3>2, <3>3, <3>4 DEF ScanFine, Fetching, ScanRec
    <3>6. Fine(req[r])' BY <3>5 DEF Fine
    <3> QED BY <3>2, <3>3, <3>6
  <2>3. CASE ~(q.op = "scan" /\ q.at = "fetch")
    <3>1. req'[r] = q BY <1>1, <2>3
    <3>2. CASE q = Idle BY <3>1, <3>2 DEF Fine, Idle
    <3>3. CASE ScanFine(q)
      <4>1. q.at # "fetch" BY <2>3, <3>3 DEF ScanFine, ScanRec
      <4>2. q.at = "match" /\ Matching(q) /\ q \in ScanRec /\ Len(q.batch) <= BatchSize
        BY <3>3, <4>1 DEF ScanFine, ScanRec
      <4>3. Matching(req[r])' BY <3>1, <4>2 DEF Matching, SearchFine, Searching
      <4>4. ScanFine(req[r])' BY <3>1, <4>2, <4>3 DEF ScanFine, ScanRec
      <4> QED BY <1>2, <3>1, <4>4 DEF Fine
    <3>4. CASE BulkFine(q)
      <4>1. BulkFine(req[r])' BY <1>1, <3>1, <3>4 DEF BulkFine
      <4> QED BY <1>2, <3>1, <4>1 DEF Fine
    <3> QED BY <2>1, <3>2, <3>3, <3>4 DEF Fine
  <2> QED BY <2>2, <2>3
<1>4. Typed'
  <2>1. req' \in [Requests -> {Idle} \cup ScanRec \cup BulkRec] BY <1>1, <1>3
  <2> QED BY <1>1, <2>1 DEF Inv, Typed, ScanRec, BulkRec, Rooms
<1>5. Exclusive'
  <2> SUFFICES ASSUME NEW q \in Requests, NEW s \in Requests, q # s,
                      req'[q].op = "bulk", req'[s].op = "bulk", NEW p \in Persons
               PROVE  req'[q].rows[p] = NoRow \/ req'[s].rows[p] = NoRow
    BY DEF Exclusive
  <2>1. req'[q] = req[q] /\ req'[s] = req[s] BY <1>3
  <2> QED BY <2>1 DEF Inv, Exclusive
<1> QED BY <1>3, <1>4, <1>5 DEF Inv

LEMMA InvNext == ASSUME Inv, [Next]_vars PROVE Inv'
<1>1. ASSUME NEW r \in Requests, Step(r) PROVE Inv'
  BY <1>1, FetchPageInv, FetchAllInv, FetchFailsInv, SearchInv, SearchRaisesInv, BatchDoneInv,
     CheckInv, InsertInv, DeadlockInv, RaisesInv, BulkCommitInv DEF Step
<1>2. CASE UNCHANGED vars
  <2>1. UNCHANGED <<listed, users, pages, req, scans, imports, edits>> BY <1>2 DEF vars
  <2>2. users' \in [Persons -> Rooms \cup {NoRow}] /\ req' \in [Requests -> {Idle} \cup ScanRec \cup BulkRec]
    BY <2>1 DEF Inv, Typed
  <2>3. \A q \in Requests, p \in Persons : req[q].op = "bulk" /\ req[q].rows[p] # NoRow => users[p] = NoRow
    BY BulkFacts DEF BulkFine
  <2> QED BY <2>1, <2>2, <2>3, Bounds, UsersChange
<1> QED BY <1>1, <1>2, ScanStartInv, BulkStartInv, AddByHandInv, RemoveUserInv, RedmineInv DEF Next

-----------------------------------------------------------------------------
(* The theorems. *)

LEMMA Invariance == Spec => []Inv
BY InvInit, InvNext, PTL DEF Spec

\* Types; an import holds no row it has not reported as created, with any number of scans
\* and imports at a time (scan_redmine and bulk_create_users in user_import.py).
THEOREM TypeCorrect == Spec => []TypeOK
<1>1. Inv => TypeOK
  <2> SUFFICES ASSUME Inv PROVE TypeOK OBVIOUS
  <2>1. \A page \in pages : page \in Seq(ResultType) BY DEF Inv, Typed
  <2>2. ASSUME NEW r \in Requests
        PROVE  \/ req[r] = Idle
               \/ req[r].op = "scan" /\ ScanType(req[r])
               \/ req[r].op = "bulk" /\ BulkType(req[r])
                    /\ \A p \in Persons : req[r].rows[p] # NoRow => p \in req[r].created
    <3>1. Fine(req[r]) BY DEF Inv
    <3>2. CASE ScanFine(req[r]) BY <3>2 DEF ScanFine, ScanRec, ScanType
    <3>3. CASE BulkFine(req[r]) BY <3>3 DEF BulkFine, BulkRec, BulkType
    <3> QED BY <3>1, <3>2, <3>3 DEF Fine
  <2> QED BY <2>1, <2>2 DEF Inv, Typed, TypeOK
<1> QED BY <1>1, Invariance, PTL

\* A person is offered the best account their own queries have brought, whoever else in
\* the batch was offered it: the searches of a batch share nothing (user_matcher.py 651-790).
THEOREM BestOffered == Spec => []BestOfTheAnswers
<1>1. Inv => BestOfTheAnswers
  <2> SUFFICES ASSUME Inv, NEW r \in Requests, req[r].op = "scan", NEW i \in DOMAIN req[r].batch
               PROVE  LET s == req[r].batch[i] IN
                      ~Searching(s) => \/ s.best \in BestMatches(s.person, s.answers)
                                       \/ s.best = None /\ (s.raised \/ BestMatches(s.person, s.answers) = {})
    BY DEF BestOfTheAnswers
  <2>1. ScanFine(req[r]) /\ req[r].at \in {"fetch", "match"} /\ req[r].batch \in Seq(SearchType)
    BY Kinds DEF Inv, ScanFine, ScanRec
  <2>2. i \in 1..Len(req[r].batch) BY <2>1
  <2>3. req[r].at # "fetch" BY <2>1, <2>2 DEF ScanFine, Fetching
  <2>4. SearchFine(req[r].batch[i]) BY <2>1, <2>2, <2>3 DEF ScanFine, Matching
  <2> QED BY <2>4 DEF SearchFine
<1> QED BY <1>1, Invariance, PTL

\* A scan that ends with a page was at its last batch.
LEMMA ShowsTheList ==
  ASSUME Inv, NEW r \in Requests, BatchDone(r), pages' # pages, req[r].steady
  PROVE  \E page \in pages', n \in 0..Len(req[r].listing) :
           /\ NoUserFollows(req[r].listing, n)
           /\ [i \in DOMAIN page |-> page[i].person] = People(Slice(req[r].listing, 0, n))
           /\ pages' = pages \cup {page}
<1> DEFINE q == req[r]
           results == q.results \o [i \in DOMAIN q.batch |-> Result(q, q.batch[i])]
<1>1. Scanning(r, "match") /\ \A i \in DOMAIN q.batch : ~Searching(q.batch[i]) BY DEF BatchDone
<1>2. /\ results \in Seq(ResultType) /\ q.got \in Seq(Humans)
      /\ \A i \in 1..Len(results) : results[i].person = q.got[i]
  BY <1>1, BatchResults
<1>3. Len(results) = Len(q.got) /\ pages' = pages \cup {results} BY DEF BatchDone
<1>4. PICK n \in 0..Len(q.listing) : NoUserFollows(q.listing, n) /\ q.got = People(Slice(q.listing, 0, n))
  BY <1>1, MatchFacts DEF Matching, PeopleShown
<1> HIDE DEF results
<1>5. DOMAIN results = 1..Len(results) /\ q.got = [i \in 1..Len(q.got) |-> q.got[i]] BY <1>2
<1>6. [i \in DOMAIN results |-> results[i].person] = q.got BY <1>2, <1>3, <1>5
<1> QED BY <1>3, <1>4, <1>6

\* A scan shows everybody up to the end of the list, or up to a place from where a page
\* has no user, each once and in order, or nobody, unless the list changed between two of
\* its pages; with pages and batches of any size (fetch_redmine_users and
\* scan_redmine_group, user_matcher.py 442-648).
THEOREM EverybodyShown == Spec => NobodyLostBetweenPages
<1>1. ASSUME Inv, [Next]_vars, NEW r \in Requests, req[r].op = "scan", req'[r] = Idle,
             pages' # pages, req[r].steady
      PROVE  \E page \in pages', n \in 0..Len(req[r].listing) :
               /\ NoUserFollows(req[r].listing, n)
               /\ [i \in DOMAIN page |-> page[i].person] = People(Slice(req[r].listing, 0, n))
               /\ pages' = pages \cup {page}
  <2>1. \E s \in Requests : BatchDone(s)
    BY <1>1 DEF Next, Step, vars, counters, ScanStart, BulkStart, FetchPage, FetchAll, FetchFails, Search,
                SearchRaises, Check, Insert, DeadlockBroken, Raises, BulkCommit, AddByHand,
                RemoveUser, RedmineChanges
  <2>2. PICK s \in Requests : BatchDone(s) BY <2>1
  <2>3. req' = [req EXCEPT ![s] = Idle] BY <1>1, <2>2 DEF BatchDone, Ends, Goes
  <2>4. s = r
    <3>1. req \in [Requests -> {Idle} \cup ScanRec \cup BulkRec] BY <1>1 DEF Inv, Typed
    <3>2. req[r] # Idle BY <1>1 DEF Idle
    <3> QED BY <1>1, <2>3, <3>1, <3>2
  <2> QED BY <1>1, <2>2, <2>4, ShowsTheList
<1>2. Inv /\ [Next]_vars =>
        [\A r \in Requests :
           req[r].op = "scan" /\ req'[r] = Idle /\ pages' # pages /\ req[r].steady =>
             \E page \in pages', n \in 0..Len(req[r].listing) :
               /\ NoUserFollows(req[r].listing, n)
               /\ [i \in DOMAIN page |-> page[i].person] = People(Slice(req[r].listing, 0, n))
               /\ pages' = pages \cup {page}]_vars
  BY <1>1
<1> QED BY <1>2, Invariance, PTL DEF Spec, NobodyLostBetweenPages

\* An import answers what is so: who it says was created has the row that was posted and
\* had none, after an error nothing was created, and no row of others is touched, with any
\* number of imports and edits at the same time (bulk_create_users, user_import.py 142-230).
THEOREM AnswersTrue == Spec => AnswerIsTrue
<1>1. ASSUME Inv, [Next]_vars, NEW r \in Requests, req[r].op = "bulk", req'[r] = Idle
      PROVE  /\ ~req[r].failed => \A p \in req[r].created :
                  users[p] = NoRow /\ \E i \in DOMAIN req[r].body :
                    req[r].body[i].person = p /\ users'[p] = RoomFor(req[r].body[i])
             /\ \A p \in Persons : req[r].failed \/ p \notin req[r].created => users'[p] = users[p]
  <2>1. BulkFine(req[r]) /\ req[r] \in BulkRec BY <1>1, BulkFacts
  <2>2. req[r].created \subseteq Persons /\ DOMAIN req[r].body = 1..Len(req[r].body)
    BY <2>1 DEF BulkRec
  <2>3. Raises(r) \/ BulkCommit(r)
    <3>1. req \in [Requests -> {Idle} \cup ScanRec \cup BulkRec] /\ req[r] # Idle
      BY <1>1 DEF Inv, Typed, Idle
    <3>2. ~UNCHANGED req BY <1>1, <3>1
    <3>3. ~(AddByHand \/ RemoveUser \/ UNCHANGED vars) BY <3>2 DEF AddByHand, RemoveUser, vars
    <3>4. ~RedmineChanges BY <1>1, <3>1 DEF RedmineChanges
    <3>5. PICK s \in Requests : ScanStart(s) \/ BulkStart(s) \/ Step(s) BY <1>1, <3>3, <3>4 DEF Next
    <3>6. \E new : req' = [req EXCEPT ![s] = new]
      BY <3>5 DEF Step, Goes, Ends, ScanStart, BulkStart, FetchPage, FetchAll, FetchFails, Fetched, Search,
                  SearchRaises, BatchDone, Check, Insert, DeadlockBroken, Raises, BulkCommit
    <3>7. s = r BY <1>1, <3>1, <3>6
    <3>8. ~(ScanStart(r) \/ BulkStart(r)) BY <3>1 DEF ScanStart, BulkStart
    <3>9. ~(FetchPage(r) \/ FetchAll(r) \/ FetchFails(r) \/ Search(r) \/ SearchRaises(r) \/ BatchDone(r))
      BY <1>1 DEF FetchPage, FetchAll, FetchFails, Search, SearchRaises, BatchDone, Scanning
    <3>10. ~(Check(r) \/ Insert(r) \/ DeadlockBroken(r))
      <4>1. req'[r].op # "bulk" BY <1>1 DEF Idle
      <4>2. ASSUME NEW new, Goes(r, new) PROVE new.op # "bulk" BY <3>1, <4>1, <4>2 DEF Goes
      <4>3. /\ NextRow(req[r]).op = "bulk" /\ Failed(req[r]).op = "bulk"
            /\ [req[r] EXCEPT !.at = "insert"].op = "bulk"
        BY <1>1, <2>1 DEF NextRow, Failed, BulkRec
      <4>4. \A c, p, room : [NextRow(req[r]) EXCEPT !.created = c, !.rows[p] = room].op = "bulk"
        BY <1>1, <2>1 DEF NextRow, BulkRec
      <4>5. ~Check(r) /\ ~DeadlockBroken(r) BY <4>2, <4>3 DEF Check, DeadlockBroken
      <4>6. ~Insert(r)
        <5> SUFFICES ASSUME Insert(r) PROVE FALSE OBVIOUS
        <5> DEFINE q == req[r]  p == Current(q)
        <5>1. CASE users[p] # NoRow BY <4>2, <4>3, <5>1 DEF Insert
        <5>2. CASE users[p] = NoRow
          <6>1. Goes(r, [NextRow(q) EXCEPT !.created = @ \cup {p}, !.rows[p] = RoomFor(q.body[q.i])])
            BY <5>2 DEF Insert
          <6>2. [NextRow(q) EXCEPT !.created = @ \cup {p}, !.rows[p] = RoomFor(q.body[q.i])].op # "bulk"
            BY <4>2, <6>1
          <6>3. [NextRow(q) EXCEPT !.created = NextRow(q).created \cup {p},
                                   !.rows[p] = RoomFor(q.body[q.i])].op = "bulk"
            BY <4>4
          <6> QED BY <6>2, <6>3
        <5> QED BY <5>1, <5>2
      <4> QED BY <4>5, <4>6
    <3> QED BY <3>5, <3>7, <3>8, <3>9, <3>10 DEF Step
  <2>4. CASE BulkCommit(r)
    <3>1. /\ ~req[r].failed
          /\ users' = [p \in Persons |-> IF req[r].rows[p] # NoRow THEN req[r].rows[p] ELSE users[p]]
      BY <2>4 DEF BulkCommit
    <3>2. \A p \in Persons : p \in req[r].created <=> req[r].rows[p] # NoRow BY <2>1, <3>1 DEF BulkFine
    <3>3. ASSUME NEW p \in req[r].created
          PROVE  users[p] = NoRow /\ \E i \in DOMAIN req[r].body :
                   req[r].body[i].person = p /\ users'[p] = RoomFor(req[r].body[i])
      <4>1. p \in Persons /\ req[r].rows[p] # NoRow BY <2>2, <3>2
      <4>2. users'[p] = req[r].rows[p] BY <3>1, <4>1
      <4> QED BY <2>1, <2>2, <4>1, <4>2 DEF BulkFine
    <3> QED BY <3>1, <3>2, <3>3
  <2>5. CASE Raises(r) BY <2>5 DEF Raises
  <2> QED BY <2>3, <2>4, <2>5
<1>2. Inv /\ [Next]_vars =>
        [\A r \in Requests :
           req[r].op = "bulk" /\ req'[r] = Idle =>
             /\ ~req[r].failed => \A p \in req[r].created :
                  users[p] = NoRow /\ \E i \in DOMAIN req[r].body :
                    req[r].body[i].person = p /\ users'[p] = RoomFor(req[r].body[i])
             /\ \A p \in Persons : req[r].failed \/ p \notin req[r].created => users'[p] = users[p]]_vars
  BY <1>1
<1> QED BY <1>2, Invariance, PTL DEF Spec, AnswerIsTrue
=============================================================================
