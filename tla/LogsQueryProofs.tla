-------------------------- MODULE LogsQueryProofs --------------------------
(***************************************************************************)
(* What /logs shows is what was asked for, pages are filled, and who walks *)
(* to the last page has missed nothing, in a guild what commands logged    *)
(* there: for any entries, filters, size of a page and number of           *)
(* interactions under way.                                                 *)
(***************************************************************************)
EXTENDS LogsQuery, AuditLog, FiniteSetTheorems, TLAPS

-----------------------------------------------------------------------------
(* Pages *)

\* The entries of a set that come before an entry in every order of the set.
LaterThan(logs, l) == {m \in logs : Time[m] > Time[l]}

\* The first n of a finite set are of it, n if it has so many, and latest first.
LEMMA FirstOfFacts ==
  ASSUME NEW logs, IsFiniteSet(logs), NEW n \in Nat, NEW first \in FirstOf(logs, n)
  PROVE  /\ first \subseteq logs /\ IsFiniteSet(first)
         /\ Cardinality(first) \in Nat /\ Cardinality(logs) \in Nat
         /\ n <= Cardinality(logs) => Cardinality(first) = n
         /\ n >= Cardinality(logs) => Cardinality(first) = Cardinality(logs)
         /\ \A l \in first, m \in logs \ first : Time[l] >= Time[m]
<1>1. /\ first \in SUBSET logs
      /\ Cardinality(first) = AtMost(n, Cardinality(logs))
      /\ \A l \in first, m \in logs \ first : Time[l] >= Time[m]
  BY DEF FirstOf
<1>2. IsFiniteSet(first)
  BY <1>1, FS_Subset
<1>3. Cardinality(first) \in Nat /\ Cardinality(logs) \in Nat
  BY <1>2, FS_CardinalityType
<1> QED
  BY <1>1, <1>2, <1>3 DEF AtMost

\* What a query may answer: entries of the set, as many as there are for the
\* page, and among them every entry whose place is on the page in every order.
LEMMA PageShows ==
  ASSUME NEW logs \in SUBSET Logs, IsFiniteSet(logs), NEW skip \in Nat, NEW limit \in Nat,
         NEW page \in PagesOf(logs, skip, limit)
  PROVE  /\ page \subseteq logs
         /\ skip + limit <= Cardinality(logs) => Cardinality(page) = limit
         /\ skip < Cardinality(logs) /\ limit > 0 => page # {}
         /\ \A l \in logs :
              /\ Unique(l)
              /\ skip <= Cardinality(LaterThan(logs, l))
              /\ Cardinality(LaterThan(logs, l)) < skip + limit
              => l \in page
<1>1. PICK before \in FirstOf(logs, skip) : page \in FirstOf(logs \ before, limit)
  BY DEF PagesOf
<1> DEFINE rest == logs \ before
<1>2. /\ before \subseteq logs /\ IsFiniteSet(before)
      /\ Cardinality(before) \in Nat /\ Cardinality(logs) \in Nat
      /\ skip <= Cardinality(logs) => Cardinality(before) = skip
      /\ skip >= Cardinality(logs) => Cardinality(before) = Cardinality(logs)
      /\ \A l \in before, m \in rest : Time[l] >= Time[m]
  BY <1>1, FirstOfFacts
<1>3. /\ IsFiniteSet(rest)
      /\ Cardinality(rest) = Cardinality(logs) - Cardinality(before)
  <2>1. IsFiniteSet(logs \ before) /\ Cardinality(logs \ before)
          = Cardinality(logs) - Cardinality(logs \cap before)
    BY FS_Difference
  <2>2. logs \cap before = before
    BY <1>2
  <2> QED
    BY <2>1, <2>2
<1>4. /\ page \subseteq rest /\ IsFiniteSet(page)
      /\ Cardinality(page) \in Nat /\ Cardinality(rest) \in Nat
      /\ limit <= Cardinality(rest) => Cardinality(page) = limit
      /\ limit >= Cardinality(rest) => Cardinality(page) = Cardinality(rest)
      /\ \A l \in page, m \in rest \ page : Time[l] >= Time[m]
  BY <1>1, <1>3, FirstOfFacts
<1>5. skip + limit <= Cardinality(logs) => Cardinality(page) = limit
  BY <1>2, <1>3, <1>4
<1>6. skip < Cardinality(logs) /\ limit > 0 => page # {}
  <2>1. skip < Cardinality(logs) /\ limit > 0 => Cardinality(page) > 0
    BY <1>2, <1>3, <1>4
  <2> QED
    BY <2>1, FS_EmptySet
<1>7. ASSUME NEW l \in logs, Unique(l),
             skip <= Cardinality(LaterThan(logs, l)),
             Cardinality(LaterThan(logs, l)) < skip + limit,
             l \notin page
      PROVE  FALSE
  <2> DEFINE later == LaterThan(logs, l)
  <2>1. /\ later \subseteq logs /\ l \notin later
        /\ \A m \in logs : m # l => (Time[m] >= Time[l] => m \in later)
    <3>1. \A m \in logs : Time[m] \in Nat
      BY QueryAssumption
    <3>2. l \notin later
      BY <1>7, <3>1 DEF LaterThan
    <3>3. ASSUME NEW m \in logs, m # l, Time[m] >= Time[l] PROVE m \in later
      <4>1. Time[m] # Time[l]
        BY <1>7, <3>3 DEF Unique
      <4> QED
        BY <1>7, <3>1, <3>3, <4>1 DEF LaterThan
    <3> QED
      BY <3>2, <3>3 DEF LaterThan
  <2> HIDE DEF later
  <2>2. /\ IsFiniteSet(later) /\ Cardinality(later) \in Nat
        /\ IsFiniteSet(later \cup {l}) /\ Cardinality(later \cup {l}) = Cardinality(later) + 1
        /\ Cardinality(later \cup {l}) <= Cardinality(logs)
    <3>1. IsFiniteSet(later)
      BY <2>1, FS_Subset
    <3>2. IsFiniteSet(later \cup {l}) /\ Cardinality(later \cup {l}) = Cardinality(later) + 1
      BY <2>1, <3>1, FS_AddElement
    <3>3. later \cup {l} \in SUBSET logs
      BY <1>7, <2>1
    <3> QED
      BY <3>1, <3>2, <3>3, FS_CardinalityType, FS_Subset
  <2>3. Cardinality(before) = skip
    BY <1>2, <1>7, <2>2 DEF later
  <2>4. l \notin before
    <3> SUFFICES ASSUME l \in before PROVE FALSE
      OBVIOUS
    <3>1. ASSUME NEW m \in later PROVE m \in before
      <4>1. Time[m] > Time[l] /\ Time[m] \in Nat /\ Time[l] \in Nat /\ m \in logs
        BY <1>7, <3>1, QueryAssumption DEF later, LaterThan
      <4> QED
        BY <1>2, <4>1
    <3>2. later \cup {l} \in SUBSET before
      BY <3>1
    <3>3. Cardinality(later \cup {l}) <= Cardinality(before)
      BY <1>2, <3>2, FS_Subset
    <3> QED
      BY <1>7, <2>2, <2>3, <3>3 DEF later
  <2>5. before \cup page \in SUBSET later
    <3>1. l \in rest \ page
      BY <1>7, <2>4
    <3>2. \A m \in before : Time[m] >= Time[l] /\ m \in logs
      BY <1>2, <3>1
    <3>3. \A m \in page : Time[m] >= Time[l] /\ m \in logs
      BY <1>4, <3>1
    <3>4. l \notin before \cup page
      BY <1>7, <2>4
    <3> QED
      BY <2>1, <3>2, <3>3, <3>4
  <2>6. Cardinality(before \cup page) = Cardinality(before) + Cardinality(page)
    <3>1. before \cap page = {}
      BY <1>4
    <3>2. Cardinality(before \cup page)
            = Cardinality(before) + Cardinality(page) - Cardinality(before \cap page)
      BY <1>2, <1>4, FS_Union
    <3>3. Cardinality(before \cap page) = 0
      BY <3>1, FS_EmptySet
    <3> QED
      BY ONLY <1>2, <1>4, <3>2, <3>3
  <2>7. Cardinality(before) + Cardinality(page) <= Cardinality(later)
    BY <2>2, <2>5, <2>6, FS_Subset
  <2> QED
    BY <1>2, <1>3, <1>4, <1>7, <2>2, <2>3, <2>7 DEF later
<1> QED
  BY <1>2, <1>4, <1>5, <1>6, <1>7

\* The number of pages: enough for all entries, the last not too many.
LEMMA PagesCover ==
  ASSUME NEW total \in Nat
  PROVE  /\ TotalPages(total) \in Nat \ {0}
         /\ total <= TotalPages(total) * PageSize
         /\ total = 0 => TotalPages(total) = 1
         /\ \A p \in Nat : p < TotalPages(total) => p * PageSize < total \/ p = 0
<1> DEFINE sum == total + PageSize - 1
           pages == sum \div PageSize
<1>1. PageSize \in Nat \ {0} /\ sum \in Nat
  BY QueryAssumption
<1>2. pages \in Nat /\ pages * PageSize <= sum /\ sum < pages * PageSize + PageSize
  BY <1>1
<1>3. TotalPages(total) = IF pages < 1 THEN 1 ELSE pages
  BY DEF TotalPages, AtLeastOne
<1>4. pages * PageSize \in Nat
  BY <1>1, <1>2
<1>5. total <= pages * PageSize
  BY <1>1, <1>2, <1>4
<1>6. total = 0 => pages = 0
  <2> SUFFICES ASSUME total = 0, pages >= 1 PROVE FALSE
    BY <1>2
  <2>1. pages * PageSize >= 1 * PageSize
    BY <1>1, <1>2
  <2> QED
    BY <1>1, <1>2, <1>4, <2>1
<1>7. ASSUME NEW p \in Nat, p < TotalPages(total), p # 0 PROVE p * PageSize < total
  <2>1. p + 1 <= pages
    BY <1>2, <1>3, <1>7
  <2>2. (p + 1) * PageSize <= pages * PageSize
    BY <1>1, <1>2, <2>1
  <2>3. (p + 1) * PageSize = p * PageSize + PageSize /\ p * PageSize \in Nat
    BY <1>1
  <2> QED
    BY <1>1, <1>2, <1>4, <2>2, <2>3
<1>8. pages = 0 => total = 0
  BY <1>1, <1>2, <1>5
<1>9. total <= TotalPages(total) * PageSize
  <2>1. CASE pages < 1
    BY <1>1, <1>2, <1>3, <1>8, <2>1
  <2>2. CASE pages >= 1
    BY <1>2, <1>3, <1>5, <2>2
  <2> QED
    BY <1>2, <2>1, <2>2
<1> QED
  BY <1>2, <1>3, <1>6, <1>7, <1>9

-----------------------------------------------------------------------------
(* The invariant *)

AllFilters == Filters \cup {NoFilter}

Counting == [pc : {"count"}, filter : AllFilters, page : Nat]

Finding ==
  [pc : {"find"}, filter : AllFilters, total : Nat, totalPages : Nat, page : Nat]

Found ==
  [pc : {"edit"}, filter : AllFilters, total : Nat, totalPages : Nat, page : Nat,
   logs : SUBSET Logs, found : Nat]

QueryTypeOK ==
  /\ stored \in SUBSET Logs /\ IsFiniteSet(stored)
  /\ interaction \in [Interactions -> {Idle} \cup Counting \cup Finding \cup Found]
  /\ message \in Found \cup {NoMessage}
  /\ asked \in AllFilters
  /\ initial \in SUBSET stored
  /\ seen \in SUBSET Logs

\* The entries that the walk must not miss.
Walked == {l \in initial \cap Match[asked] : Unique(l)}

\* How many entries come before an entry, whatever the order MongoDB chooses.
Rank(l) == Cardinality(LaterThan(Matching(asked), l))

\* The walk has come to place n: an entry not shown is at n or beyond.  Later
\* entries only push it further.
Reached(n, shown) == \A l \in Walked : l \in seen \cup shown \/ Rank(l) >= n

\* The page is one of the pages counted, and "none" counted nothing.
Bounded(q) ==
  /\ q.totalPages = TotalPages(q.total)
  /\ q.page \in 1 .. q.totalPages
  /\ q.filter \in NoneFilters => q.total = 0

Filled(q) ==
  /\ q.page < q.totalPages => Cardinality(q.logs) = PageSize
  /\ q.total > 0 => q.logs # {}
  /\ q.logs \subseteq Match[q.filter]

\* What a page says, once the entries "shown" count as seen.
PageInv(q, shown) ==
  /\ Bounded(q)
  /\ Filled(q)
  /\ Reached(q.page * PageSize, shown)
  /\ q.page = q.totalPages /\ UpToDate(q) => Walked \subseteq seen \cup shown

\* What an interaction under way knows.
QueryInv(q) ==
  /\ q.filter = asked
  /\ q.pc = "count" => Reached((q.page - 1) * PageSize, {})
  /\ q.pc = "find" =>
       /\ Bounded(q)
       /\ q.total <= Cardinality(Matching(asked))
       /\ Reached((q.page - 1) * PageSize, {})
  /\ q.pc = "edit" => PageInv(q, q.logs)

WalkInv ==
  /\ QueryTypeOK
  /\ \A i \in Interactions : interaction[i] # Idle => QueryInv(interaction[i])
  /\ message # NoMessage => message.filter = asked /\ PageInv(message, {})

-----------------------------------------------------------------------------
(* What time does *)

\* An entry of the walk is stored, and its rank is less than what matches.
LEMMA RankFacts ==
  ASSUME QueryTypeOK
  PROVE  /\ IsFiniteSet(Matching(asked)) /\ Cardinality(Matching(asked)) \in Nat
         /\ Matching(asked) \in SUBSET Logs
         /\ \A l \in Walked :
              /\ l \in Matching(asked) /\ Unique(l)
              /\ Rank(l) \in Nat /\ Rank(l) < Cardinality(Matching(asked))
<1>1. IsFiniteSet(Matching(asked)) /\ Matching(asked) \in SUBSET Logs
  BY FS_Subset DEF Matching, QueryTypeOK
<1>2. Cardinality(Matching(asked)) \in Nat
  BY <1>1, FS_CardinalityType
<1>3. ASSUME NEW l \in Walked
      PROVE  /\ l \in Matching(asked) /\ Unique(l)
             /\ Rank(l) \in Nat /\ Rank(l) < Cardinality(Matching(asked))
  <2>1. l \in Matching(asked) /\ Unique(l)
    BY <1>3 DEF Walked, Matching, QueryTypeOK
  <2> DEFINE later == LaterThan(Matching(asked), l)
  <2>2. later \in SUBSET Matching(asked) /\ l \notin later
    <3>1. Time[l] \in Nat
      BY <1>1, <2>1, QueryAssumption
    <3> QED
      BY <3>1 DEF LaterThan
  <2>3. IsFiniteSet(later) /\ Cardinality(later) \in Nat
    BY <1>1, <2>2, FS_Subset, FS_CardinalityType
  <2>4. later # Matching(asked)
    BY <2>1, <2>2
  <2>5. Cardinality(later) < Cardinality(Matching(asked))
    <3>1. /\ Cardinality(later) <= Cardinality(Matching(asked))
          /\ Cardinality(later) = Cardinality(Matching(asked)) => later = Matching(asked)
      BY <1>1, <2>2, FS_Subset
    <3> QED
      BY <1>2, <2>3, <2>4, <3>1
  <2> QED
    BY <2>1, <2>3, <2>5 DEF Rank
<1> QED
  BY <1>1, <1>2, <1>3

\* While the command stands, entries only arrive and more of them are seen.
OnlyMore ==
  /\ stored \subseteq stored' /\ IsFiniteSet(stored')
  /\ asked' = asked /\ initial' = initial
  /\ seen \subseteq seen'

\* The walk is the same, and no entry of it has come closer.
LEMMA RanksGrow ==
  ASSUME QueryTypeOK, OnlyMore
  PROVE  /\ Walked' = Walked
         /\ \A l \in Walked : Rank(l) \in Nat /\ Rank(l)' \in Nat /\ Rank(l) <= Rank(l)'
         /\ Cardinality(Matching(asked)) \in Nat /\ Cardinality(Matching(asked))' \in Nat
         /\ Cardinality(Matching(asked)) <= Cardinality(Matching(asked))'
<1>1. Walked' = Walked
  BY DEF Walked, OnlyMore
<1>2. Matching(asked) \in SUBSET Matching(asked)' /\ IsFiniteSet(Matching(asked)')
  <2>1. Matching(asked)' = stored' \cap Match[asked]
    BY DEF Matching, OnlyMore
  <2>2. IsFiniteSet(stored') /\ Matching(asked)' \in SUBSET stored'
    BY <2>1 DEF OnlyMore
  <2>3. IsFiniteSet(Matching(asked)')
    BY <2>2, FS_Subset
  <2> QED
    BY <2>1, <2>3 DEF Matching, OnlyMore
<1>3. /\ Cardinality(Matching(asked)) \in Nat /\ Cardinality(Matching(asked))' \in Nat
      /\ Cardinality(Matching(asked)) <= Cardinality(Matching(asked))'
  BY <1>2, FS_Subset, FS_CardinalityType, RankFacts
<1>4. ASSUME NEW l \in Walked
      PROVE  Rank(l) \in Nat /\ Rank(l)' \in Nat /\ Rank(l) <= Rank(l)'
  <2>1. LaterThan(Matching(asked), l) \in SUBSET LaterThan(Matching(asked)', l)
    BY <1>2 DEF LaterThan
  <2>2. LaterThan(Matching(asked)', l) \in SUBSET (Matching(asked)')
    BY DEF LaterThan
  <2>3. IsFiniteSet(LaterThan(Matching(asked)', l))
    BY <1>2, <2>2, FS_Subset
  <2>4. /\ Rank(l) = Cardinality(LaterThan(Matching(asked), l))
        /\ Rank(l)' = Cardinality(LaterThan(Matching(asked)', l))
    BY DEF Rank, LaterThan
  <2> QED
    BY <2>1, <2>3, <2>4, FS_Subset, FS_CardinalityType
<1> QED
  BY <1>1, <1>3, <1>4

\* So the place that the walk has come to, it keeps.
LEMMA ReachRests ==
  ASSUME QueryTypeOK, OnlyMore, NEW n \in Int, NEW shown, Reached(n, shown)
  PROVE  Reached(n, shown)'
<1>1. /\ Walked' = Walked /\ seen \subseteq seen'
      /\ \A l \in Walked : Rank(l) \in Nat /\ Rank(l)' \in Nat /\ Rank(l) <= Rank(l)'
  BY RanksGrow DEF OnlyMore
<1>2. ASSUME NEW l \in Walked PROVE l \in seen' \cup shown \/ Rank(l)' >= n
  BY <1>1 DEF Reached
<1> QED
  BY <1>1, <1>2 DEF Reached

\* What a page says, it goes on saying, when what it shows comes to be seen too.
LEMMA PageRests ==
  ASSUME QueryTypeOK, OnlyMore, NEW q, q.page \in Nat, NEW shown, NEW less, PageInv(q, shown),
         shown \subseteq seen' \cup less
  PROVE  PageInv(q, less)'
<1>1. Reached(q.page * PageSize, less)'
  <2>1. q.page * PageSize \in Int
    BY QueryAssumption
  <2>2. Reached(q.page * PageSize, shown)'
    BY <2>1, ReachRests DEF PageInv
  <2> QED
    BY <2>2 DEF Reached
<1>2. q.page = q.totalPages /\ UpToDate(q) => Walked' \subseteq seen' \cup less
  <2>1. Walked' = Walked /\ seen \subseteq seen'
    BY RanksGrow DEF OnlyMore
  <2> QED
    BY <2>1 DEF PageInv
<1>3. Bounded(q) /\ Filled(q)
  BY DEF PageInv
<1> QED
  BY <1>1, <1>2, <1>3 DEF PageInv

\* So what an interaction knows, it goes on knowing.
LEMMA QueryRests ==
  ASSUME QueryTypeOK, OnlyMore, NEW q \in Counting \cup Finding \cup Found, QueryInv(q)
  PROVE  QueryInv(q)'
<1>1. asked' = asked /\ q.filter = asked
  BY DEF QueryInv, OnlyMore
<1>2. q.page \in Nat /\ (q.page - 1) * PageSize \in Int
  <2>1. q.page \in Nat
    BY DEF Counting, Finding, Found
  <2> QED
    BY <2>1, QueryAssumption
<1>3. CASE q.pc = "count"
  <2>1. Reached((q.page - 1) * PageSize, {})'
    BY <1>2, <1>3, ReachRests DEF QueryInv
  <2> QED
    BY <1>1, <1>3, <2>1 DEF QueryInv
<1>4. CASE q.pc = "find"
  <2>1. Reached((q.page - 1) * PageSize, {})'
    BY <1>2, <1>4, ReachRests DEF QueryInv
  <2>2. q.total <= Cardinality(Matching(asked))'
    <3>1. q \in Finding
      BY <1>4 DEF Counting, Found
    <3>2. q.total \in Nat /\ q.total <= Cardinality(Matching(asked))
      BY <1>4, <3>1 DEF QueryInv, Finding
    <3> QED
      BY <3>2, RanksGrow
  <2>3. Bounded(q)
    BY <1>4 DEF QueryInv
  <2> QED
    BY <1>1, <1>4, <2>1, <2>2, <2>3 DEF QueryInv
<1>5. CASE q.pc = "edit"
  <2>1. PageInv(q, q.logs)'
    BY <1>2, <1>5, PageRests DEF QueryInv
  <2> QED
    BY <1>1, <1>5, <2>1 DEF QueryInv
<1> QED
  BY <1>3, <1>4, <1>5 DEF Counting, Finding, Found

-----------------------------------------------------------------------------
(* Steps *)

Steps == Counting \cup Finding \cup Found

LEMMA InitWalk == Init => WalkInv
  BY DEF Init, WalkInv, QueryTypeOK, AllFilters

\* Whoever the step is not of knows what it knew.
LEMMA OthersRest ==
  ASSUME WalkInv, OnlyMore, NEW j \in Interactions,
         interaction'[j] = interaction[j], interaction'[j] # Idle
  PROVE  QueryInv(interaction[j])'
<1>1. PICK q : q = interaction'[j]
  OBVIOUS
<1>2. q \in Steps /\ QueryInv(q)
  BY <1>1 DEF WalkInv, QueryTypeOK, Steps
<1>3. QueryInv(q)'
  BY <1>2, QueryRests DEF WalkInv, Steps
<1> QED
  BY <1>1, <1>3 DEF QueryInv, PageInv, Reached

\* A message that is not edited says what it said.
LEMMA MessageRests ==
  ASSUME WalkInv, OnlyMore, message' = message, message # NoMessage
  PROVE  message'.filter = asked' /\ PageInv(message, {})'
<1>1. PICK m : m = message
  OBVIOUS
<1>2. m \in Found /\ m.filter = asked /\ PageInv(m, {})
  BY <1>1 DEF WalkInv, QueryTypeOK
<1>3. m.page \in Nat
  BY <1>2 DEF Found
<1>4. PageInv(m, {})'
  BY <1>2, <1>3, PageRests DEF WalkInv
<1>5. m.filter = asked'
  BY <1>2 DEF OnlyMore
<1> QED
  BY <1>1, <1>4, <1>5 DEF PageInv, Reached

\* An interaction goes on with what it has learnt.
LEMMA GoesOn ==
  ASSUME WalkInv, NEW i \in Interactions, NEW r \in Steps, QueryInv(r),
         interaction' = [interaction EXCEPT ![i] = r],
         UNCHANGED <<stored, message, asked, initial, seen>>
  PROVE  WalkInv'
<1>1. QueryTypeOK /\ OnlyMore
  BY DEF WalkInv, QueryTypeOK, OnlyMore
<1>2. QueryTypeOK'
  BY <1>1 DEF QueryTypeOK, Steps
<1>3. ASSUME NEW j \in Interactions, interaction'[j] # Idle
      PROVE  QueryInv(interaction[j])'
  <2>1. CASE j = i
    <3>1. QueryInv(r)'
      BY <1>1, QueryRests DEF Steps
    <3>2. interaction'[j] = r
      BY <1>1, <2>1 DEF QueryTypeOK
    <3> QED
      BY <3>1, <3>2 DEF QueryInv, PageInv, Reached
  <2>2. CASE j # i
    <3>1. interaction'[j] = interaction[j]
      BY <1>1, <2>2 DEF QueryTypeOK
    <3> QED
      BY <1>1, <1>3, <3>1, OthersRest
  <2> QED
    BY <2>1, <2>2
<1> QED
  BY <1>1, <1>2, <1>3, MessageRests DEF WalkInv

\* The search that nothing matches counts nothing.
LEMMA NoneCounts ==
  ASSUME QueryTypeOK, asked \in NoneFilters
  PROVE  Cardinality(Matching(asked)) = 0
<1>1. Matching(asked) = {}
  BY QueryAssumption DEF Matching
<1> QED
  BY <1>1, FS_EmptySet

LEMMA CountKeeps ==
  ASSUME WalkInv, NEW i \in Interactions, Count(i)
  PROVE  WalkInv'
<1>1. PICK q : q = interaction[i]
  OBVIOUS
<1>2. q \in Counting /\ QueryInv(q) /\ QueryTypeOK
  BY <1>1 DEF WalkInv, QueryTypeOK, Count, Idle, Finding, Found
<1>3. PICK total : total = Cardinality(Matching(asked))
  OBVIOUS
<1>4. PICK pages : pages = TotalPages(total)
  OBVIOUS
<1>5. PICK page : page = NormalizePage(q.page, pages)
  OBVIOUS
<1>6. total \in Nat /\ pages \in Nat \ {0}
  BY <1>2, <1>3, <1>4, RankFacts, PagesCover
<1>7. page \in 1 .. pages /\ page \in Nat /\ (page <= q.page \/ page = 1)
  BY <1>2, <1>5, <1>6 DEF Counting, NormalizePage, AtMost
<1>8. Reached((page - 1) * PageSize, {})
  <2>1. ASSUME NEW l \in Walked PROVE l \in seen \cup {} \/ Rank(l) >= (page - 1) * PageSize
    <3>1. Rank(l) \in Nat /\ PageSize \in Nat \ {0} /\ q.page \in Nat
      BY <1>2, RankFacts, QueryAssumption DEF Counting
    <3>2. CASE page = 1
      BY <3>1, <3>2
    <3>3. CASE page <= q.page
      <4>1. (page - 1) * PageSize <= (q.page - 1) * PageSize
        BY <1>7, <3>1, <3>3
      <4>2. (page - 1) * PageSize \in Int /\ (q.page - 1) * PageSize \in Int
        BY <1>7, <3>1
      <4>3. l \in seen \cup {} \/ Rank(l) >= (q.page - 1) * PageSize
        BY <1>2 DEF QueryInv, Reached, Counting
      <4> QED
        BY <3>1, <4>1, <4>2, <4>3
    <3> QED
      BY <1>7, <3>2, <3>3
  <2> QED
    BY <2>1 DEF Reached
<1>9. PICK r : r = [pc |-> "find", filter |-> q.filter, total |-> total,
                    totalPages |-> pages, page |-> page]
  OBVIOUS
<1>10. q.filter = asked
  BY <1>2 DEF QueryInv
<1>11. r \in Steps
  BY <1>2, <1>6, <1>7, <1>9 DEF Steps, Finding, Counting
<1>12. QueryInv(r)
  <2>1. asked \in NoneFilters => total = 0
    BY <1>2, <1>3, NoneCounts
  <2>2. Bounded(r)
    BY <1>4, <1>7, <1>9, <1>10, <2>1 DEF Bounded
  <2> QED
    BY <1>3, <1>6, <1>8, <1>9, <1>10, <2>2 DEF QueryInv
<1>13. /\ interaction' = [interaction EXCEPT ![i] = r]
       /\ UNCHANGED <<stored, message, asked, initial, seen>>
  BY <1>1, <1>3, <1>4, <1>5, <1>9, <1>10 DEF Count
<1> QED
  BY <1>11, <1>12, <1>13, GoesOn

LEMMA FindKeeps ==
  ASSUME WalkInv, NEW i \in Interactions, Find(i)
  PROVE  WalkInv'
<1>1. PICK q : q = interaction[i]
  OBVIOUS
<1>2. q \in Finding /\ QueryInv(q) /\ QueryTypeOK
  BY <1>1 DEF WalkInv, QueryTypeOK, Find, Idle, Counting, Found
<1>3. PICK all : all = Matching(asked)
  OBVIOUS
<1>4. PICK n : n = Cardinality(all)
  OBVIOUS
<1>5. /\ q.filter = asked /\ q.pc = "find"
      /\ Bounded(q) /\ q.total <= n /\ Reached((q.page - 1) * PageSize, {})
  BY <1>2, <1>3, <1>4 DEF QueryInv, Finding
<1>6. /\ all \in SUBSET Logs /\ IsFiniteSet(all) /\ n \in Nat
      /\ \A l \in Walked : l \in all /\ Unique(l) /\ Rank(l) \in Nat /\ Rank(l) < n
      /\ \A l \in Walked : Rank(l) = Cardinality(LaterThan(all, l))
  BY <1>2, <1>3, <1>4, RankFacts DEF Rank
<1>7. PICK skip : skip = (q.page - 1) * PageSize
  OBVIOUS
<1>8. /\ q.page \in Nat \ {0} /\ q.totalPages \in Nat /\ q.total \in Nat
      /\ PageSize \in Nat \ {0}
      /\ skip \in Nat /\ skip + PageSize = q.page * PageSize
      /\ q.page <= q.totalPages
  BY <1>2, <1>5, <1>7, QueryAssumption DEF Finding, Bounded
<1>9. PICK logs \in PagesOf(all, skip, PageSize) :
        interaction' = [interaction EXCEPT ![i] =
          [pc |-> "edit", filter |-> q.filter, total |-> q.total,
           totalPages |-> q.totalPages, page |-> q.page, logs |-> logs, found |-> n]]
  BY <1>1, <1>3, <1>4, <1>5, <1>7 DEF Find
<1>10. /\ logs \subseteq all
       /\ skip + PageSize <= n => Cardinality(logs) = PageSize
       /\ skip < n => logs # {}
       /\ \A l \in all :
            /\ Unique(l)
            /\ skip <= Cardinality(LaterThan(all, l))
            /\ Cardinality(LaterThan(all, l)) < skip + PageSize
            => l \in logs
  BY <1>4, <1>6, <1>8, <1>9, PageShows
<1>11. PICK r : r = [pc |-> "edit", filter |-> q.filter, total |-> q.total,
                     totalPages |-> q.totalPages, page |-> q.page, logs |-> logs, found |-> n]
  OBVIOUS
<1>12. r \in Steps
  BY <1>2, <1>6, <1>10, <1>11 DEF Steps, Finding, Found
<1>13. Bounded(r)
  BY <1>5, <1>11 DEF Bounded
<1>14. /\ q.total <= q.totalPages * PageSize
       /\ q.total = 0 => q.totalPages = 1
       /\ \A p \in Nat : p < q.totalPages => p * PageSize < q.total \/ p = 0
  BY <1>5, <1>8, PagesCover DEF Bounded
<1>15. Filled(r)
  <2>1. q.page < q.totalPages => Cardinality(logs) = PageSize
    <3>1. q.page < q.totalPages => q.page * PageSize < q.total
      BY <1>8, <1>14
    <3> QED
      BY <1>5, <1>6, <1>8, <1>10, <3>1
  <2>2. q.total > 0 => logs # {}
    <3>1. q.page - 1 \in Nat /\ q.page - 1 < q.totalPages
      BY <1>8
    <3>2. skip < q.total \/ q.page - 1 = 0
      BY <1>7, <1>14, <3>1
    <3>3. q.page - 1 = 0 => skip = 0
      BY <1>7, <1>8
    <3> QED
      BY <1>5, <1>6, <1>8, <1>10, <3>2, <3>3
  <2>3. logs \subseteq Match[q.filter]
    BY <1>3, <1>5, <1>10 DEF Matching
  <2> QED
    BY <1>11, <2>1, <2>2, <2>3 DEF Filled
<1>16. ASSUME NEW l \in Walked PROVE l \in seen \cup logs \/ Rank(l) >= q.page * PageSize
  <2>1. l \in seen \/ Rank(l) >= skip
    BY <1>5, <1>7 DEF Reached
  <2> QED
    BY <1>6, <1>8, <1>10, <2>1
<1>17. q.page = q.totalPages /\ n = q.total => Walked \subseteq seen \cup logs
  <2> SUFFICES ASSUME q.page = q.totalPages, n = q.total, NEW l \in Walked
               PROVE  l \in seen \cup logs
    OBVIOUS
  <2>1. Rank(l) < q.page * PageSize /\ q.page * PageSize \in Nat
    BY <1>6, <1>8, <1>14
  <2> QED
    BY <1>6, <1>16, <2>1
<1>18. QueryInv(r)
  <2>1. Reached(r.page * PageSize, r.logs)
    BY <1>11, <1>16 DEF Reached
  <2>2. r.page = r.totalPages /\ UpToDate(r) => Walked \subseteq seen \cup r.logs
    BY <1>11, <1>17 DEF UpToDate
  <2>3. PageInv(r, r.logs)
    BY <1>13, <1>15, <2>1, <2>2 DEF PageInv
  <2> QED
    BY <1>5, <1>11, <2>3 DEF QueryInv
<1>19. /\ interaction' = [interaction EXCEPT ![i] = r]
       /\ UNCHANGED <<stored, message, asked, initial, seen>>
  BY <1>9, <1>11 DEF Find
<1> QED
  BY <1>12, <1>18, <1>19, GoesOn

\* The command is given when nothing has been shown, and nothing is under way.
LEMMA ExecuteKeeps ==
  ASSUME WalkInv, NEW i \in Interactions, Execute(i)
  PROVE  WalkInv'
<1>1. PICK filter \in AllFilters :
        /\ interaction' = [interaction EXCEPT ![i] = [pc |-> "count", filter |-> filter, page |-> 0]]
        /\ asked' = filter
  BY DEF Execute, Query, AllFilters
<1>2. /\ message = NoMessage /\ \A j \in Interactions : interaction[j] = Idle
      /\ initial' = stored /\ stored' = stored /\ message' = message /\ seen' = seen
  BY DEF Execute
<1>3. PICK r : r = [pc |-> "count", filter |-> filter, page |-> 0]
  OBVIOUS
<1>4. r \in Counting
  BY <1>3 DEF Counting
<1>5. QueryTypeOK'
  BY <1>1, <1>2, <1>3, <1>4 DEF WalkInv, QueryTypeOK
<1>6. ASSUME NEW j \in Interactions, interaction'[j] # Idle
      PROVE  QueryInv(interaction[j])'
  <2>1. interaction'[j] = r
    BY <1>1, <1>2, <1>3, <1>6 DEF WalkInv, QueryTypeOK
  <2>2. (r.page - 1) * PageSize < 0 /\ (r.page - 1) * PageSize \in Int
    BY <1>3, QueryAssumption
  <2>3. \A l \in Walked' : Rank(l)' \in Nat
    <3>1. IsFiniteSet(stored')
      BY <1>5 DEF QueryTypeOK
    <3>2. ASSUME NEW l \in Walked' PROVE Rank(l)' \in Nat
      <4>1. LaterThan(Matching(asked)', l) \in SUBSET (stored')
        BY DEF LaterThan, Matching
      <4>2. Rank(l)' = Cardinality(LaterThan(Matching(asked)', l))
        BY DEF Rank, LaterThan
      <4> QED
        BY <3>1, <4>1, <4>2, FS_Subset, FS_CardinalityType
    <3> QED
      BY <3>2
  <2>4. \A l \in Walked' : Rank(l)' >= (r.page - 1) * PageSize
    BY <2>2, <2>3
  <2>5. r.filter = asked' /\ r.pc = "count"
    BY <1>1, <1>3
  <2> QED
    BY <2>1, <2>4, <2>5 DEF QueryInv, Reached
<1> QED
  BY <1>2, <1>5, <1>6 DEF WalkInv

\* A search that the buttons cannot spell has one page and no button.
LEMMA ClickKeeps ==
  ASSUME WalkInv, NEW i \in Interactions, ClickPrevious(i) \/ ClickNext(i)
  PROVE  WalkInv'
<1>1. PICK m : m = message
  OBVIOUS
<1>2. m \in Found /\ m.filter = asked /\ PageInv(m, {}) /\ QueryTypeOK
  BY <1>1 DEF WalkInv, QueryTypeOK, ClickPrevious, ClickNext
<1>3. /\ m.page \in 1 .. m.totalPages /\ m.page \in Nat /\ m.totalPages \in Nat
      /\ m.filter \in NoneFilters => m.totalPages = 1
  BY <1>2, PagesCover DEF PageInv, Bounded, Found
<1>4. PICK page \in {PreviousPage(m), NextPage(m)} :
        /\ interaction' = [interaction EXCEPT ![i] =
             [pc |-> "count", filter |-> FromCustomId(m.filter), page |-> page]]
        /\ UNCHANGED <<stored, message, asked, initial, seen>>
        /\ m.page > 1 \/ m.page < m.totalPages
  BY <1>1 DEF ClickPrevious, ClickNext, Query
<1>5. FromCustomId(m.filter) = asked
  BY <1>2, <1>3, <1>4 DEF FromCustomId
<1>6. page \in Nat /\ page - 1 <= m.page
  BY <1>3 DEF PreviousPage, NextPage, AtLeastOne, AtMost
<1>7. PICK r : r = [pc |-> "count", filter |-> asked, page |-> page]
  OBVIOUS
<1>8. r \in Steps
  BY <1>2, <1>6, <1>7 DEF Steps, Counting, QueryTypeOK
<1>9. ASSUME NEW l \in Walked PROVE l \in seen \cup {} \/ Rank(l) >= (page - 1) * PageSize
  <2>1. Rank(l) \in Nat /\ PageSize \in Nat \ {0}
    BY <1>2, RankFacts, QueryAssumption
  <2>2. (page - 1) * PageSize <= m.page * PageSize
    BY <1>3, <1>6, <2>1
  <2>3. (page - 1) * PageSize \in Int /\ m.page * PageSize \in Int
    BY <1>3, <1>6, <2>1
  <2>4. l \in seen \cup {} \/ Rank(l) >= m.page * PageSize
    BY <1>2 DEF PageInv, Reached
  <2> QED
    BY <2>1, <2>2, <2>3, <2>4
<1>10. QueryInv(r)
  BY <1>7, <1>9 DEF QueryInv, Reached
<1> QED
  BY <1>4, <1>5, <1>7, <1>8, <1>10, GoesOn

LEMMA EditKeeps ==
  ASSUME WalkInv, NEW i \in Interactions, Edit(i)
  PROVE  WalkInv'
<1>1. PICK q : q = interaction[i]
  OBVIOUS
<1>2. q \in Found /\ QueryInv(q) /\ QueryTypeOK
  BY <1>1 DEF WalkInv, QueryTypeOK, Edit, Idle, Counting, Finding
<1>3. /\ message' = q /\ seen' = seen \cup q.logs
      /\ interaction' = [interaction EXCEPT ![i] = Idle]
      /\ stored' = stored /\ asked' = asked /\ initial' = initial
  BY <1>1 DEF Edit
<1>4. OnlyMore
  BY <1>2, <1>3 DEF OnlyMore, QueryTypeOK
<1>5. QueryTypeOK'
  <2>1. q.logs \in SUBSET Logs
    BY <1>2 DEF Found
  <2> QED
    BY <1>2, <1>3, <2>1 DEF QueryTypeOK
<1>6. q.filter = asked' /\ PageInv(q, {})'
  <2>1. q.page \in Nat /\ q.filter = asked /\ PageInv(q, q.logs)
    BY <1>2 DEF Found, QueryInv
  <2> QED
    BY <1>2, <1>3, <1>4, <2>1, PageRests
<1>7. message'.filter = asked' /\ PageInv(message, {})'
  BY <1>3, <1>6 DEF PageInv, Reached
<1>8. ASSUME NEW j \in Interactions, interaction'[j] # Idle
      PROVE  QueryInv(interaction[j])'
  <2>1. interaction'[j] = interaction[j]
    BY <1>2, <1>3, <1>8 DEF QueryTypeOK
  <2> QED
    BY <1>4, <1>8, <2>1, OthersRest
<1> QED
  BY <1>5, <1>7, <1>8 DEF WalkInv

\* A failure or an arrival tells no interaction anything.
LEMMA RestKeeps ==
  ASSUME WalkInv, OnlyMore, QueryTypeOK', message' = message,
         \A j \in Interactions : interaction'[j] \in {interaction[j], Idle}
  PROVE  WalkInv'
<1>1. ASSUME NEW j \in Interactions, interaction'[j] # Idle
      PROVE  QueryInv(interaction[j])'
  BY <1>1, OthersRest
<1> QED
  BY <1>1, MessageRests DEF WalkInv

LEMMA NextWalk ==
  ASSUME WalkInv, [Next]_vars
  PROVE  WalkInv'
<1>0. QueryTypeOK
  BY DEF WalkInv
<1>1. ASSUME NEW i \in Interactions, Execute(i) PROVE WalkInv'
  BY <1>1, ExecuteKeeps
<1>2. ASSUME NEW i \in Interactions, ClickPrevious(i) \/ ClickNext(i) PROVE WalkInv'
  BY <1>2, ClickKeeps
<1>3. ASSUME NEW i \in Interactions, Count(i) PROVE WalkInv'
  BY <1>3, CountKeeps
<1>4. ASSUME NEW i \in Interactions, Find(i) PROVE WalkInv'
  BY <1>4, FindKeeps
<1>5. ASSUME NEW i \in Interactions, Edit(i) PROVE WalkInv'
  BY <1>5, EditKeeps
<1>6. ASSUME NEW i \in Interactions, InteractionFails(i) PROVE WalkInv'
  <2>1. QueryTypeOK' /\ OnlyMore
    BY <1>0, <1>6 DEF InteractionFails, QueryTypeOK, OnlyMore
  <2>2. \A j \in Interactions : interaction'[j] \in {interaction[j], Idle}
    BY <1>0, <1>6 DEF InteractionFails, QueryTypeOK
  <2> QED
    BY <1>6, <2>1, <2>2, RestKeeps DEF InteractionFails
<1>7. ASSUME NEW l \in Logs, Store(l) PROVE WalkInv'
  <2>1. IsFiniteSet(stored')
    BY <1>0, <1>7, FS_AddElement DEF Store, QueryTypeOK
  <2>2. QueryTypeOK' /\ OnlyMore
    BY <1>0, <1>7, <2>1 DEF Store, QueryTypeOK, OnlyMore
  <2> QED
    BY <1>7, <2>2, RestKeeps DEF Store
<1>8. CASE UNCHANGED vars
  <2>1. QueryTypeOK' /\ OnlyMore
    BY <1>0, <1>8 DEF vars, QueryTypeOK, OnlyMore
  <2> QED
    BY <1>8, <2>1, RestKeeps DEF vars
<1> QED
  BY <1>1, <1>2, <1>3, <1>4, <1>5, <1>6, <1>7, <1>8 DEF Next

-----------------------------------------------------------------------------
(* Theorems *)

\* In every behaviour of the command, its buttons and the log processor, every
\* page shown, and every page under way, is of the search asked for, is
\* filled, and leaves out no entry of the walk that came before it
\* (findRecentLogs, onPageButton, buildPaginationRow).
THEOREM WalkInvariance == Spec => []WalkInv
<1>1. Init => WalkInv
  BY InitWalk
<1>2. WalkInv /\ [Next]_vars => WalkInv'
  BY NextWalk
<1> QED
  BY <1>1, <1>2, PTL DEF Spec

LEMMA WalkImplies ==
  ASSUME WalkInv
  PROVE  TypeOK /\ PagesAreFilled /\ SearchIsKept /\ WalkMissesNothing
<1>1. QueryTypeOK
  BY DEF WalkInv
<1>2. ASSUME message # NoMessage
      PROVE  /\ message \in Found /\ message.filter = asked
             /\ Bounded(message) /\ Filled(message)
             /\ message.page = message.totalPages /\ UpToDate(message) => Walked \subseteq seen
  BY <1>1, <1>2 DEF WalkInv, QueryTypeOK, PageInv
<1>3. TypeOK
  <2>1. ASSUME NEW i \in Interactions
        PROVE  /\ interaction[i].pc \in Pcs
               /\ interaction[i] # Idle => interaction[i].filter \in Filters \cup {NoFilter}
    BY <1>1 DEF QueryTypeOK, AllFilters, Idle, Counting, Finding, Found, Pcs
  <2>2. message # NoMessage =>
          /\ message.filter \in Filters \cup {NoFilter}
          /\ message.page \in 1 .. message.totalPages
          /\ message.logs \subseteq Logs
    BY <1>2 DEF Found, Bounded, AllFilters
  <2> QED
    BY <1>1, <2>1, <2>2 DEF TypeOK, QueryTypeOK, AllFilters
<1>4. PagesAreFilled
  BY <1>2 DEF PagesAreFilled, Filled
<1>5. SearchIsKept
  BY <1>2 DEF SearchIsKept, Filled
<1>6. WalkMissesNothing
  BY <1>2 DEF WalkMissesNothing, Walked
<1> QED
  BY <1>3, <1>4, <1>5, <1>6

\* Whatever comes in between, the interactions, the message and the entries
\* keep their types, and a page shown is one of the pages that were counted.
THEOREM QueryTypeCorrect == Spec => []TypeOK
  BY WalkInvariance, WalkImplies, PTL

\* No page before the last is short, and no page of a search that counted
\* something is empty (findRecentLogs, normalizePage).
THEOREM PagesStayFilled == Spec => []PagesAreFilled
  BY WalkInvariance, WalkImplies, PTL

\* Every page shown is of the search asked for, also when the buttons cannot
\* spell it (buildPageCustomId, parseSearchItem).
THEOREM SearchStays == Spec => []SearchIsKept
  BY WalkInvariance, WalkImplies, PTL

\* Who clicks on to an up-to-date last page has seen every entry that was there
\* at the command, if no other shares its timestamp: for any number of entries
\* that arrive meanwhile and any number of clicks under way (findRecentLogs).
THEOREM WalksMissNothing == Spec => []WalkMissesNothing
  BY WalkInvariance, WalkImplies, PTL

-----------------------------------------------------------------------------
(* What the search for a guild shows *)

\* What the interceptor logs of a command used in a guild: its start, its end
\* or its error.
InterceptorEntries(guild, actor) ==
  LET payload == CreateAuditEventPayload(guild, actor)
      timed == With([durationMs |-> "ms"], payload)
  IN  {Log(payload), Log(timed), Error(timed)}

\* The search asked for is the one for a guild, over entries of these contents.
SearchesGuild(guild, entryOf) ==
  Match[asked] = {l \in Logs : Finds("guild-id", guild, entryOf[l])}

\* A search for a guild shows what commands logged there, on the walk to an
\* up-to-date last page all of it; it shows nothing that was logged in another
\* guild, and nothing the table service logged of a table, not even of that
\* guild (createAuditEventPayload, createTable, createSearchQuery).
GuildSearchShowsCommands ==
  \A guild, entryOf :
    message # NoMessage /\ SearchesGuild(guild, entryOf) =>
      /\ \A l \in message.logs : \A other, actor :
           entryOf[l] \in InterceptorEntries(other, actor) => other = guild
      /\ \A l \in message.logs : \A other : entryOf[l] # Log(TableAudit(other))
      /\ message.page = message.totalPages /\ UpToDate(message) =>
           \A l \in initial : \A actor :
             Unique(l) /\ entryOf[l] \in InterceptorEntries(guild, actor) => l \in seen

\* An entry keeps every field of its metadata but the kind.
LEMMA FieldsAreKept ==
  ASSUME NEW level, NEW metadata, NEW f, f # "kind", NEW value
  PROVE  HasField(Entry(level, metadata), f, value) <=>
           f \in DOMAIN metadata /\ metadata[f] = value
<1>1. Entry(level, metadata).metadata = Restrict(metadata, DOMAIN metadata \ {"kind"})
  BY DEF Entry
<1> QED
  BY <1>1 DEF HasField, Restrict

\* Fields that name no guild leave the guild as it is.
LEMMA GuildIsKept ==
  ASSUME NEW fields, "guildId" \notin DOMAIN fields, NEW metadata, NEW guild,
         "guildId" \in DOMAIN metadata, metadata["guildId"] = guild
  PROVE  /\ "guildId" \in DOMAIN With(fields, metadata)
         /\ With(fields, metadata)["guildId"] = guild
BY DEF With

LEMMA CommandsAreFound ==
  ASSUME NEW guild, NEW actor, NEW entry \in InterceptorEntries(guild, actor)
  PROVE  \A g : Finds("guild-id", g, entry) <=> g = guild
<1> DEFINE payload == CreateAuditEventPayload(guild, actor)
           duration == [durationMs |-> "ms"]
           error == [error |-> "error"]
           timed == With(duration, payload)
<1>1. "guildId" \in DOMAIN payload /\ payload["guildId"] = guild
  BY DEF CreateAuditEventPayload
<1>2. "guildId" \notin DOMAIN duration /\ "guildId" \notin DOMAIN error
  OBVIOUS
<1>3. entry \in {Log(payload), Log(timed), Error(timed)}
  BY DEF InterceptorEntries
<1>4. Error(timed) = Entry("error", With(error, timed))
  BY DEF Error, ResolveErrorParams
<1> HIDE DEF payload, duration, error
<1>5. "guildId" \in DOMAIN timed /\ timed["guildId"] = guild
  BY <1>1, <1>2, GuildIsKept
<1> HIDE DEF timed
<1>6. PICK level, metadata :
        /\ entry = Entry(level, metadata)
        /\ "guildId" \in DOMAIN metadata /\ metadata["guildId"] = guild
  <2>1. "guildId" \in DOMAIN With(error, timed) /\ With(error, timed)["guildId"] = guild
    BY <1>2, <1>5, GuildIsKept
  <2> QED
    BY <1>1, <1>3, <1>4, <1>5, <2>1 DEF Log
<1>7. \A g : HasField(entry, "guildId", g) <=> g = guild
  BY <1>6, FieldsAreKept
<1> QED
  BY <1>7 DEF Finds

LEMMA TablesAreNotFound ==
  ASSUME NEW g, NEW guild
  PROVE  ~ Finds("guild-id", g, Log(TableAudit(guild)))
<1> DEFINE audit == TableAudit(guild)
<1>1. "guildId" \notin DOMAIN audit
  BY DEF TableAudit
<1> HIDE DEF audit
<1>2. ~ HasField(Log(audit), "guildId", g)
  BY <1>1, FieldsAreKept DEF Log
<1> QED
  BY <1>2 DEF Finds, audit

LEMMA WalkShowsCommands ==
  ASSUME WalkInv
  PROVE  GuildSearchShowsCommands
<1> SUFFICES ASSUME NEW guild, NEW entryOf, message # NoMessage, SearchesGuild(guild, entryOf)
             PROVE  /\ \A l \in message.logs : \A other, actor :
                         entryOf[l] \in InterceptorEntries(other, actor) => other = guild
                    /\ \A l \in message.logs : \A other : entryOf[l] # Log(TableAudit(other))
                    /\ message.page = message.totalPages /\ UpToDate(message) =>
                         \A l \in initial : \A actor :
                           Unique(l) /\ entryOf[l] \in InterceptorEntries(guild, actor) =>
                             l \in seen
  BY DEF GuildSearchShowsCommands
<1>1. SearchIsKept /\ WalkMissesNothing /\ TypeOK
  BY WalkImplies
<1>2. \A l \in Logs : l \in Match[asked] <=> Finds("guild-id", guild, entryOf[l])
  BY DEF SearchesGuild
<1>3. ASSUME NEW l \in message.logs PROVE Finds("guild-id", guild, entryOf[l])
  BY <1>1, <1>2 DEF SearchIsKept, TypeOK
<1>4. ASSUME NEW l \in message.logs, NEW other, NEW actor,
             entryOf[l] \in InterceptorEntries(other, actor)
      PROVE  other = guild
  BY <1>3, <1>4, CommandsAreFound
<1>5. ASSUME NEW l \in message.logs, NEW other PROVE entryOf[l] # Log(TableAudit(other))
  BY <1>3, TablesAreNotFound
<1>6. ASSUME message.page = message.totalPages, UpToDate(message), NEW l \in initial, NEW actor,
             Unique(l), entryOf[l] \in InterceptorEntries(guild, actor)
      PROVE  l \in seen
  <2>1. Finds("guild-id", guild, entryOf[l])
    BY <1>6, CommandsAreFound
  <2>2. l \in Match[asked]
    BY <1>1, <1>2, <2>1 DEF TypeOK
  <2> QED
    BY <1>1, <1>6, <2>2 DEF WalkMissesNothing
<1> QED
  BY <1>4, <1>5, <1>6

\* Who searches a guild and walks to an up-to-date last page has seen what every
\* command logged there before the search, and never an entry of a table or of
\* another guild.
THEOREM GuildSearchStays == Spec => []GuildSearchShowsCommands
BY WalkInvariance, WalkShowsCommands, PTL
=============================================================================
