-------------------------- MODULE FileActions_proofs --------------------------
(***************************************************************************)
(* Proofs about the file and console services of the straight-line         *)
(* compiler: the opens of the action list number the handles that were     *)
(* given out when compiling and the descriptors Linux gives out when the   *)
(* program runs, and both outputs are read off the same list.              *)
(***************************************************************************)
EXTENDS FileActions, FiniteSetTheorems, SequenceTheorems, WellFoundedInduction, TLAPS

(* How many members of a set of positions there are up to n: what numbers  *)
(* the opens, and the outputs, of a list in their order.                   *)
Upto(set, n) == Cardinality({ i \in set : i <= n })

(* The count is a number, starts at 0 and grows by one at each position.   *)
LEMMA UptoIs ==
  ASSUME NEW set, \A x \in set : x \in Nat /\ x > 0, NEW n \in Nat
  PROVE  /\ IsFiniteSet({ i \in set : i <= n }) /\ Upto(set, n) \in Nat
         /\ Upto(set, 0) = 0
         /\ Upto(set, n + 1) = IF n + 1 \in set THEN Upto(set, n) + 1 ELSE Upto(set, n)
<1>1. IsFiniteSet({ i \in set : i <= n })
  <2>1. IsFiniteSet(0 .. n)
    BY FS_Interval
  <2>2. { i \in set : i <= n } \in SUBSET (0 .. n)
    OBVIOUS
  <2> QED
    BY <2>1, <2>2, FS_Subset
<1>2. Upto(set, n) \in Nat
  BY <1>1, FS_CardinalityType DEF Upto
<1>3. Upto(set, 0) = 0
  <2>1. { i \in set : i <= 0 } = {}
    OBVIOUS
  <2> QED
    BY <2>1, FS_EmptySet DEF Upto
<1>4. CASE n + 1 \in set
  <2>1. { i \in set : i <= n + 1 } = { i \in set : i <= n } \cup {n + 1}
    BY <1>4
  <2>2. n + 1 \notin { i \in set : i <= n }
    OBVIOUS
  <2>3. Cardinality({ i \in set : i <= n } \cup {n + 1}) = Cardinality({ i \in set : i <= n }) + 1
    BY <1>1, <2>2, FS_AddElement
  <2> QED
    BY <1>1, <1>2, <1>3, <1>4, <2>1, <2>3 DEF Upto
<1>5. CASE n + 1 \notin set
  <2>1. { i \in set : i <= n + 1 } = { i \in set : i <= n }
    BY <1>5
  <2> QED
    BY <1>1, <1>2, <1>3, <1>5, <2>1 DEF Upto
<1> QED
  BY <1>4, <1>5

(* Only the positions up to n matter.                                      *)
LEMMA UptoSame ==
  ASSUME NEW set, NEW bigger, NEW n, \A i \in set \cup bigger : i <= n => (i \in set <=> i \in bigger)
  PROVE  Upto(set, n) = Upto(bigger, n)
<1>1. { i \in set : i <= n } = { i \in bigger : i <= n }
  OBVIOUS
<1> QED
  BY <1>1 DEF Upto

(* Later positions have larger numbers.                                    *)
LEMMA UptoStrict ==
  ASSUME NEW set, \A x \in set : x \in Nat /\ x > 0, NEW i \in set, NEW j \in Nat, j < i
  PROVE  Upto(set, j) < Upto(set, i)
<1> DEFINE Below(k) == { x \in set : x <= k }
<1>1. i \in Nat /\ j \in Nat /\ j < i
  OBVIOUS
<1>2. \A x \in Below(j) : x \in Below(i)
  BY <1>1
<1>3. Below(j) \in SUBSET Below(i)
  BY <1>2
<1>4. i \in Below(i) /\ i \notin Below(j)
  BY <1>1
<1>5. IsFiniteSet(Below(i)) /\ Upto(set, i) = Cardinality(Below(i)) /\ Upto(set, j) = Cardinality(Below(j))
      /\ Upto(set, i) \in Nat /\ Upto(set, j) \in Nat
  BY <1>1, UptoIs DEF Upto
<1> HIDE DEF Below
<1>6. Upto(set, j) <= Upto(set, i) /\ (Upto(set, i) = Upto(set, j) => Below(i) = Below(j))
  BY <1>3, <1>5, FS_Subset
<1> QED
  BY <1>4, <1>5, <1>6

(* Positions up to n are numbered from 1 to how many there are.            *)
LEMMA UptoGrows ==
  ASSUME NEW set, \A x \in set : x \in Nat /\ x > 0, NEW i \in set, NEW n \in Nat, i <= n
  PROVE  Upto(set, i) \in 1 .. Upto(set, n)
<1>1. i \in Nat /\ 0 < i /\ 0 \in Nat
  OBVIOUS
<1>2. Upto(set, 0) = 0 /\ Upto(set, i) \in Nat /\ Upto(set, n) \in Nat
  BY <1>1, UptoIs
<1>3. Upto(set, 0) < Upto(set, i)
  BY <1>1, UptoStrict
<1>4. Upto(set, i) <= Upto(set, n)
  <2> DEFINE Below(k) == { x \in set : x <= k }
  <2>1. \A x \in Below(i) : x \in Below(n)
    BY <1>1
  <2>2. Below(i) \in SUBSET Below(n)
    BY <2>1
  <2>3. IsFiniteSet(Below(n)) /\ Upto(set, n) = Cardinality(Below(n)) /\ Upto(set, i) = Cardinality(Below(i))
    BY UptoIs DEF Upto
  <2> HIDE DEF Below
  <2> QED
    BY <2>2, <2>3, FS_Subset
<1> QED
  BY <1>2, <1>3, <1>4

(* Two positions never have the same number.                               *)
LEMMA UptoInjective ==
  ASSUME NEW set, \A x \in set : x \in Nat /\ x > 0, NEW i \in set, NEW j \in set, Upto(set, i) = Upto(set, j)
  PROVE  i = j
<1>1. i \in Nat /\ j \in Nat /\ Upto(set, i) \in Nat
  BY UptoIs
<1>2. ~(i < j)
  <2> SUFFICES ASSUME i < j PROVE FALSE
    OBVIOUS
  <2>1. Upto(set, i) < Upto(set, j)
    BY <1>1, UptoStrict
  <2> QED
    BY <1>1, <2>1
<1>3. ~(j < i)
  <2> SUFFICES ASSUME j < i PROVE FALSE
    OBVIOUS
  <2>1. Upto(set, j) < Upto(set, i)
    BY <1>1, UptoStrict
  <2> QED
    BY <1>1, <2>1
<1> QED
  BY <1>1, <1>2, <1>3

(* A non-empty set of natural numbers has a smallest member.               *)
LEMMA LeastNat ==
  ASSUME NEW S \in SUBSET Nat, S # {}
  PROVE  \E n \in S : \A m \in S : n <= m
<1> DEFINE R == OpToRel(<, Nat)
<1>1. PICK n \in S : \A m \in S : ~ (<<m, n>> \in R)
  <2>1. IsWellFoundedOn(R, Nat)
    BY NatLessThanWellFounded
  <2> HIDE DEF R
  <2> QED
    BY <2>1, WFMin
<1>2. ASSUME NEW m \in S PROVE n <= m
  <2>1. ~(<<m, n>> \in {ss \in Nat \X Nat : ss[1] < ss[2]})
    BY <1>1 DEF OpToRel
  <2>2. <<m, n>>[1] = m /\ <<m, n>>[2] = n /\ <<m, n>> \in Nat \X Nat
    OBVIOUS
  <2> QED
    BY <2>1, <2>2
<1> QED
  BY <1>2

(* Every number up to the largest is the number of a position.             *)
LEMMA UptoReaches ==
  ASSUME NEW set, \A x \in set : x \in Nat /\ x > 0, NEW n \in Nat, NEW k \in 1 .. Upto(set, n)
  PROVE  \E i \in set : i <= n /\ Upto(set, i) = k
<1> DEFINE At == { m \in Nat : k <= Upto(set, m) }
<1>1. At \in SUBSET Nat /\ n \in At
  OBVIOUS
<1>2. PICK m \in At : \A x \in At : m <= x
  <2> HIDE DEF At
  <2> QED
    BY <1>1, LeastNat
<1>3. k \in Nat /\ k > 0 /\ Upto(set, 0) = 0 /\ Upto(set, n) \in Nat
  <2>1. Upto(set, n) \in Nat /\ Upto(set, 0) = 0
    BY UptoIs
  <2> QED
    BY <2>1
<1>4. m # 0 /\ m \in Nat /\ m <= n
  BY <1>1, <1>2, <1>3
<1>5. m - 1 \in Nat /\ m - 1 \notin At
  BY <1>2, <1>4
<1>6. /\ Upto(set, m - 1) \in Nat
      /\ Upto(set, (m - 1) + 1) = IF (m - 1) + 1 \in set THEN Upto(set, m - 1) + 1 ELSE Upto(set, m - 1)
  BY <1>5, UptoIs
<1>7. (m - 1) + 1 = m
  BY <1>4
<1>8. Upto(set, m) = IF m \in set THEN Upto(set, m - 1) + 1 ELSE Upto(set, m - 1)
  BY <1>6, <1>7
<1>9. ~(k <= Upto(set, m - 1)) /\ k <= Upto(set, m)
  BY <1>2, <1>5
<1>10. m \in set /\ Upto(set, m) = k
  BY <1>3, <1>6, <1>8, <1>9
<1> QED
  BY <1>4, <1>10

----------------------------------------------------------------------------
(* The open at place i of an action list is the one whose handle this is.  *)
HandleAt(list, i) == 2 + Upto(OpensIn(list), i)

(* What the write at place i reaches, if the handles are the descriptors,  *)
(* and the writes that reach something that can be written.                *)
Target(list, i) ==
  IF list[i].fd \in {stdout, stderr} THEN Named(list[i].fd, TRUE)
  ELSE LET j == CHOOSE j \in OpensIn(list) : HandleAt(list, j) = list[i].fd
       IN  Named(list[j].file, list[j].writable)
Delivers(list) == { i \in DOMAIN list : list[i].kind = "write" /\ Target(list, i).writable }

OpenEntries == [kind : {"open"}, file : Files, writable : BOOLEAN]
WriteEntries == [kind : {"write"}, fd : Nat, data : Nat]
Entries == OpenEntries \cup WriteEntries
Outputs == [to : Files \cup Nat, data : Nat]

(* Writes use handles of earlier opens.                                    *)
Opened(list, i) == \E j \in OpensIn(list) : j < i /\ HandleAt(list, j) = list[i].fd
WellFormed(list) ==
  /\ list \in Seq(Entries)
  /\ \A i \in DOMAIN list :
       list[i].kind = "write" /\ list[i].fd \notin {stdout, stderr} => Opened(list, i)

(* An output that is what the first n entries of a list deliver.           *)
Made(list, i) == Output(Target(list, i).file, list[i].data)
Makes(out, list, n) ==
  /\ out \in Seq(Outputs)
  /\ Len(out) = Upto(Delivers(list), n)
  /\ \A i \in Delivers(list) : i <= n => out[Upto(Delivers(list), i)] = Made(list, i)

(* What an action list is made of.                                         *)
LEMMA Places ==
  ASSUME NEW list \in Seq(Entries)
  PROVE  /\ \A x \in OpensIn(list) : x \in Nat /\ x > 0 /\ x <= Len(list) /\ x \in DOMAIN list
         /\ \A x \in Delivers(list) : x \in Nat /\ x > 0 /\ x <= Len(list) /\ x \in DOMAIN list
         /\ Len(list) \in Nat /\ DOMAIN list = 1 .. Len(list)
         /\ \A i \in DOMAIN list : list[i] \in Entries
         /\ \A i \in DOMAIN list : list[i].kind = "open" => list[i] \in OpenEntries
         /\ \A i \in DOMAIN list : list[i].kind # "open" => list[i] \in WriteEntries /\ list[i].kind = "write"
<1>1. Len(list) \in Nat /\ DOMAIN list = 1 .. Len(list)
  OBVIOUS
<1>2. \A i \in DOMAIN list : list[i] \in Entries
  OBVIOUS
<1>3. \A x \in DOMAIN list : x \in Nat /\ x > 0 /\ x <= Len(list)
  BY <1>1
<1>4. \A e \in Entries : /\ e.kind = "open" => e \in OpenEntries
                         /\ e.kind # "open" => e \in WriteEntries /\ e.kind = "write"
  BY DEF Entries, OpenEntries, WriteEntries
<1> QED
  BY <1>1, <1>2, <1>3, <1>4 DEF OpensIn, Delivers

(* What a write reaches, when an open has its descriptor as handle.        *)
LEMMA TargetIs ==
  ASSUME NEW list \in Seq(Entries), NEW i \in DOMAIN list, list[i].fd \notin {stdout, stderr},
         NEW j \in OpensIn(list), HandleAt(list, j) = list[i].fd
  PROVE  Target(list, i) = Named(list[j].file, list[j].writable)
<1> DEFINE k == CHOOSE k \in OpensIn(list) : HandleAt(list, k) = list[i].fd
<1>1. k \in OpensIn(list) /\ HandleAt(list, k) = list[i].fd
  OBVIOUS
<1>2. Target(list, i) = Named(list[k].file, list[k].writable)
  BY DEF Target
<1> HIDE DEF k
<1>3. \A x \in OpensIn(list) : x \in Nat /\ x > 0
  BY Places
<1>4. Upto(OpensIn(list), k) = Upto(OpensIn(list), j)
  <2>1. Upto(OpensIn(list), k) \in Nat /\ Upto(OpensIn(list), j) \in Nat
    BY <1>1, <1>3, UptoIs
  <2> QED
    BY <2>1, <1>1 DEF HandleAt
<1>5. k = j
  BY <1>1, <1>3, <1>4, UptoInjective
<1> QED
  BY <1>2, <1>5

(* One more entry leaves what is said of the earlier ones as it is.        *)
LEMMA Longer ==
  ASSUME NEW list, WellFormed(list), NEW entry \in Entries, NEW longer, longer = Append(list, entry)
  PROVE  /\ list \in Seq(Entries) /\ longer \in Seq(Entries)
         /\ Len(list) \in Nat /\ Len(longer) = Len(list) + 1 /\ longer[Len(list) + 1] = entry
         /\ DOMAIN longer = DOMAIN list \cup {Len(list) + 1} /\ Len(list) + 1 \notin DOMAIN list
         /\ \A i \in DOMAIN list : longer[i] = list[i]
<1>0. list \in Seq(Entries)
  BY DEF WellFormed
<1>1. /\ longer \in Seq(Entries) /\ Len(longer) = Len(list) + 1 /\ longer[Len(list) + 1] = entry
      /\ \A i \in DOMAIN list : longer[i] = list[i]
  BY <1>0
<1>2. DOMAIN longer = DOMAIN list \cup {Len(list) + 1} /\ Len(list) + 1 \notin DOMAIN list
  <2>1. DOMAIN list = 1 .. Len(list) /\ DOMAIN longer = 1 .. (Len(list) + 1) /\ Len(list) \in Nat
    BY <1>0, <1>1
  <2> QED
    BY <2>1
<1> QED
  BY <1>0, <1>1, <1>2

(* The opens of a longer list.                                             *)
LEMMA LongerOpenSet ==
  ASSUME NEW list, WellFormed(list), NEW entry \in Entries, NEW longer, longer = Append(list, entry)
  PROVE  /\ OpensIn(list) \subseteq OpensIn(longer)
         /\ entry.kind = "open" => OpensIn(longer) = OpensIn(list) \cup {Len(list) + 1}
         /\ entry.kind # "open" => OpensIn(longer) = OpensIn(list)
<1>1. /\ longer[Len(list) + 1] = entry
      /\ DOMAIN longer = DOMAIN list \cup {Len(list) + 1}
      /\ \A i \in DOMAIN list : longer[i] = list[i]
  BY Longer
<1> QED
  BY <1>1 DEF OpensIn

(* The earlier opens keep their numbers, ...                               *)
LEMMA LongerUpto ==
  ASSUME NEW list, WellFormed(list), NEW entry \in Entries, NEW longer, longer = Append(list, entry),
         NEW j \in Nat, j <= Len(list)
  PROVE  Upto(OpensIn(longer), j) = Upto(OpensIn(list), j)
<1>1. ~(Len(list) + 1 <= j)
  BY Longer
<1>3. OpensIn(longer) \in {OpensIn(list), OpensIn(list) \cup {Len(list) + 1}}
  BY LongerOpenSet, Zenon
<1>2. \A i \in OpensIn(longer) \cup OpensIn(list) : i <= j => (i \in OpensIn(longer) <=> i \in OpensIn(list))
  BY <1>1, <1>3
<1> QED
  BY <1>2, UptoSame

(* ... so that they keep their handles, ...                                *)
LEMMA LongerOpens ==
  ASSUME NEW list, WellFormed(list), NEW entry \in Entries, NEW longer, longer = Append(list, entry)
  PROVE  /\ \A j \in OpensIn(list) : j \in OpensIn(longer) /\ HandleAt(longer, j) = HandleAt(list, j)
         /\ \A i \in DOMAIN list : Opened(list, i) => Opened(longer, i)
<1>1. ASSUME NEW j \in OpensIn(list)
      PROVE  j \in OpensIn(longer) /\ HandleAt(longer, j) = HandleAt(list, j)
  <2>1. j \in Nat /\ j <= Len(list)
    BY Longer, Places
  <2>2. j \in OpensIn(longer)
    BY LongerOpenSet, Zenon
  <2> QED
    BY <2>1, <2>2, LongerUpto DEF HandleAt
<1>2. \A i \in DOMAIN list : longer[i] = list[i]
  BY Longer
<1> QED
  BY <1>1, <1>2 DEF Opened

(* ... and the earlier writes what they reach.                             *)
LEMMA LongerDelivers ==
  ASSUME NEW list, WellFormed(list), NEW entry \in Entries, NEW longer, longer = Append(list, entry)
  PROVE  /\ \A i \in DOMAIN list : list[i].kind = "write" => Target(longer, i) = Target(list, i)
         /\ \A i \in DOMAIN list : i \in Delivers(longer) <=> i \in Delivers(list)
<1>0. list \in Seq(Entries) /\ longer \in Seq(Entries)
  BY Longer DEF WellFormed
<1>7. \A j \in OpensIn(list) : j \in OpensIn(longer) /\ HandleAt(longer, j) = HandleAt(list, j)
  BY LongerOpens, Zenon
<1>1. ASSUME NEW i \in DOMAIN list, list[i].kind = "write" PROVE Target(longer, i) = Target(list, i)
  <2>1. longer[i] = list[i] /\ i \in DOMAIN longer
    BY Longer
  <2>2. CASE list[i].fd \in {stdout, stderr}
    BY <2>1, <2>2 DEF Target
  <2>3. CASE list[i].fd \notin {stdout, stderr}
    <3>1. PICK j \in OpensIn(list) : HandleAt(list, j) = list[i].fd
      BY <1>1, <2>3 DEF WellFormed, Opened
    <3>2. j \in OpensIn(longer) /\ HandleAt(longer, j) = longer[i].fd /\ longer[j] = list[j]
      <4>1. j \in DOMAIN list
        BY <1>0, Places
      <4>3. longer[j] = list[j]
        BY <4>1, Longer
      <4>2. j \in OpensIn(longer) /\ HandleAt(longer, j) = HandleAt(list, j) /\ longer[j] = list[j]
        BY <3>1, <4>3, <1>7
      <4> QED
        BY <2>1, <3>1, <4>2
    <3>3. Target(list, i) = Named(list[j].file, list[j].writable)
      BY <1>0, <2>3, <3>1, TargetIs
    <3>4. Target(longer, i) = Named(longer[j].file, longer[j].writable)
      BY <1>0, <2>1, <2>3, <3>2, TargetIs
    <3> QED
      BY <3>2, <3>3, <3>4
  <2> QED
    BY <2>2, <2>3
<1>2. \A i \in DOMAIN list : longer[i] = list[i] /\ i \in DOMAIN longer
  BY Longer
<1>3. \A i \in DOMAIN list : i \in Delivers(longer) <=> i \in Delivers(list)
  BY <1>1, <1>2 DEF Delivers
<1> QED
  BY <1>1, <1>3

(* A write may follow the open whose handle it uses.                       *)
LEMMA LongerWellFormed ==
  ASSUME NEW list, WellFormed(list), NEW entry \in Entries, NEW longer, longer = Append(list, entry),
         entry.kind = "write" /\ entry.fd \notin {stdout, stderr} =>
           \E j \in OpensIn(list) : HandleAt(list, j) = entry.fd
  PROVE  WellFormed(longer)
<1>0. list \in Seq(Entries)
  BY DEF WellFormed
<1>7. \A j \in OpensIn(list) : j \in OpensIn(longer) /\ HandleAt(longer, j) = HandleAt(list, j)
  <2>1. ASSUME NEW j \in OpensIn(list)
        PROVE  j \in OpensIn(longer) /\ HandleAt(longer, j) = HandleAt(list, j)
    BY LongerOpens, Zenon
  <2> QED
    BY <2>1, Zenon
<1>1. ASSUME NEW i \in DOMAIN longer, longer[i].kind = "write", longer[i].fd \notin {stdout, stderr}
      PROVE  Opened(longer, i)
  <2>1. CASE i \in DOMAIN list
    <3>1. longer[i] = list[i]
      BY <2>1, Longer
    <3>2. Opened(list, i)
      BY <2>1, <3>1, <1>1 DEF WellFormed
    <3> QED
      BY <2>1, <3>2, LongerOpens
  <2>2. CASE i = Len(list) + 1
    <3>1. longer[i] = entry
      BY <2>2, Longer
    <3>2. PICK j \in OpensIn(list) : HandleAt(list, j) = entry.fd
      BY <3>1, <1>1
    <3>3. j < i
      BY <2>2, <1>0, Places
    <3>4. j \in OpensIn(longer) /\ HandleAt(longer, j) = longer[i].fd
      BY <1>7, <3>1, <3>2
    <3> QED
      BY <3>3, <3>4 DEF Opened
  <2> QED
    BY <2>1, <2>2, Longer
<1> QED
  BY <1>1, Longer DEF WellFormed

----------------------------------------------------------------------------
(* Nothing is made before the first entry.                                 *)
LEMMA MakesNothing ==
  ASSUME NEW list \in Seq(Entries)
  PROVE  Makes(<<>>, list, 0)
<1>1. \A x \in Delivers(list) : x \in Nat /\ x > 0
  BY Places
<1>2. Upto(Delivers(list), 0) = 0
  BY <1>1, UptoIs
<1>3. \A i \in Delivers(list) : ~(i <= 0)
  BY <1>1
<1> QED
  BY <1>2, <1>3 DEF Makes

(* Delivering one more entry.                                              *)
LEMMA MakesNext ==
  ASSUME NEW list \in Seq(Entries), NEW n \in 0 .. Len(list) - 1, NEW out, Makes(out, list, n),
         Made(list, n + 1) \in Outputs \/ n + 1 \notin Delivers(list),
         NEW more, more = IF n + 1 \in Delivers(list) THEN Append(out, Made(list, n + 1)) ELSE out
  PROVE  Makes(more, list, n + 1)
<1> DEFINE D == Delivers(list)
<1>0. n \in Nat /\ \A x \in D : x \in Nat /\ x > 0
  BY Places
<1>1. /\ Upto(D, n) \in Nat
      /\ Upto(D, n + 1) = IF n + 1 \in D THEN Upto(D, n) + 1 ELSE Upto(D, n)
  BY <1>0, UptoIs
<1>2. /\ out \in Seq(Outputs) /\ Len(out) = Upto(D, n)
      /\ \A i \in D : i <= n => out[Upto(D, i)] = Made(list, i)
  BY DEF Makes
<1>3. ASSUME NEW i \in D, i <= n PROVE Upto(D, i) \in 1 .. Upto(D, n)
  BY <1>0, <1>3, UptoGrows
<1> HIDE DEF D
<1>4. CASE n + 1 \in D
  <2>1. more = Append(out, Made(list, n + 1)) /\ Made(list, n + 1) \in Outputs
    BY <1>4 DEF D
  <2>2. more \in Seq(Outputs) /\ Len(more) = Upto(D, n + 1) /\ more[Upto(D, n + 1)] = Made(list, n + 1)
    BY <1>1, <1>2, <1>4, <2>1
  <2>3. \A k \in 1 .. Upto(D, n) : more[k] = out[k]
    BY <1>1, <1>2, <2>1
  <2>4. ASSUME NEW i \in D, i <= n + 1 PROVE more[Upto(D, i)] = Made(list, i)
    <3>1. CASE i <= n
      BY <3>1, <1>2, <1>3, <2>3
    <3>2. CASE i = n + 1
      BY <3>2, <2>2
    <3>3. i \in Nat /\ i <= n + 1
      BY <2>4, <1>0
    <3>4. n \in Nat
      BY <1>0
    <3>5. i <= n \/ i = n + 1
      BY <3>3, <3>4
    <3> QED
      BY <3>1, <3>2, <3>5
  <2> QED
    BY <2>2, <2>4 DEF Makes, D
<1>5. CASE n + 1 \notin D
  <2>1. \A i \in D : i <= n + 1 => i <= n
    BY <1>0, <1>5
  <2> QED
    BY <1>1, <1>2, <1>5, <2>1 DEF Makes, D
<1> QED
  BY <1>4, <1>5

(* What a list makes as far as it goes, a longer one makes as far as that. *)
LEMMA MakesLonger ==
  ASSUME NEW list, WellFormed(list), NEW entry \in Entries, NEW longer, longer = Append(list, entry),
         NEW out, Makes(out, list, Len(list))
  PROVE  Makes(out, longer, Len(list))
<1>0. list \in Seq(Entries) /\ longer \in Seq(Entries) /\ Len(list) \in Nat
  BY Longer DEF WellFormed
<1>1. ASSUME NEW i, i \in Delivers(longer) \cup Delivers(list), i <= Len(list)
      PROVE  i \in Nat /\ i \in DOMAIN list /\ (i \in Delivers(longer) <=> i \in Delivers(list))
  <2>1. i \in Nat /\ i > 0
    BY <1>0, <1>1, Places
  <2>2. i \in DOMAIN list
    BY <1>0, <1>1, <2>1
  <2> QED
    BY <2>1, <2>2, LongerDelivers
<1>2. ASSUME NEW n \in Nat, n <= Len(list) PROVE Upto(Delivers(longer), n) = Upto(Delivers(list), n)
  <2>1. \A i \in Delivers(longer) \cup Delivers(list) : i \in Nat
    BY <1>0, Places
  <2>2. \A i \in Delivers(longer) \cup Delivers(list) :
          i <= n => (i \in Delivers(longer) <=> i \in Delivers(list))
    BY <1>0, <1>1, <1>2, <2>1
  <2> QED
    BY <2>2, UptoSame
<1>3. ASSUME NEW i \in Delivers(longer), i <= Len(list) PROVE out[Upto(Delivers(longer), i)] = Made(longer, i)
  <2>1. i \in Nat /\ i \in DOMAIN list /\ i \in Delivers(list)
    BY <1>1, <1>3
  <2>2. Made(longer, i) = Made(list, i)
    <3>1. longer[i] = list[i] /\ list[i].kind = "write"
      BY <2>1, Longer DEF Delivers
    <3>2. Target(longer, i) = Target(list, i)
      BY <2>1, <3>1, LongerDelivers
    <3> QED
      BY <3>1, <3>2 DEF Made
  <2> QED
    BY <1>2, <1>3, <2>1, <2>2 DEF Makes
<1> QED
  BY <1>0, <1>2, <1>3 DEF Makes

(* Two outputs of the same list are equal.                                 *)
LEMMA MakesOne ==
  ASSUME NEW list \in Seq(Entries), NEW n \in Nat, NEW out, NEW more, Makes(out, list, n), Makes(more, list, n)
  PROVE  out = more
<1>1. \A x \in Delivers(list) : x \in Nat /\ x > 0
  BY Places
<1>2. /\ out \in Seq(Outputs) /\ more \in Seq(Outputs)
      /\ Len(out) = Len(more) /\ Len(out) = Upto(Delivers(list), n)
  BY DEF Makes
<1>3. ASSUME NEW k \in 1 .. Len(out) PROVE out[k] = more[k]
  <2>1. PICK i \in Delivers(list) : i <= n /\ Upto(Delivers(list), i) = k
    BY <1>1, <1>2, UptoReaches
  <2> QED
    BY <2>1 DEF Makes
<1> QED
  BY <1>2, <1>3, SeqEqual

----------------------------------------------------------------------------
NamedAt(list, j) == Named(list[j].file, list[j].writable)

(* While compiling: handles are numbered like the opens of the action list *)
(* and name what these open; the console list holds writes to the standard *)
(* descriptors; and what the program means to write is what the emitted    *)
(* list makes, as long as only one of the two lists is in use.             *)
CompileInv ==
  /\ WellFormed(actions)
  /\ WellFormed(writes) /\ OpensIn(writes) = {}
  /\ nextFake = FirstFake + Upto(OpensIn(actions), Len(actions))
  /\ nextFake <= FirstFake + calls
  /\ \A h \in DOMAIN handles : \E j \in OpensIn(actions) :
       HandleAt(actions, j) = h /\ handles[h] = NamedAt(actions, j)
  /\ actions = <<>> \/ writes = <<>> => Makes(wanted, Emitted, Len(Emitted))

(* While running: the descriptors are the first ones, as many as opens     *)
(* have succeeded, and if all have, each names what the open of its number *)
(* opened and the output is what the list makes as far as it has run.      *)
Descriptors == Cardinality(DOMAIN fds)
OpenedSoFar == Upto(OpensIn(Emitted), pc)
Faithful ==
  /\ \A h \in {stdout, stderr} : fds[h] = Named(h, TRUE)
  /\ \A j \in OpensIn(Emitted) : j <= pc => fds[HandleAt(Emitted, j)] = NamedAt(Emitted, j)
  /\ Makes(delivered, Emitted, pc)
RunInv ==
  /\ phase \in {"compiling", "rejected"} => pc = 0 /\ delivered = <<>> /\ fds = [fd \in 0 .. 2 |-> Named(fd, TRUE)]
  /\ phase = "exited" => pc = Len(Emitted)
  /\ Descriptors \in Nat /\ DOMAIN fds = 0 .. Descriptors - 1
  /\ 3 <= Descriptors /\ Descriptors <= 3 + OpenedSoFar
  /\ Descriptors = 3 + OpenedSoFar => Faithful

ActionsInv == TypeOK /\ CompileInv /\ RunInv

(* Either list is well formed, and the emitted one holds every open.       *)
LEMMA EmittedIs ==
  ASSUME CompileInv
  PROVE  /\ WellFormed(Emitted) /\ Emitted \in Seq(Entries) /\ Len(Emitted) \in Nat
         /\ actions \in Seq(Entries) /\ writes \in Seq(Entries)
         /\ actions = <<>> => OpensIn(Emitted) = {} /\ OpensIn(actions) = {}
         /\ OpensIn(Emitted) = OpensIn(actions)
<1>1. actions \in Seq(Entries) /\ writes \in Seq(Entries)
  BY DEF CompileInv, WellFormed
<1>2. actions = <<>> => OpensIn(actions) = {}
  BY DEF OpensIn
<1>3. WellFormed(actions) /\ WellFormed(writes) /\ OpensIn(writes) = {}
  BY DEF CompileInv
<1>4. CASE actions = <<>>
  <2>1. Emitted = writes
    BY <1>4 DEF Emitted
  <2>2. WellFormed(Emitted) /\ OpensIn(Emitted) = {} /\ Emitted \in Seq(Entries)
    BY <1>1, <1>3, <2>1
  <2>3. Len(Emitted) \in Nat
    BY <2>2
  <2> QED
    BY <1>1, <1>2, <1>4, <2>2, <2>3
<1>5. CASE actions # <<>>
  <2>1. Emitted = actions
    BY <1>5 DEF Emitted
  <2> QED
    BY <1>1, <1>2, <1>3, <1>5, <2>1
<1> QED
  BY <1>4, <1>5

(* A process starts with three descriptors.                                *)
LEMMA ThreeDescriptors == Cardinality(0 .. 2) = 3
<1>1. 0 \in Int /\ 2 \in Int
  OBVIOUS
<1>2. Cardinality(0 .. 2) = IF 0 > 2 THEN 0 ELSE 2 - 0 + 1
  BY <1>1, FS_Interval, Zenon
<1> QED
  BY <1>2

(* The invariant holds in the beginning.                                   *)
LEMMA StartingActions == Init => ActionsInv
<1> SUFFICES ASSUME Init PROVE ActionsInv
  OBVIOUS
<1>1. /\ actions = <<>> /\ writes = <<>> /\ handles = <<>> /\ nextFake = 3 /\ payloads = {} /\ calls = 0
      /\ pc = 0 /\ fds = [fd \in 0 .. 2 |-> Named(fd, TRUE)] /\ wanted = <<>> /\ delivered = <<>>
      /\ phase = "compiling"
  BY DEF Init, FirstFake
<1>2. Emitted = <<>> /\ Len(Emitted) = 0 /\ <<>> \in Seq(Entries)
  BY <1>1 DEF Emitted
<1>3. WellFormed(<<>>) /\ OpensIn(<<>>) = {}
  BY DEF WellFormed, OpensIn
<1>4. Makes(<<>>, <<>>, 0)
  BY <1>2, MakesNothing
<1>5. Upto({}, 0) = 0
  BY UptoIs
<1>6. Cardinality(0 .. 2) = 3
  BY ThreeDescriptors
<1>7. TypeOK
  BY <1>1, <1>2, CallsAssumption DEF TypeOK, FirstFake
<1>8. CompileInv
  <2>1. WellFormed(actions) /\ WellFormed(writes) /\ OpensIn(writes) = {} /\ OpensIn(actions) = {}
    BY <1>1, <1>3
  <2>2. Len(actions) = 0 /\ DOMAIN handles = {}
    BY <1>1
  <2>3. nextFake = FirstFake + Upto(OpensIn(actions), Len(actions))
    BY <1>1, <1>5, <2>1, <2>2 DEF FirstFake
  <2>4. Makes(wanted, Emitted, Len(Emitted))
    BY <1>1, <1>2, <1>4
  <2>5. nextFake <= FirstFake + calls
    BY <1>1 DEF FirstFake
  <2> QED
    BY <2>1, <2>2, <2>3, <2>4, <2>5 DEF CompileInv
<1>9. Descriptors = 3 /\ DOMAIN fds = 0 .. 2 /\ OpenedSoFar = 0
  BY <1>1, <1>2, <1>3, <1>5, <1>6 DEF Descriptors, OpenedSoFar
<1>10. Faithful
  BY <1>1, <1>2, <1>3, <1>4 DEF Faithful, stdout, stderr
<1>11. RunInv
  BY <1>1, <1>9, <1>10 DEF RunInv
<1> QED
  BY <1>7, <1>8, <1>11 DEF ActionsInv

----------------------------------------------------------------------------
(* A call met while compiling leaves the run where it is: at the beginning *)
(* of whatever list is emitted.                                            *)
LEMMA CallKeepsRun ==
  ASSUME ActionsInv, phase = "compiling", phase' \in {"compiling", "rejected"}, UNCHANGED runVars,
         CompileInv'
  PROVE  RunInv'
<1>1. pc' = 0 /\ delivered' = <<>> /\ fds' = [fd \in 0 .. 2 |-> Named(fd, TRUE)]
  BY DEF ActionsInv, RunInv, runVars
<1>2. Emitted' \in Seq(Entries)
  <2>1. WellFormed(actions)' /\ WellFormed(writes)'
    BY DEF CompileInv
  <2>2. actions' \in Seq(Entries) /\ writes' \in Seq(Entries)
    BY <2>1 DEF WellFormed, Opened, OpensIn, HandleAt, Upto
  <2> QED
    BY <2>2 DEF Emitted
<1>3. \A x \in OpensIn(Emitted') : x \in Nat /\ x > 0
  BY <1>2, Places
<1>4. Upto(OpensIn(Emitted'), 0) = 0
  BY <1>3, UptoIs
<1>5. Cardinality(0 .. 2) = 3
  BY ThreeDescriptors
<1>6. Descriptors' = 3 /\ DOMAIN fds' = 0 .. 2
  BY <1>1, <1>5 DEF Descriptors
<1>7. OpenedSoFar' = 0
  <2>1. OpenedSoFar' = Upto(OpensIn(Emitted'), pc')
    BY DEF OpenedSoFar, Upto, OpensIn
  <2> QED
    BY <1>1, <1>4, <2>1
<1>8. Faithful'
  <2>1. Makes(<<>>, Emitted', 0)
    BY <1>2, MakesNothing
  <2>2. Makes(delivered, Emitted, pc)'
    <3>1. Makes(delivered', Emitted', pc')
      BY <1>1, <2>1
    <3> QED
      BY <3>1 DEF Makes, Delivers, Target, Made, Upto, OpensIn, HandleAt
  <2>3. (\A j \in OpensIn(Emitted) : j <= pc => fds[HandleAt(Emitted, j)] = NamedAt(Emitted, j))'
    <3>1. \A j \in OpensIn(Emitted') : ~(j <= pc')
      BY <1>1, <1>3
    <3> QED
      BY <3>1 DEF OpensIn
  <2> QED
    BY <1>1, <2>2, <2>3 DEF Faithful, stdout, stderr
<1> QED
  BY <1>1, <1>6, <1>7, <1>8 DEF RunInv

Targets == [file : Files \cup Nat, writable : BOOLEAN]

(* What a longer list makes, when the entry behind the others is delivered *)
(* as the DOS program means it.                                            *)
LEMMA MakesMore ==
  ASSUME NEW list, WellFormed(list), NEW entry \in Entries, NEW longer, longer = Append(list, entry),
         NEW out, Makes(out, list, Len(list)),
         NEW target \in Targets, entry.kind = "write" => Target(longer, Len(list) + 1) = target,
         NEW more, more = IF entry.kind = "write" /\ target.writable
                          THEN Append(out, Output(target.file, entry.data)) ELSE out
  PROVE  Makes(more, longer, Len(longer))
<1>1. /\ longer \in Seq(Entries) /\ Len(list) \in Nat /\ Len(longer) = Len(list) + 1
      /\ longer[Len(list) + 1] = entry /\ Len(list) + 1 \in DOMAIN longer
  <2>1. DOMAIN longer = DOMAIN list \cup {Len(list) + 1}
    BY Longer
  <2> QED
    BY <2>1, Longer
<1>2. Makes(out, longer, Len(list))
  BY MakesLonger
<1>3. Len(list) + 1 \in Delivers(longer) <=> entry.kind = "write" /\ target.writable
  BY <1>1 DEF Delivers
<1>4. CASE entry.kind = "write" /\ target.writable
  <2>1. Made(longer, Len(list) + 1) = Output(target.file, entry.data)
    BY <1>1, <1>4 DEF Made
  <2>2. entry.data \in Nat
    BY <1>4 DEF Entries, OpenEntries, WriteEntries
  <2>3. Output(target.file, entry.data) \in Outputs
    BY <2>2 DEF Targets, Outputs, Output
  <2>4. more = IF Len(list) + 1 \in Delivers(longer) THEN Append(out, Made(longer, Len(list) + 1)) ELSE out
    BY <1>3, <1>4, <2>1
  <2>5. Len(list) \in 0 .. Len(longer) - 1
    BY <1>1
  <2>6. Makes(more, longer, Len(list) + 1)
    BY <1>1, <1>2, <2>1, <2>3, <2>4, <2>5, MakesNext
  <2> QED
    BY <1>1, <2>6
<1>5. CASE ~(entry.kind = "write" /\ target.writable)
  <2>1. Len(list) + 1 \notin Delivers(longer)
    BY <1>3, <1>5
  <2>2. more = IF Len(list) + 1 \in Delivers(longer) THEN Append(out, Made(longer, Len(list) + 1)) ELSE out
    BY <1>5, <2>1
  <2>3. Len(list) \in 0 .. Len(longer) - 1
    BY <1>1
  <2>4. Makes(more, longer, Len(list) + 1)
    BY <1>1, <1>2, <2>1, <2>2, <2>3, MakesNext
  <2> QED
    BY <1>1, <2>4
<1> QED
  BY <1>4, <1>5

(* What stays of the invariant when a call leaves no action behind.        *)
LEMMA CallLeavesNothing ==
  ASSUME CompileInv, calls \in Nat, calls' \in {calls, calls + 1},
         UNCHANGED <<actions, writes, nextFake, wanted>>,
         \A h \in DOMAIN handles' : h \in DOMAIN handles /\ handles'[h] = handles[h]
  PROVE  CompileInv'
<1>1. actions' = actions /\ writes' = writes /\ nextFake' = nextFake /\ wanted' = wanted
  OBVIOUS
<1>2. Emitted' = Emitted
  BY <1>1 DEF Emitted
<1>3. (WellFormed(actions) /\ WellFormed(writes) /\ OpensIn(writes) = {})'
  BY <1>1 DEF CompileInv
<1>4. (nextFake = FirstFake + Upto(OpensIn(actions), Len(actions)))'
  BY <1>1 DEF CompileInv, OpensIn, Upto
<1>5. (nextFake <= FirstFake + calls)'
  <2>1. nextFake \in Nat /\ nextFake <= FirstFake + calls
    <3>1. actions \in Seq(Entries)
      BY DEF CompileInv, WellFormed
    <3>2. Upto(OpensIn(actions), Len(actions)) \in Nat
      BY <3>1, Places, UptoIs
    <3> QED
      BY <3>2 DEF CompileInv, FirstFake
  <2>2. calls \in Nat /\ calls' \in Nat /\ calls <= calls'
    OBVIOUS
  <2>3. \A m, n, k \in Nat : m <= 3 + n /\ n <= k => m <= 3 + k
    OBVIOUS
  <2>4. nextFake <= 3 + calls
    BY <2>1 DEF FirstFake
  <2>5. nextFake <= 3 + calls'
    BY <2>1, <2>2, <2>3, <2>4
  <2> QED
    BY <1>1, <2>5 DEF FirstFake
<1>6. (\A h \in DOMAIN handles : \E j \in OpensIn(actions) :
         HandleAt(actions, j) = h /\ handles[h] = NamedAt(actions, j))'
  BY <1>1 DEF CompileInv
<1>7. (actions = <<>> \/ writes = <<>> => Makes(wanted, Emitted, Len(Emitted)))'
  BY <1>1, <1>2 DEF CompileInv
<1> QED
  BY <1>3, <1>4, <1>5, <1>6, <1>7 DEF CompileInv

(* And when it leaves one.                                                 *)
LEMMA CallLeavesAction ==
  ASSUME CompileInv, NEW entry \in Entries, actions' = Append(actions, entry), UNCHANGED writes,
         NEW target \in Targets, entry.kind = "write" => Target(actions', Len(actions) + 1) = target,
         wanted' = IF entry.kind = "write" /\ target.writable
                   THEN Append(wanted, Output(target.file, entry.data)) ELSE wanted
  PROVE  (actions = <<>> \/ writes = <<>> => Makes(wanted, Emitted, Len(Emitted)))'
<1> SUFFICES ASSUME (actions = <<>> \/ writes = <<>>)' PROVE Makes(wanted, Emitted, Len(Emitted))'
  OBVIOUS
<1>1. WellFormed(actions) /\ actions \in Seq(Entries)
  BY DEF CompileInv, WellFormed
<1>2. actions' # <<>> /\ Emitted' = actions'
  <2>1. Len(actions') = Len(actions) + 1 /\ Len(actions) \in Nat
    BY <1>1, Longer
  <2>2. actions' # <<>>
    BY <2>1
  <2> QED
    BY <2>2 DEF Emitted
<1>3. writes = <<>>
  BY <1>2
<1>4. Emitted = actions
  BY <1>3 DEF Emitted
<1>5. Makes(wanted, actions, Len(actions))
  BY <1>3, <1>4 DEF CompileInv
<1>6. Makes(wanted', actions', Len(actions'))
  BY <1>1, <1>5, MakesMore
<1> QED
  BY <1>2, <1>6

----------------------------------------------------------------------------
(* What the invariant says of the types.                                   *)
LEMMA Facts ==
  ASSUME ActionsInv
  PROVE  /\ TypeOK /\ CompileInv /\ RunInv /\ WellFormed(actions) /\ WellFormed(writes)
         /\ actions \in Seq(Entries) /\ writes \in Seq(Entries) /\ Emitted \in Seq(Entries)
         /\ calls \in Nat /\ calls <= MaxCalls /\ nextFake \in Nat /\ nextFake >= 3
         /\ Len(actions) \in Nat /\ Len(writes) \in Nat /\ Len(Emitted) \in Nat /\ pc \in 0 .. Len(Emitted)
<1>1. TypeOK /\ CompileInv /\ RunInv
  BY DEF ActionsInv
<1>2. WellFormed(actions) /\ WellFormed(writes)
  BY <1>1 DEF CompileInv
<1>3. actions \in Seq(Entries) /\ writes \in Seq(Entries)
  BY <1>2 DEF WellFormed
<1>4. Emitted \in Seq(Entries)
  BY <1>3 DEF Emitted
<1>5. calls \in Nat /\ calls <= MaxCalls /\ nextFake \in Nat /\ nextFake >= 3 /\ pc \in 0 .. Len(Emitted)
  BY <1>1, CallsAssumption DEF TypeOK, FirstFake
<1>6. Len(actions) \in Nat /\ Len(writes) \in Nat /\ Len(Emitted) \in Nat
  BY <1>3, <1>4
<1> QED
  BY <1>1, <1>2, <1>3, <1>4, <1>5, <1>6

(* A larger bound bounds what a smaller one does.                          *)
LEMMA IntervalGrows ==
  ASSUME NEW m \in Nat, NEW n \in Nat, m <= n
  PROVE  \A k \in 1 .. m - 1 : k \in 1 .. n - 1
OBVIOUS

(* The types after a call.                                                 *)
LEMMA CallKeepsTypes ==
  ASSUME ActionsInv, phase = "compiling", phase' \in {"compiling", "rejected"},
         calls < MaxCalls, calls' = calls + 1, UNCHANGED runVars, CompileInv',
         nextFake' \in {nextFake, nextFake + 1},
         DOMAIN handles' \cup payloads' \subseteq 3 .. nextFake' - 1,
         \A i \in DOMAIN actions' :
           \/ i \in DOMAIN actions /\ actions'[i] = actions[i]
           \/ actions'[i].kind = "write" => actions'[i].fd \in 1 .. nextFake' - 1
  PROVE  TypeOK'
<1>1. calls' \in 0 .. MaxCalls
  BY Facts, CallsAssumption
<1>2. nextFake \in Nat /\ nextFake' \in Nat /\ nextFake' >= 3 /\ nextFake <= nextFake'
  BY Facts
<1>3. nextFake' \in 3 .. 3 + MaxCalls
  <2>1. nextFake' <= 3 + calls'
    BY DEF CompileInv, FirstFake
  <2> QED
    BY <1>1, <1>2, <2>1, CallsAssumption
<1>4. \A i \in DOMAIN actions' : actions'[i].kind = "write" => actions'[i].fd \in 1 .. nextFake' - 1
  <2>1. \A i \in DOMAIN actions : actions[i].kind = "write" => actions[i].fd \in 1 .. nextFake - 1
    BY Facts DEF TypeOK
  <2>2. \A fd \in 1 .. nextFake - 1 : fd \in 1 .. nextFake' - 1
    BY <1>2, IntervalGrows
  <2> QED
    BY <2>1, <2>2
<1>5. pc' \in 0 .. Len(Emitted')
  <2>1. pc' = 0
    BY Facts DEF RunInv, runVars
  <2>2. Emitted' \in Seq(Entries)
    <3>1. actions' \in Seq(Entries) /\ writes' \in Seq(Entries)
      BY DEF CompileInv, WellFormed
    <3> QED
      BY <3>1 DEF Emitted
  <2>3. Len(Emitted') \in Nat
    BY <2>2
  <2> QED
    BY <2>1, <2>3
<1>6. 0 .. 2 \subseteq DOMAIN fds'
  BY Facts DEF TypeOK, runVars
<1> QED
  BY <1>1, <1>3, <1>4, <1>5, <1>6 DEF TypeOK, FirstFake

(* A call that leaves no action and opens nothing.                         *)
LEMMA QuietCall ==
  ASSUME ActionsInv, Call, phase' \in {"compiling", "rejected"},
         UNCHANGED <<actions, writes, nextFake, payloads, wanted>>,
         \A h \in DOMAIN handles' : h \in DOMAIN handles /\ handles'[h] = handles[h]
  PROVE  ActionsInv'
<1>1. CompileInv'
  <2>1. calls \in Nat /\ calls' \in {calls, calls + 1} /\ CompileInv
    BY Facts DEF Call
  <2> QED
    BY <2>1, CallLeavesNothing
<1>2. phase = "compiling" /\ calls < MaxCalls /\ calls' = calls + 1 /\ UNCHANGED runVars
  BY DEF Call
<1>3. DOMAIN handles' \cup payloads' \subseteq 3 .. nextFake' - 1
  BY Facts DEF TypeOK, FirstFake
<1>4. TypeOK'
  BY <1>1, <1>2, <1>3, CallKeepsTypes
<1>5. RunInv'
  BY <1>1, <1>2, CallKeepsRun
<1> QED
  BY <1>1, <1>4, <1>5 DEF ActionsInv

(* Close: the handle is forgotten, or the program rejected.                *)
LEMMA CloseStep ==
  ASSUME ActionsInv, NEW h \in HandleValues, CloseHandle(h)
  PROVE  ActionsInv'
<1>1. phase = "compiling" /\ Call
  BY DEF CloseHandle, Call
<1>2. phase' \in {"compiling", "rejected"} /\ UNCHANGED <<actions, writes, nextFake, payloads, wanted>>
  BY <1>1 DEF CloseHandle
<1>3. \A k \in DOMAIN handles' : k \in DOMAIN handles /\ handles'[k] = handles[k]
  BY DEF CloseHandle
<1> QED
  BY <1>1, <1>2, <1>3, QuietCall

(* Read, and the services that are not supported.                          *)
LEMMA QuietSteps ==
  ASSUME ActionsInv, Unsupported \/ \E h \in HandleValues, count \in {0, 1} : ReadHandle(h, count)
  PROVE  ActionsInv'
<1>1. phase = "compiling" /\ Call
  BY DEF ReadHandle, Unsupported, Call
<1>2. phase' \in {"compiling", "rejected"} /\ UNCHANGED <<actions, writes, handles, nextFake, payloads, wanted>>
  BY <1>1 DEF ReadHandle, Unsupported
<1> QED
  BY <1>1, <1>2, QuietCall

(* Open: the next handle is the one of the open just appended.             *)
LEMMA OpenStep ==
  ASSUME ActionsInv, NEW file \in Files, NEW writable \in BOOLEAN, NEW present \in BOOLEAN,
         OpenFile(file, writable, present)
  PROVE  ActionsInv'
<1> DEFINE entry == Open(file, writable)
<1>1. /\ phase = "compiling" /\ calls < MaxCalls /\ calls' = calls + 1 /\ UNCHANGED runVars /\ phase' = phase
      /\ actions' = Append(actions, entry) /\ writes' = writes /\ wanted' = wanted
      /\ handles' = Entered(handles, nextFake, Named(file, writable)) /\ nextFake' = nextFake + 1
      /\ payloads' \in {payloads, payloads \cup {nextFake}}
  BY DEF OpenFile, Call, FakeHandle
<1>2. entry \in Entries /\ entry.kind = "open" /\ NamedAt(<<entry>>, 1) = Named(file, writable)
  BY DEF Open, Entries, OpenEntries, NamedAt
<1>3. entry.file = file /\ entry.writable = writable
  BY DEF Open
<1> HIDE DEF entry
<1>4. WellFormed(actions')
  BY <1>1, <1>2, Facts, LongerWellFormed
<1>5. WellFormed(writes') /\ OpensIn(writes') = {}
  BY <1>1, Facts DEF CompileInv
<1>6. /\ Len(actions) \in Nat /\ Len(actions') = Len(actions) + 1 /\ actions'[Len(actions) + 1] = entry
      /\ \A i \in DOMAIN actions : actions'[i] = actions[i]
      /\ DOMAIN actions' = DOMAIN actions \cup {Len(actions) + 1}
      /\ actions' \in Seq(Entries)
  BY <1>1, <1>2, Facts, Longer
<1>7. OpensIn(actions') = OpensIn(actions) \cup {Len(actions) + 1}
  BY <1>1, <1>2, Facts, LongerOpenSet
<1>8. HandleAt(actions', Len(actions) + 1) = nextFake /\ nextFake' = 3 + Upto(OpensIn(actions'), Len(actions'))
  <2>1. Len(actions) <= Len(actions)
    BY <1>6
  <2>2. Upto(OpensIn(actions'), Len(actions)) = Upto(OpensIn(actions), Len(actions))
    BY <1>1, <1>2, <1>6, <2>1, Facts, LongerUpto
  <2>3. \A x \in OpensIn(actions') : x \in Nat /\ x > 0
    BY <1>6, Places
  <2>4. Upto(OpensIn(actions'), Len(actions) + 1) = Upto(OpensIn(actions'), Len(actions)) + 1
        /\ Upto(OpensIn(actions'), Len(actions)) \in Nat
    BY <1>6, <1>7, <2>3, UptoIs
  <2>5. nextFake = 3 + Upto(OpensIn(actions), Len(actions))
    BY Facts DEF CompileInv, FirstFake
  <2> QED
    BY <1>1, <1>6, <2>2, <2>4, <2>5 DEF HandleAt
<1>9. DOMAIN handles' = DOMAIN handles \cup {nextFake} /\ handles'[nextFake] = Named(file, writable)
      /\ \A h \in DOMAIN handles : h # nextFake => handles'[h] = handles[h]
  BY <1>1 DEF Entered
<1>10. ASSUME NEW h \in DOMAIN handles'
       PROVE  \E j \in OpensIn(actions') : HandleAt(actions', j) = h /\ handles'[h] = NamedAt(actions', j)
  <2>1. CASE h = nextFake
    <3>1. Len(actions) + 1 \in OpensIn(actions')
      BY <1>7
    <3>2. NamedAt(actions', Len(actions) + 1) = Named(file, writable)
      BY <1>6, <1>3 DEF NamedAt
    <3> QED
      BY <1>8, <1>9, <2>1, <3>1, <3>2
  <2>2. CASE h # nextFake
    <3>1. h \in DOMAIN handles /\ handles'[h] = handles[h]
      BY <1>9, <2>2
    <3>2. PICK j \in OpensIn(actions) : HandleAt(actions, j) = h /\ handles[h] = NamedAt(actions, j)
      BY <3>1, Facts DEF CompileInv
    <3>3. j \in OpensIn(actions') /\ HandleAt(actions', j) = HandleAt(actions, j)
      BY <1>1, <1>2, Facts, LongerOpens
    <3>4. j \in DOMAIN actions
      BY Facts, Places
    <3>5. NamedAt(actions', j) = NamedAt(actions, j)
      BY <3>4, <1>6 DEF NamedAt
    <3> QED
      BY <3>1, <3>2, <3>3, <3>5
  <2> QED
    BY <2>1, <2>2
<1>11. nextFake' <= 3 + calls'
  <2>1. nextFake <= 3 + calls
    BY Facts DEF CompileInv, FirstFake
  <2> QED
    BY <1>1, <2>1, Facts
<1>12. (actions = <<>> \/ writes = <<>> => Makes(wanted, Emitted, Len(Emitted)))'
  <2>1. Named(file, writable) \in Targets
    BY DEF Targets, Named
  <2>2. ~(entry.kind = "write")
    BY <1>2
  <2>3. wanted' = IF entry.kind = "write" /\ Named(file, writable).writable
                  THEN Append(wanted, Output(Named(file, writable).file, entry.data)) ELSE wanted
    BY <1>1, <2>2
  <2>4. CompileInv /\ UNCHANGED writes
    BY <1>1, Facts
  <2> QED
    BY <1>1, <1>2, <2>1, <2>2, <2>3, <2>4, CallLeavesAction
<1>13. CompileInv'
  BY <1>4, <1>5, <1>8, <1>10, <1>11, <1>12 DEF CompileInv, FirstFake
<1>14. phase' \in {"compiling", "rejected"} /\ nextFake' \in {nextFake, nextFake + 1}
  BY <1>1
<1>15. DOMAIN handles' \cup payloads' \subseteq 3 .. nextFake' - 1
  <2>1. \A x \in DOMAIN handles \cup payloads : x \in 3 .. nextFake - 1
    BY Facts DEF TypeOK, FirstFake
  <2>2. \A x \in 3 .. nextFake - 1 : x \in 3 .. nextFake' - 1
    BY <1>1, Facts
  <2>3. nextFake \in 3 .. nextFake' - 1
    BY <1>1, Facts
  <2> QED
    BY <1>1, <1>9, <2>1, <2>2, <2>3
<1>16. \A i \in DOMAIN actions' :
         \/ i \in DOMAIN actions /\ actions'[i] = actions[i]
         \/ actions'[i].kind = "write" => actions'[i].fd \in 1 .. nextFake' - 1
  BY <1>2, <1>6
<1>17. TypeOK'
  BY <1>1, <1>13, <1>14, <1>15, <1>16, CallKeepsTypes
<1>18. RunInv'
  BY <1>1, <1>13, <1>14, CallKeepsRun
<1> QED
  BY <1>13, <1>17, <1>18 DEF ActionsInv

WriteAccepted(h) ==
  /\ h \in DOMAIN handles \cup {stdout, stderr}
  /\ actions' = Append(actions, Write(h, calls))
  /\ wanted' = IF Meant(h).writable THEN Append(wanted, Output(Meant(h).file, calls)) ELSE wanted
  /\ UNCHANGED phase

(* What a handle in use names is what the open of its number opened.       *)
LEMMA MeantIs ==
  ASSUME ActionsInv, NEW h \in DOMAIN handles \cup {stdout, stderr}
  PROVE  /\ h \in Nat /\ h \in 1 .. nextFake - 1 /\ Meant(h) \in Targets
         /\ h \notin {stdout, stderr} =>
              \E j \in OpensIn(actions) : HandleAt(actions, j) = h /\ Meant(h) = NamedAt(actions, j)
<1>1. CASE h \in {stdout, stderr}
  <2>1. h \in Nat /\ h \in 1 .. nextFake - 1
    BY <1>1, Facts DEF stdout, stderr
  <2>2. Meant(h) = Named(h, TRUE)
    BY <1>1 DEF Meant
  <2> QED
    BY <1>1, <2>1, <2>2 DEF Targets, Named
<1>2. CASE h \notin {stdout, stderr}
  <2>1. h \in DOMAIN handles /\ Meant(h) = handles[h]
    BY <1>2 DEF Meant
  <2>2. h \in 3 .. nextFake - 1 /\ nextFake \in Nat
    BY <2>1, Facts DEF TypeOK, FirstFake
  <2>3. h \in Nat /\ h \in 1 .. nextFake - 1
    BY <2>2
  <2>4. PICK j \in OpensIn(actions) : HandleAt(actions, j) = h /\ handles[h] = NamedAt(actions, j)
    BY <2>1, Facts DEF CompileInv
  <2>5. actions[j] \in OpenEntries
    BY Facts, Places DEF OpensIn
  <2>6. NamedAt(actions, j) \in Targets
    BY <2>5 DEF NamedAt, Named, Targets, OpenEntries
  <2> QED
    BY <1>2, <2>1, <2>3, <2>4, <2>6
<1> QED
  BY <1>1, <1>2

(* Write: the action uses the handle of an open already appended.          *)
LEMMA WriteStep ==
  ASSUME ActionsInv, NEW h \in HandleValues, WriteHandle(h)
  PROVE  ActionsInv'
<1>1. /\ phase = "compiling" /\ calls < MaxCalls /\ calls' = calls + 1 /\ UNCHANGED runVars /\ Call
      /\ writes' = writes /\ handles' = handles /\ nextFake' = nextFake /\ payloads' = payloads
  BY DEF WriteHandle, Call
<1>2. CASE WriteAccepted(h)
  <2> DEFINE entry == Write(h, calls)
  <2>1. /\ h \in DOMAIN handles \cup {stdout, stderr} /\ actions' = Append(actions, entry) /\ phase' = phase
        /\ wanted' = IF Meant(h).writable THEN Append(wanted, Output(Meant(h).file, calls)) ELSE wanted
    BY <1>2 DEF WriteAccepted
  <2>2. /\ h \in Nat /\ h \in 1 .. nextFake - 1 /\ Meant(h) \in Targets
        /\ h \notin {stdout, stderr} =>
             \E j \in OpensIn(actions) : HandleAt(actions, j) = h /\ Meant(h) = NamedAt(actions, j)
    BY <2>1, MeantIs
  <2>3. entry \in Entries /\ entry.kind = "write" /\ entry.fd = h /\ entry.data = calls
    BY <2>2, Facts DEF Write, Entries, WriteEntries
  <2> HIDE DEF entry
  <2>4. WellFormed(actions')
    BY <2>1, <2>2, <2>3, Facts, LongerWellFormed
  <2>5. WellFormed(writes') /\ OpensIn(writes') = {}
    BY <1>1, Facts DEF CompileInv
  <2>6. /\ Len(actions) \in Nat /\ Len(actions') = Len(actions) + 1 /\ actions'[Len(actions) + 1] = entry
        /\ \A i \in DOMAIN actions : actions'[i] = actions[i]
        /\ DOMAIN actions' = DOMAIN actions \cup {Len(actions) + 1}
        /\ Len(actions) + 1 \notin DOMAIN actions
        /\ actions' \in Seq(Entries)
    BY <2>1, <2>3, Facts, Longer
  <2>7. OpensIn(actions') = OpensIn(actions)
    BY <2>1, <2>3, Facts, LongerOpenSet
  <2>8. nextFake' = 3 + Upto(OpensIn(actions'), Len(actions'))
    <3>1. \A x \in OpensIn(actions) : x \in Nat /\ x > 0
      BY Facts, Places
    <3>2. Len(actions) + 1 \notin OpensIn(actions)
      BY <2>6 DEF OpensIn
    <3>3. Upto(OpensIn(actions), Len(actions) + 1) = Upto(OpensIn(actions), Len(actions))
      BY <2>6, <3>1, <3>2, UptoIs
    <3>4. nextFake = 3 + Upto(OpensIn(actions), Len(actions))
      BY Facts DEF CompileInv, FirstFake
    <3> QED
      BY <1>1, <2>6, <2>7, <3>3, <3>4
  <2>9. ASSUME NEW k \in DOMAIN handles'
        PROVE  \E j \in OpensIn(actions') : HandleAt(actions', j) = k /\ handles'[k] = NamedAt(actions', j)
    <3>1. PICK j \in OpensIn(actions) : HandleAt(actions, j) = k /\ handles[k] = NamedAt(actions, j)
      BY <1>1, Facts DEF CompileInv
    <3>2. j \in DOMAIN actions
      BY DEF OpensIn
    <3>3. NamedAt(actions', j) = NamedAt(actions, j)
      BY <2>6, <3>2 DEF NamedAt
    <3>4. HandleAt(actions', j) = HandleAt(actions, j)
      BY <2>7 DEF HandleAt
    <3> QED
      BY <1>1, <2>7, <3>1, <3>3, <3>4
  <2>10. nextFake' <= 3 + calls'
    <3>1. nextFake <= 3 + calls
      BY Facts DEF CompileInv, FirstFake
    <3> QED
      BY <1>1, <3>1, Facts
  <2>11. Target(actions', Len(actions) + 1) = Meant(h)
    <3>1. actions'[Len(actions) + 1].fd = h
      BY <2>3, <2>6
    <3>2. CASE h \in {stdout, stderr}
      BY <3>1, <3>2 DEF Target, Meant
    <3>3. CASE h \notin {stdout, stderr}
      <4>1. PICK j \in OpensIn(actions) : HandleAt(actions, j) = h /\ Meant(h) = NamedAt(actions, j)
        BY <2>2, <3>3
      <4>2. j \in OpensIn(actions') /\ HandleAt(actions', j) = h
        BY <2>7, <4>1 DEF HandleAt
      <4>3. j \in DOMAIN actions
        BY DEF OpensIn
      <4>4. Len(actions) + 1 \in DOMAIN actions'
        BY <2>6
      <4>5. Target(actions', Len(actions) + 1) = Named(actions'[j].file, actions'[j].writable)
        BY <2>6, <3>1, <3>3, <4>2, <4>4, TargetIs
      <4> QED
        BY <2>6, <4>1, <4>3, <4>5 DEF NamedAt
    <3> QED
      BY <3>2, <3>3
  <2>12. (actions = <<>> \/ writes = <<>> => Makes(wanted, Emitted, Len(Emitted)))'
    <3>1. wanted' = IF entry.kind = "write" /\ Meant(h).writable
                    THEN Append(wanted, Output(Meant(h).file, entry.data)) ELSE wanted
      BY <2>1, <2>3
    <3>2. CompileInv /\ UNCHANGED writes
      BY <1>1, Facts
    <3> QED
      BY <2>1, <2>2, <2>3, <2>11, <3>1, <3>2, CallLeavesAction
  <2>13. CompileInv'
    BY <2>4, <2>5, <2>8, <2>9, <2>10, <2>12 DEF CompileInv, FirstFake
  <2>14. phase' \in {"compiling", "rejected"} /\ nextFake' \in {nextFake, nextFake + 1}
    BY <1>1, <2>1
  <2>15. DOMAIN handles' \cup payloads' \subseteq 3 .. nextFake' - 1
    BY <1>1, Facts DEF TypeOK, FirstFake
  <2>16. \A i \in DOMAIN actions' :
           \/ i \in DOMAIN actions /\ actions'[i] = actions[i]
           \/ actions'[i].kind = "write" => actions'[i].fd \in 1 .. nextFake' - 1
    BY <1>1, <2>2, <2>3, <2>6
  <2>17. TypeOK'
    BY <1>1, <2>13, <2>14, <2>15, <2>16, CallKeepsTypes
  <2>18. RunInv'
    BY <1>1, <2>13, <2>14, CallKeepsRun
  <2> QED
    BY <2>13, <2>17, <2>18 DEF ActionsInv
<1>3. CASE ~WriteAccepted(h)
  <2>1. phase' = "rejected" /\ actions' = actions /\ wanted' = wanted
    BY <1>3 DEF WriteHandle, WriteAccepted
  <2> QED
    BY <1>1, <2>1, QuietCall
<1> QED
  BY <1>2, <1>3

(* Console output: a list of its own, of writes to 1 and 2.                *)
LEMMA ConsoleStep ==
  ASSUME ActionsInv, NEW fd \in {stdout, stderr}, Console(fd)
  PROVE  ActionsInv'
<1> DEFINE entry == Write(fd, calls)
<1>1. /\ phase = "compiling" /\ calls < MaxCalls /\ calls' = calls + 1 /\ UNCHANGED runVars /\ phase' = phase
      /\ actions' = actions /\ handles' = handles /\ nextFake' = nextFake /\ payloads' = payloads
      /\ writes' = Append(writes, entry) /\ wanted' = Append(wanted, Output(fd, calls))
  BY DEF Console, Call
<1>2. entry \in Entries /\ entry.kind = "write" /\ entry.fd = fd /\ entry.data = calls /\ fd \in Nat
  BY Facts DEF Write, Entries, WriteEntries, stdout, stderr
<1> HIDE DEF entry
<1>3. WellFormed(writes')
  BY <1>1, <1>2, Facts, LongerWellFormed
<1>4. OpensIn(writes') = {}
  BY <1>1, <1>2, Facts, LongerOpenSet DEF CompileInv
<1>5. /\ Len(writes) \in Nat /\ Len(writes') = Len(writes) + 1 /\ writes'[Len(writes) + 1] = entry
      /\ writes' \in Seq(Entries)
  BY <1>1, <1>2, Facts, Longer
<1>6. WellFormed(actions') /\ OpensIn(actions') = OpensIn(actions) /\ Len(actions') = Len(actions)
  BY <1>1, Facts
<1>7. nextFake' = 3 + Upto(OpensIn(actions'), Len(actions'))
  BY <1>1, <1>6, Facts DEF CompileInv, FirstFake
<1>8. ASSUME NEW k \in DOMAIN handles'
      PROVE  \E j \in OpensIn(actions') : HandleAt(actions', j) = k /\ handles'[k] = NamedAt(actions', j)
  BY <1>1, Facts DEF CompileInv
<1>9. nextFake' <= 3 + calls'
  <2>1. nextFake <= 3 + calls
    BY Facts DEF CompileInv, FirstFake
  <2> QED
    BY <1>1, <2>1, Facts
<1>10. ASSUME (actions = <<>> \/ writes = <<>>)'
       PROVE  Makes(wanted', Emitted', Len(Emitted'))
  <2>1. writes' # <<>>
    BY <1>5
  <2>2. actions = <<>> /\ actions' = <<>>
    BY <1>1, <1>10, <2>1
  <2>3. Emitted = writes /\ Emitted' = writes'
    BY <2>2 DEF Emitted
  <2>4. Makes(wanted, writes, Len(writes))
    BY <2>2, <2>3, Facts DEF CompileInv
  <2>5. Named(fd, TRUE) \in Targets /\ Named(fd, TRUE).writable /\ Named(fd, TRUE).file = fd
    BY <1>2 DEF Named, Targets
  <2>6. Target(writes', Len(writes) + 1) = Named(fd, TRUE)
    BY <1>2, <1>5 DEF Target
  <2>7. wanted' = IF entry.kind = "write" /\ Named(fd, TRUE).writable
                  THEN Append(wanted, Output(Named(fd, TRUE).file, entry.data)) ELSE wanted
    BY <1>1, <1>2, <2>5
  <2>8. Makes(wanted', writes', Len(writes'))
    BY <1>1, <1>2, <2>4, <2>5, <2>6, <2>7, Facts, MakesMore
  <2> QED
    BY <2>3, <2>8
<1>11. CompileInv'
  BY <1>3, <1>4, <1>6, <1>7, <1>8, <1>9, <1>10 DEF CompileInv, FirstFake
<1>12. phase' \in {"compiling", "rejected"} /\ nextFake' \in {nextFake, nextFake + 1}
  BY <1>1
<1>13. DOMAIN handles' \cup payloads' \subseteq 3 .. nextFake' - 1
  BY <1>1, Facts DEF TypeOK, FirstFake
<1>14. \A i \in DOMAIN actions' : i \in DOMAIN actions /\ actions'[i] = actions[i]
  BY <1>1
<1>15. TypeOK'
  BY <1>1, <1>11, <1>12, <1>13, <1>14, CallKeepsTypes
<1>16. RunInv'
  BY <1>1, <1>11, <1>12, CallKeepsRun
<1> QED
  BY <1>11, <1>15, <1>16 DEF ActionsInv

----------------------------------------------------------------------------
(* The run leaves what was compiled alone.                                 *)
LEMMA RunKeeps ==
  ASSUME ActionsInv, UNCHANGED compileVars, phase' \in {"compiling", "rejected", "running", "exited"},
         pc' \in 0 .. Len(Emitted), 0 .. 2 \subseteq DOMAIN fds'
  PROVE  TypeOK' /\ CompileInv' /\ Emitted' = Emitted
<1>1. /\ calls' = calls /\ actions' = actions /\ writes' = writes /\ handles' = handles
      /\ nextFake' = nextFake /\ payloads' = payloads /\ wanted' = wanted
  BY DEF compileVars
<1>2. Emitted' = Emitted
  BY <1>1 DEF Emitted
<1>3. CompileInv'
  <2>1. CompileInv /\ calls \in Nat /\ calls' \in {calls, calls + 1}
    BY <1>1, Facts
  <2> QED
    BY <1>1, <2>1, CallLeavesNothing
<1>4. TypeOK'
  BY <1>1, <1>2, Facts DEF TypeOK
<1> QED
  BY <1>2, <1>3, <1>4

(* The program starts with nothing done.                                   *)
LEMMA ExitStep ==
  ASSUME ActionsInv, Exit
  PROVE  ActionsInv'
<1>1. phase = "compiling" /\ phase' = "running" /\ UNCHANGED compileVars
      /\ pc' = pc /\ fds' = fds /\ delivered' = delivered
  BY DEF Exit, runVars
<1>2. TypeOK' /\ CompileInv' /\ Emitted' = Emitted
  <2>1. pc' \in 0 .. Len(Emitted) /\ 0 .. 2 \subseteq DOMAIN fds'
    BY <1>1, Facts DEF TypeOK
  <2> QED
    BY <1>1, <2>1, RunKeeps
<1>3. Descriptors' = Descriptors /\ OpenedSoFar' = OpenedSoFar
  BY <1>1, <1>2 DEF Descriptors, OpenedSoFar
<1>4. Faithful => Faithful'
  BY <1>1, <1>2 DEF Faithful
<1>5. RunInv'
  BY <1>1, <1>2, <1>3, <1>4, Facts DEF RunInv
<1> QED
  BY <1>2, <1>5 DEF ActionsInv

(* It ends with everything done.                                           *)
LEMMA ExitSyscallStep ==
  ASSUME ActionsInv, ExitSyscall
  PROVE  ActionsInv'
<1>1. phase' = "exited" /\ UNCHANGED compileVars /\ pc = Len(Emitted)
      /\ pc' = pc /\ fds' = fds /\ delivered' = delivered
  BY DEF ExitSyscall, runVars
<1>2. TypeOK' /\ CompileInv' /\ Emitted' = Emitted
  <2>1. pc' \in 0 .. Len(Emitted) /\ 0 .. 2 \subseteq DOMAIN fds'
    BY <1>1, Facts DEF TypeOK
  <2> QED
    BY <1>1, <2>1, RunKeeps
<1>3. Descriptors' = Descriptors /\ OpenedSoFar' = OpenedSoFar
  BY <1>1, <1>2 DEF Descriptors, OpenedSoFar
<1>4. Faithful => Faithful'
  BY <1>1, <1>2 DEF Faithful
<1>5. RunInv'
  BY <1>1, <1>2, <1>3, <1>4, Facts DEF RunInv
<1> QED
  BY <1>2, <1>5 DEF ActionsInv

(* The entry a system call carries out.                                    *)
LEMMA NextAction ==
  ASSUME ActionsInv, NEW kind, Running(kind), Proceed
  PROVE  /\ phase = "running" /\ phase' = "running" /\ UNCHANGED compileVars
         /\ pc \in Nat /\ pc' = pc + 1 /\ pc \in 0 .. Len(Emitted) - 1 /\ pc' \in 0 .. Len(Emitted)
         /\ pc + 1 \in DOMAIN Emitted /\ Action \in Entries /\ Emitted[pc + 1] = Action /\ Action.kind = kind
         /\ Descriptors \in Nat /\ DOMAIN fds = 0 .. Descriptors - 1
         /\ 3 <= Descriptors /\ Descriptors <= 3 + OpenedSoFar
         /\ Descriptors = 3 + OpenedSoFar => Faithful
         /\ OpenedSoFar \in Nat
         /\ Upto(OpensIn(Emitted), pc + 1) = IF kind = "open" THEN OpenedSoFar + 1 ELSE OpenedSoFar
<1>1. /\ phase = "running" /\ pc < Len(Emitted) /\ Emitted[pc + 1].kind = kind
      /\ phase' = phase /\ pc' = pc + 1 /\ UNCHANGED compileVars
  BY DEF Running, Proceed
<1>2. pc \in Nat /\ pc \in 0 .. Len(Emitted) - 1 /\ pc' \in 0 .. Len(Emitted)
  BY <1>1, Facts
<1>3. pc + 1 \in DOMAIN Emitted
  BY <1>2, Facts
<1>4. Emitted[pc + 1] \in Entries
  BY <1>3, Facts
<1>5. \A x \in OpensIn(Emitted) : x \in Nat /\ x > 0
  BY Facts, Places
<1>6. pc + 1 \in OpensIn(Emitted) <=> kind = "open"
  BY <1>1, <1>3 DEF OpensIn
<1>7. /\ OpenedSoFar \in Nat
      /\ Upto(OpensIn(Emitted), pc + 1) = IF kind = "open" THEN OpenedSoFar + 1 ELSE OpenedSoFar
  BY <1>2, <1>5, <1>6, UptoIs DEF OpenedSoFar
<1>8. RunInv
  BY Facts
<1> QED
  BY <1>1, <1>2, <1>3, <1>4, <1>7, <1>8 DEF RunInv, Action

(* An open already carried out has a handle below the descriptors.         *)
LEMMA OpenedBefore ==
  ASSUME ActionsInv, NEW j \in OpensIn(Emitted), j <= pc
  PROVE  HandleAt(Emitted, j) \in 3 .. 2 + OpenedSoFar
<1>1. \A x \in OpensIn(Emitted) : x \in Nat /\ x > 0
  BY Facts, Places
<1>2. pc \in Nat
  BY Facts
<1>3. Upto(OpensIn(Emitted), j) \in 1 .. Upto(OpensIn(Emitted), pc)
  BY <1>1, <1>2, UptoGrows
<1>4. Upto(OpensIn(Emitted), pc) \in Nat
  BY <1>1, <1>2, UptoIs
<1> QED
  BY <1>3, <1>4 DEF HandleAt, OpenedSoFar

(* Linux hands out the descriptor that is the handle, as long as no open   *)
(* has failed.                                                             *)
LEMMA OpenSyscallStep ==
  ASSUME ActionsInv, OpenSyscall
  PROVE  ActionsInv'
<1>1. Running("open") /\ Proceed /\ delivered' = delivered
      /\ fds' = Entered(fds, LowestFree, Named(Action.file, Action.writable))
  BY DEF OpenSyscall
<1> DEFINE D == Descriptors
<1>2. /\ phase' = "running" /\ UNCHANGED compileVars
      /\ pc \in Nat /\ pc' = pc + 1 /\ pc \in 0 .. Len(Emitted) - 1 /\ pc' \in 0 .. Len(Emitted)
      /\ pc + 1 \in DOMAIN Emitted /\ Action \in Entries /\ Emitted[pc + 1] = Action /\ Action.kind = "open"
      /\ D \in Nat /\ DOMAIN fds = 0 .. D - 1 /\ 3 <= D /\ D <= 3 + OpenedSoFar
      /\ D = 3 + OpenedSoFar => Faithful
      /\ OpenedSoFar \in Nat
      /\ Upto(OpensIn(Emitted), pc + 1) = OpenedSoFar + 1
  BY <1>1, NextAction
<1> HIDE DEF D
<1>3. LowestFree = D
  <2>1. \A fd \in 0 .. D : (fd \notin DOMAIN fds /\ \A e \in 0 .. fd - 1 : e \in DOMAIN fds) <=> fd = D
    BY <1>2
  <2>2. D \in 0 .. D
    BY <1>2
  <2>3. LowestFree = CHOOSE fd \in 0 .. D : fd \notin DOMAIN fds /\ \A e \in 0 .. fd - 1 : e \in DOMAIN fds
    BY DEF LowestFree, Descriptors, D
  <2> QED
    BY <2>1, <2>2, <2>3
<1>4. /\ DOMAIN fds' = 0 .. D
      /\ fds'[D] = Named(Action.file, Action.writable)
      /\ \A fd \in 0 .. D - 1 : fds'[fd] = fds[fd]
  <2>1. fds' = [k \in DOMAIN fds \cup {D} |-> IF k = D THEN Named(Action.file, Action.writable) ELSE fds[k]]
    BY <1>1, <1>3 DEF Entered
  <2>2. DOMAIN fds \cup {D} = 0 .. D
    BY <1>2
  <2>3. D \in 0 .. D /\ \A fd \in 0 .. D - 1 : fd \in 0 .. D /\ fd # D
    BY <1>2
  <2> QED
    BY <2>1, <2>2, <2>3
<1>5. Descriptors' = D + 1
  <2>1. 0 \in Int /\ D \in Int /\ ~(0 > D)
    BY <1>2
  <2>2. Cardinality(0 .. D) = D - 0 + 1
    BY <2>1, FS_Interval
  <2> QED
    BY <1>2, <1>4, <2>2 DEF Descriptors
<1>6. TypeOK' /\ CompileInv' /\ Emitted' = Emitted
  <2>1. 0 .. 2 \subseteq DOMAIN fds'
    BY <1>2, <1>4
  <2> QED
    BY <1>2, <2>1, RunKeeps
<1>7. OpenedSoFar' = OpenedSoFar + 1
  BY <1>2, <1>6 DEF OpenedSoFar
<1>8. ASSUME D + 1 = 3 + (OpenedSoFar + 1) PROVE Faithful'
  <2>1. D = 3 + OpenedSoFar /\ Faithful
    BY <1>2, <1>8
  <2>2. \A h \in {stdout, stderr} : fds'[h] = Named(h, TRUE)
    <3>1. \A h \in {stdout, stderr} : h \in 0 .. D - 1
      BY <1>2 DEF stdout, stderr
    <3> QED
      BY <1>4, <2>1, <3>1 DEF Faithful
  <2>3. ASSUME NEW j \in OpensIn(Emitted), j <= pc + 1
        PROVE  fds'[HandleAt(Emitted, j)] = NamedAt(Emitted, j)
    <3>1. j \in Nat
      BY Facts, Places
    <3>2. CASE j <= pc
      <4>1. HandleAt(Emitted, j) \in 0 .. D - 1
        BY <1>2, <2>1, <3>2, OpenedBefore
      <4> QED
        BY <1>4, <2>1, <3>2, <4>1 DEF Faithful
    <3>3. CASE j = pc + 1
      <4>1. HandleAt(Emitted, j) = D
        BY <1>2, <2>1, <3>3 DEF HandleAt
      <4> QED
        BY <1>2, <1>4, <3>3, <4>1 DEF NamedAt
    <3>4. j <= pc \/ j = pc + 1
      BY <1>2, <2>3, <3>1
    <3> QED
      BY <3>2, <3>3, <3>4
  <2>4. Makes(delivered', Emitted, pc + 1)
    <3>1. pc + 1 \notin Delivers(Emitted)
      BY <1>2 DEF Delivers
    <3>2. Makes(delivered, Emitted, pc)
      BY <2>1 DEF Faithful
    <3> QED
      BY <1>1, <1>2, <3>1, <3>2, Facts, MakesNext
  <2> QED
    BY <1>2, <1>6, <2>2, <2>3, <2>4 DEF Faithful
<1>9. RunInv'
  BY <1>2, <1>4, <1>5, <1>7, <1>8 DEF RunInv
<1> QED
  BY <1>6, <1>9 DEF ActionsInv

(* After an open that failed there is a descriptor less than opens.        *)
LEMMA OpenFailsStep ==
  ASSUME ActionsInv, OpenSyscallFails
  PROVE  ActionsInv'
<1>1. Running("open") /\ Proceed /\ delivered' = delivered /\ fds' = fds
  BY DEF OpenSyscallFails
<1>2. /\ phase' = "running" /\ UNCHANGED compileVars /\ pc' \in 0 .. Len(Emitted) /\ pc' = pc + 1
      /\ Descriptors \in Nat /\ DOMAIN fds = 0 .. Descriptors - 1
      /\ 3 <= Descriptors /\ Descriptors <= 3 + OpenedSoFar /\ OpenedSoFar \in Nat
      /\ Upto(OpensIn(Emitted), pc + 1) = OpenedSoFar + 1
  BY <1>1, NextAction
<1>3. TypeOK' /\ CompileInv' /\ Emitted' = Emitted
  <2>1. 0 .. 2 \subseteq DOMAIN fds'
    BY <1>1, Facts DEF TypeOK
  <2> QED
    BY <1>2, <2>1, RunKeeps
<1>4. OpenedSoFar' = OpenedSoFar + 1 /\ Descriptors' = Descriptors
  BY <1>1, <1>2, <1>3 DEF OpenedSoFar, Descriptors
<1>5. RunInv'
  BY <1>1, <1>2, <1>4 DEF RunInv
<1> QED
  BY <1>3, <1>5 DEF ActionsInv

(* A write reaches what the open of its handle opened.                     *)
LEMMA WriteSyscallStep ==
  ASSUME ActionsInv, WriteSyscall
  PROVE  ActionsInv'
<1>1. /\ Running("write") /\ Proceed /\ fds' = fds
      /\ delivered' = IF Action.fd \in DOMAIN fds /\ fds[Action.fd].writable
                      THEN Append(delivered, Output(fds[Action.fd].file, Action.data))
                      ELSE delivered
  BY DEF WriteSyscall
<1>2. /\ phase' = "running" /\ UNCHANGED compileVars
      /\ pc \in Nat /\ pc' = pc + 1 /\ pc \in 0 .. Len(Emitted) - 1 /\ pc' \in 0 .. Len(Emitted)
      /\ pc + 1 \in DOMAIN Emitted /\ Action \in Entries /\ Emitted[pc + 1] = Action /\ Action.kind = "write"
      /\ Descriptors \in Nat /\ DOMAIN fds = 0 .. Descriptors - 1
      /\ 3 <= Descriptors /\ Descriptors <= 3 + OpenedSoFar
      /\ Descriptors = 3 + OpenedSoFar => Faithful
      /\ OpenedSoFar \in Nat
      /\ Upto(OpensIn(Emitted), pc + 1) = OpenedSoFar
  BY <1>1, NextAction
<1>3. TypeOK' /\ CompileInv' /\ Emitted' = Emitted
  <2>1. 0 .. 2 \subseteq DOMAIN fds'
    BY <1>1, Facts DEF TypeOK
  <2> QED
    BY <1>2, <2>1, RunKeeps
<1>4. OpenedSoFar' = OpenedSoFar /\ Descriptors' = Descriptors
  BY <1>1, <1>2, <1>3 DEF OpenedSoFar, Descriptors
<1>5. ASSUME Descriptors = 3 + OpenedSoFar PROVE Faithful'
  <2>1. Faithful
    BY <1>2, <1>5
  <2>2. ASSUME NEW j \in OpensIn(Emitted), j <= pc + 1
        PROVE  j <= pc
    <3>1. j # pc + 1
      BY <1>2 DEF OpensIn
    <3>2. j \in Nat
      BY Facts, Places
    <3> QED
      BY <1>2, <2>2, <3>1, <3>2
  <2> DEFINE target == Target(Emitted, pc + 1)
  <2>3. Action.fd \in DOMAIN fds /\ fds[Action.fd] = target /\ target \in Targets
    <3>1. CASE Action.fd \in {stdout, stderr}
      <4>1. Action.fd \in DOMAIN fds
        BY <1>2, <3>1 DEF stdout, stderr
      <4>2. fds[Action.fd] = Named(Action.fd, TRUE) /\ target = Named(Action.fd, TRUE)
        BY <1>2, <2>1, <3>1 DEF Faithful, Target
      <4>3. Action.fd \in Nat
        BY <3>1 DEF stdout, stderr
      <4>4. Named(Action.fd, TRUE) \in Targets
        BY <4>3 DEF Named, Targets
      <4> QED
        BY <4>1, <4>2, <4>4
    <3>2. CASE Action.fd \notin {stdout, stderr}
      <4>1. PICK j \in OpensIn(Emitted) : j < pc + 1 /\ HandleAt(Emitted, j) = Action.fd
        <5>1. WellFormed(Emitted)
          BY Facts DEF Emitted
        <5>2. Opened(Emitted, pc + 1)
          BY <1>2, <3>2, <5>1 DEF WellFormed
        <5> QED
          BY <1>2, <5>2 DEF Opened
      <4>2. j \in Nat /\ j <= pc
        BY <1>2, <4>1, Facts, Places
      <4>3. Action.fd \in DOMAIN fds
        BY <1>2, <1>5, <4>1, <4>2, OpenedBefore
      <4>4. fds[Action.fd] = NamedAt(Emitted, j)
        BY <2>1, <4>1, <4>2 DEF Faithful
      <4>5. target = NamedAt(Emitted, j)
        BY <1>2, <3>2, <4>1, Facts, TargetIs DEF NamedAt
      <4>6. NamedAt(Emitted, j) \in Targets
        <5>1. Emitted[j] \in OpenEntries
          BY Facts, Places DEF OpensIn
        <5> QED
          BY <5>1 DEF NamedAt, Named, Targets, OpenEntries
      <4> QED
        BY <4>3, <4>4, <4>5, <4>6
    <3> QED
      BY <3>1, <3>2
  <2> HIDE DEF target
  <2>4. Action.data \in Nat
    BY <1>2 DEF Entries, OpenEntries, WriteEntries
  <2>5. Made(Emitted, pc + 1) = Output(target.file, Action.data) /\ Made(Emitted, pc + 1) \in Outputs
    <3>1. Made(Emitted, pc + 1) = Output(target.file, Action.data)
      BY <1>2 DEF Made, target
    <3> QED
      BY <2>3, <2>4, <3>1 DEF Output, Outputs, Targets
  <2>6. pc + 1 \in Delivers(Emitted) <=> target.writable
    BY <1>2 DEF Delivers, target
  <2>7. delivered' = IF pc + 1 \in Delivers(Emitted) THEN Append(delivered, Made(Emitted, pc + 1)) ELSE delivered
    BY <1>1, <2>3, <2>5, <2>6
  <2>8. Makes(delivered, Emitted, pc)
    BY <2>1 DEF Faithful
  <2>9. Makes(delivered', Emitted, pc + 1)
    BY <1>2, <2>5, <2>7, <2>8, Facts, MakesNext
  <2> QED
    BY <1>1, <1>2, <1>3, <2>1, <2>2, <2>9 DEF Faithful
<1>6. RunInv'
  BY <1>1, <1>2, <1>4, <1>5 DEF RunInv
<1> QED
  BY <1>3, <1>6 DEF ActionsInv

----------------------------------------------------------------------------
(* Every step of the compiler and of the run.                              *)
LEMMA ActionsStep == ActionsInv /\ [Next]_vars => ActionsInv'
<1> SUFFICES ASSUME ActionsInv, [Next]_vars PROVE ActionsInv'
  OBVIOUS
<1>1. ASSUME NEW file \in Files, NEW writable \in BOOLEAN, NEW present \in BOOLEAN,
             OpenFile(file, writable, present)
      PROVE  ActionsInv'
  BY <1>1, OpenStep
<1>2. ASSUME NEW h \in HandleValues, CloseHandle(h) PROVE ActionsInv'
  BY <1>2, CloseStep
<1>3. ASSUME NEW h \in HandleValues, WriteHandle(h) PROVE ActionsInv'
  BY <1>3, WriteStep
<1>4. ASSUME NEW fd \in {stdout, stderr}, Console(fd) PROVE ActionsInv'
  BY <1>4, ConsoleStep
<1>5. ASSUME Unsupported \/ \E h \in HandleValues, count \in {0, 1} : ReadHandle(h, count) PROVE ActionsInv'
  BY <1>5, QuietSteps
<1>6. CASE Exit
  BY <1>6, ExitStep
<1>7. CASE OpenSyscall
  BY <1>7, OpenSyscallStep
<1>8. CASE OpenSyscallFails
  BY <1>8, OpenFailsStep
<1>9. CASE WriteSyscall
  BY <1>9, WriteSyscallStep
<1>10. CASE ExitSyscall
  BY <1>10, ExitSyscallStep
<1>11. CASE UNCHANGED vars
  <2>1. phase' = phase /\ UNCHANGED compileVars /\ pc' = pc /\ fds' = fds /\ delivered' = delivered
    BY <1>11 DEF vars, runVars
  <2>2. TypeOK' /\ CompileInv' /\ Emitted' = Emitted
    <3>1. /\ pc' \in 0 .. Len(Emitted) /\ 0 .. 2 \subseteq DOMAIN fds'
          /\ phase' \in {"compiling", "rejected", "running", "exited"}
      BY <2>1, Facts DEF TypeOK
    <3> QED
      BY <2>1, <3>1, RunKeeps
  <2>3. Descriptors' = Descriptors /\ OpenedSoFar' = OpenedSoFar
    BY <2>1, <2>2 DEF Descriptors, OpenedSoFar
  <2>4. Faithful => Faithful'
    BY <2>1, <2>2 DEF Faithful
  <2>5. RunInv'
    BY <2>1, <2>2, <2>3, <2>4, Facts DEF RunInv
  <2> QED
    BY <2>2, <2>5 DEF ActionsInv
<1>12. CASE Stopped
  BY <1>11, <1>12 DEF Stopped
<1> QED
  BY <1>1, <1>2, <1>3, <1>4, <1>5, <1>6, <1>7, <1>8, <1>9, <1>10, <1>11, <1>12 DEF Next

(* At the end: if no open failed, as many descriptors as opens.            *)
LEMMA AtTheEnd ==
  ASSUME ActionsInv, phase = "exited", NoOpenFailed
  PROVE  Faithful /\ pc = Len(Emitted) /\ \A j \in OpensIn(Emitted) : j <= pc
<1>1. pc = Len(Emitted) /\ Emitted \in Seq(Entries)
  BY Facts DEF RunInv
<1>2. \A x \in OpensIn(Emitted) : x \in Nat /\ x > 0 /\ x <= Len(Emitted)
  BY <1>1, Places
<1>3. { i \in OpensIn(Emitted) : i <= pc } = OpensIn(actions)
  <2>1. OpensIn(Emitted) = OpensIn(actions)
    BY Facts, EmittedIs
  <2> QED
    BY <1>1, <1>2, <2>1
<1>4. OpenedSoFar = Cardinality(OpensIn(actions))
  BY <1>3 DEF OpenedSoFar, Upto
<1>5. Descriptors = 3 + OpenedSoFar
  BY <1>4 DEF NoOpenFailed, Descriptors
<1> QED
  BY <1>1, <1>2, <1>5, Facts DEF RunInv

(* What the invariant says at the end is that handles are descriptors ...  *)
LEMMA HandlesFollow == ActionsInv => HandlesAreDescriptors
<1> SUFFICES ASSUME ActionsInv PROVE HandlesAreDescriptors
  OBVIOUS
<1>1. TypeOK
  BY Facts
<1>2. ASSUME phase = "exited", NoOpenFailed, NEW h \in DOMAIN handles
      PROVE  h \in DOMAIN fds /\ fds[h] = handles[h]
  <2>1. Faithful /\ \A j \in OpensIn(Emitted) : j <= pc
    BY <1>2, AtTheEnd
  <2>2. PICK j \in OpensIn(actions) : HandleAt(actions, j) = h /\ handles[h] = NamedAt(actions, j)
    BY Facts DEF CompileInv
  <2>3. actions # <<>>
    BY <2>2 DEF OpensIn
  <2>4. Emitted = actions
    BY <2>3 DEF Emitted
  <2>5. fds[h] = handles[h]
    BY <2>1, <2>2, <2>4 DEF Faithful
  <2>6. h \in 3 .. 2 + OpenedSoFar
    BY <2>1, <2>2, <2>4, OpenedBefore
  <2>7. Descriptors = 3 + OpenedSoFar /\ DOMAIN fds = 0 .. Descriptors - 1 /\ Descriptors \in Nat
    <3>1. \A x \in OpensIn(Emitted) : x \in Nat /\ x > 0 /\ x <= Len(Emitted)
      BY Facts, Places
    <3>2. { i \in OpensIn(Emitted) : i <= pc } = OpensIn(actions)
      BY <2>1, <2>4
    <3>3. OpenedSoFar = Cardinality(OpensIn(actions))
      BY <3>2 DEF OpenedSoFar, Upto
    <3> QED
      BY <1>2, <3>3, Facts DEF NoOpenFailed, Descriptors, RunInv
  <2>8. OpenedSoFar \in Nat
    <3>1. \A x \in OpensIn(Emitted) : x \in Nat /\ x > 0
      BY Facts, Places
    <3>2. pc \in Nat
      BY Facts
    <3> QED
      BY <3>1, <3>2, UptoIs DEF OpenedSoFar
  <2> QED
    BY <2>5, <2>6, <2>7, <2>8
<1> QED
  BY <1>1, <1>2 DEF HandlesAreDescriptors

(* ... and that the outputs, made from one list, are one output.           *)
LEMMA OutputFollows == ActionsInv => OutputPreserved
<1> SUFFICES ASSUME ActionsInv, phase = "exited", NoOpenFailed, actions = <<>> \/ writes = <<>>
             PROVE  delivered = wanted
  BY DEF OutputPreserved
<1>1. Faithful /\ pc = Len(Emitted)
  BY AtTheEnd
<1>2. Makes(delivered, Emitted, Len(Emitted))
  BY <1>1 DEF Faithful
<1>3. Makes(wanted, Emitted, Len(Emitted))
  BY Facts DEF CompileInv
<1> QED
  BY <1>2, <1>3, Facts, MakesOne

(* For every program of the bounded length, whatever files and handle      *)
(* values: if no open fails, handles name what descriptors name when it    *)
(* ends.                                                                   *)
THEOREM HandlesAreDescriptorsCorrect == Spec => []HandlesAreDescriptors
<1>1. Init => ActionsInv
  BY StartingActions
<1>2. ActionsInv /\ [Next]_vars => ActionsInv'
  BY ActionsStep
<1>3. ActionsInv => HandlesAreDescriptors
  BY HandlesFollow
<1> QED
  BY <1>1, <1>2, <1>3, PTL DEF Spec

(* For every such program: if no open fails and it does not mix file and   *)
(* console services, it makes the output it made under DOS, in that order. *)
THEOREM OutputPreservedCorrect == Spec => []OutputPreserved
<1>1. Init => ActionsInv
  BY StartingActions
<1>2. ActionsInv /\ [Next]_vars => ActionsInv'
  BY ActionsStep
<1>3. ActionsInv => OutputPreserved
  BY OutputFollows
<1> QED
  BY <1>1, <1>2, <1>3, PTL DEF Spec
=============================================================================
