-------------------------- MODULE HostRegistry_proofs --------------------------
(***************************************************************************)
(* The small files of the desktop, for lists of any length, any number of  *)
(* threads and any sequence of updates, failures and stops.                *)
(***************************************************************************)
EXTENDS HostRegistry, NaturalsInduction, WellFoundedInduction, TLAPS

-----------------------------------------------------------------------------
(* Induction up to a number *)

\* A set of natural numbers that is not empty has a least element.
LEMMA Least ==
    ASSUME NEW S \in SUBSET Nat, S # {}
    PROVE  \E n \in S : \A m \in S : n <= m
<1>1. PICK n \in S : \A m \in S : <<m, n>> \notin OpToRel(<, Nat)
  BY NatLessThanWellFounded, WFMin
<1>2. \A m \in S : <<m, n>> \notin OpToRel(<, Nat) => n <= m
  BY DEF OpToRel
<1> QED  BY <1>1, <1>2

\* What holds of 0 and of the successor of whatever it holds of.
LEMMA UpTo ==
    ASSUME NEW N \in Nat, NEW S, 0 \in S, \A n \in 1 .. N : n - 1 \in S => n \in S
    PROVE  \A n \in 0 .. N : n \in S
<1> DEFINE T == {n \in 0 .. N : n \notin S}
<1> SUFFICES ASSUME T # {} PROVE FALSE
  OBVIOUS
<1>1. PICK n \in T : \A m \in T : n <= m
  <2>1. T \in SUBSET Nat
    OBVIOUS
  <2> HIDE DEF T
  <2> QED  BY <2>1, Least
<1>2. n # 0 /\ n - 1 \in 0 .. N /\ ~(n <= n - 1)
  BY <1>1
<1> QED  BY <1>1, <1>2

-----------------------------------------------------------------------------
(* What Retain leaves of a list *)

\* The step of the recursive function in Retain, and the function itself.
Grows(u, list, kept, k) ==
    IF list[k] \in kept THEN Append(u[k - 1], list[k]) ELSE u[k - 1]

Retains(u, list, kept, n) ==
    u = [k \in 0 .. n |-> IF k = 0 THEN << >> ELSE Grows(u, list, kept, k)]

LEMMA RetainsIsDefined ==
    ASSUME NEW list, NEW kept, NEW N \in Nat
    PROVE  \E u : Retains(u, list, kept, N)
<1> DEFINE S == {n \in 0 .. N : \E u : Retains(u, list, kept, n)}
<1>1. 0 \in S
  <2>1. Retains([k \in 0 .. 0 |-> << >>], list, kept, 0)
    BY DEF Retains
  <2> QED  BY <2>1
<1>2. \A n \in 1 .. N : n - 1 \in S => n \in S
  <2> SUFFICES ASSUME NEW n \in 1 .. N, n - 1 \in S
               PROVE  \E u : Retains(u, list, kept, n)
    OBVIOUS
  <2>1. PICK u : Retains(u, list, kept, n - 1)
    OBVIOUS
  <2> DEFINE longer == [k \in 0 .. n |-> IF k = n THEN Grows(u, list, kept, n) ELSE u[k]]
  <2>2. u[0] = << >> /\ \A k \in 1 .. n - 1 : u[k] = Grows(u, list, kept, k)
    <3> DEFINE G(k) == Grows(u, list, kept, k)
    <3>1. u = [k \in 0 .. n - 1 |-> IF k = 0 THEN << >> ELSE G(k)]
      BY <2>1 DEF Retains
    <3> HIDE DEF G
    <3>2. u[0] = << >> /\ \A k \in 1 .. n - 1 : u[k] = G(k)
      BY <3>1
    <3> QED  BY <3>2 DEF G
  <2>3. \A k \in 1 .. n : longer[k] = Grows(longer, list, kept, k)
    BY <2>2 DEF Grows
  <2>4. longer[0] = << >>
    BY <2>2
  <2>5. longer = [k \in 0 .. n |-> longer[k]]
    OBVIOUS
  <2>6. Retains(longer, list, kept, n)
    <3> HIDE DEF longer
    <3> DEFINE G(k) == Grows(longer, list, kept, k)
    <3>1. \A k \in 0 .. n : longer[k] = IF k = 0 THEN << >> ELSE G(k)
      <4> TAKE k \in 0 .. n
      <4> HIDE DEF G
      <4>1. k = 0 \/ k \in 1 .. n
        OBVIOUS
      <4>2. \A i \in 1 .. n : longer[i] = G(i)
        BY <2>3 DEF G
      <4> QED  BY <4>1, <4>2, <2>4
    <3> QED  BY <3>1, <2>5 DEF Retains
  <2> QED  BY <2>6
<1>3. \A n \in 0 .. N : n \in S
  <2> HIDE DEF S
  <2> QED  BY <1>1, <1>2, UpTo
<1> QED  BY <1>3

\* The places in the first n entries of list that kept ones come from, in order.
Drawn(part, list, kept, n) ==
    /\ part \in Lists /\ Len(part) <= n
    /\ \A e : e \in ToSet(part) <=> e \in kept /\ \E i \in 1 .. n : list[i] = e
    /\ Distinct(list) => Distinct(part)

\* What is retained is a part of the list, in which nothing appears that was not
\* there and nothing appears twice that did not.
LEMMA RetainIsPart ==
    ASSUME NEW list \in Lists, NEW kept
    PROVE  Drawn(Retain(list, kept), list, kept, Len(list))
<1> DEFINE u == CHOOSE v : Retains(v, list, kept, Len(list))
           N == Len(list)
<1>1. N \in Nat /\ list \in Seq(Entries) /\ \A k \in 1 .. N : list[k] \in Entries
  BY DEF Lists
<1>2. Retains(u, list, kept, N)
  BY <1>1, RetainsIsDefined
<1>3. Retain(list, kept) = u[N]
  BY DEF Retain, Retains, Grows
<1> HIDE DEF u, N
<1>4. u[0] = << >> /\ \A k \in 1 .. N : u[k] = Grows(u, list, kept, k)
  <2> DEFINE G(k) == Grows(u, list, kept, k)
  <2>1. u = [k \in 0 .. N |-> IF k = 0 THEN << >> ELSE G(k)]
    BY <1>2 DEF Retains
  <2> HIDE DEF G
  <2>2. u[0] = << >> /\ \A k \in 1 .. N : u[k] = G(k)
    BY <2>1, <1>1
  <2> QED  BY <2>2 DEF G
<1> DEFINE S == {n \in 0 .. N : Drawn(u[n], list, kept, n)}
<1>5. 0 \in S
  <2>1. << >> \in Seq(Entries) /\ Len(<< >>) = 0 /\ DOMAIN << >> = {} /\ 0 \in 0 .. N
    BY <1>1
  <2>2. Drawn(<< >>, list, kept, 0)
    BY <2>1 DEF Drawn, Lists, ToSet, Distinct
  <2> QED  BY <1>4, <2>1, <2>2
<1>6. ASSUME NEW n \in 1 .. N, n - 1 \in S PROVE n \in S
  <2> DEFINE old == u[n - 1]
  <2>1. Drawn(old, list, kept, n - 1) /\ n \in Nat /\ n - 1 \in Nat
    BY <1>6, <1>1
  <2>2. u[n] = Grows(u, list, kept, n)
    BY <1>4
  <2>3. CASE list[n] \notin kept
    BY <2>1, <2>2, <2>3 DEF Drawn, Grows
  <2>4. CASE list[n] \in kept
    <3>1. u[n] = Append(old, list[n])
      BY <2>2, <2>4 DEF Grows
    <3> HIDE DEF old
    <3>2. old \in Seq(Entries) /\ Len(old) \in Nat /\ list[n] \in Entries
      BY <2>1, <1>1 DEF Drawn, Lists
    <3>3. /\ u[n] \in Seq(Entries) /\ Len(u[n]) = Len(old) + 1
          /\ \A i \in 1 .. Len(old) : u[n][i] = old[i]
          /\ u[n][Len(old) + 1] = list[n]
      BY <3>1, <3>2
    <3>4. DOMAIN old = 1 .. Len(old) /\ DOMAIN u[n] = 1 .. Len(u[n]) /\ DOMAIN list = 1 .. N
      BY <3>2, <3>3, <1>1 DEF N
    <3>5. Len(u[n]) <= n
      BY <2>1, <3>2, <3>3 DEF Drawn
    <3>6. \A e : e \in ToSet(u[n]) <=> e \in ToSet(old) \/ e = list[n]
      BY <3>2, <3>3, <3>4 DEF ToSet
    <3>7. \A e : e \in ToSet(u[n]) <=> e \in kept /\ \E i \in 1 .. n : list[i] = e
      BY <2>1, <2>4, <3>6 DEF Drawn
    <3>8. ASSUME Distinct(list) PROVE Distinct(u[n])
      <4>1. ASSUME NEW i \in 1 .. Len(old)
            PROVE  old[i].id # list[n].id /\ old[i].place # list[n].place
        <5>1. old[i] \in ToSet(old)
          BY <3>4 DEF ToSet
        <5>2. PICK j \in 1 .. n - 1 : list[j] = old[i]
          BY <5>1, <2>1 DEF Drawn
        <5> QED  BY <3>8, <5>2, <3>4, <1>1 DEF Distinct
      <4>2. Distinct(old)
        BY <2>1, <3>8 DEF Drawn
      <4> QED  BY <4>1, <4>2, <3>2, <3>3, <3>4 DEF Distinct
    <3> QED  BY <3>3, <3>5, <3>7, <3>8 DEF Drawn, Lists
  <2> QED  BY <2>3, <2>4
<1>7. \A n \in 0 .. N : n \in S
  <2> HIDE DEF S
  <2> QED  BY <1>1, <1>5, <1>6, UpTo
<1> QED  BY <1>1, <1>3, <1>7 DEF N

-----------------------------------------------------------------------------
(* The inductive invariant *)

\* A list that the desktop may make or read: the start accepts it, and an endpoint
\* has one of the ids given out.
Valid(r, list, issued) ==
    /\ list \in Lists
    /\ Loads(r, list)
    /\ r = Endpoints => IdsOf(list) \subseteq 1 .. issued

Files == [main : Lists \cup {None}, backup : Lists \cup {None}]

Calls == {Idle} \cup [kind : {"remove"}, id : Nat, deleted : BOOLEAN]
                \cup [kind : {"store"}, id : Nat]

\* Whatever is in memory, in a file or remembered by an update is valid.
ListsAreValid ==
    /\ running \in BOOLEAN /\ made \in Nat
    /\ memory \in [Registries -> Lists]
    /\ disk \in [Registries -> Files]
    /\ update \in [Registries -> Update \cup {None}]
    /\ \A r \in Registries :
          /\ Valid(r, memory[r], made)
          /\ disk[r].main = None \/ Valid(r, disk[r].main, made)
          /\ disk[r].backup = None \/ Valid(r, disk[r].backup, made)
          /\ update[r] # None => Valid(r, update[r].previous, made)

\* Until an update publishes its list, the files hold the previous one, and the
\* steps make room without losing it.
FilesHoldPrevious(r) ==
    IF update[r] = None
    THEN running => Loaded(disk[r]) = memory[r]
    ELSE /\ Loaded(disk[r]) = update[r].previous
         /\ update[r].step = "cleared" => disk[r].backup = None
         /\ update[r].step = "staged" => disk[r].main = None

\* A restart may show what is in memory or what a failure would bring back.
RestartFollows(r) ==
    restart[r] = {memory[r]} \cup (IF update[r] = None THEN {} ELSE {update[r].previous})

FilesFollow ==
    /\ restart = [r \in Registries |-> restart[r]]
    /\ \A r \in Registries :
          /\ ~running => update[r] = None
          /\ running => RestartFollows(r)
          /\ r \notin bare => FilesHoldPrevious(r)
    /\ RestartShowsLastList

\* While the desktop runs, an endpoint with a credential is on the list, also on
\* the one that a failure would bring back, and nobody is done with its credential.
CredentialIsKept(s) ==
    /\ s \in IdsOf(memory[Endpoints])
    /\ update[Endpoints] # None => s \in IdsOf(update[Endpoints].previous)
    /\ \A t \in Threads : ~(call[t].kind = "remove" /\ call[t].id = s /\ call[t].deleted)

SecretsAreKnown ==
    /\ call \in [Threads -> Calls]
    /\ ~running => \A t \in Threads : call[t] = Idle
    /\ running => \A s \in secrets \ stray : CredentialIsKept(s)
    /\ SecretHasEndpoint

RegistryInvariant == ListsAreValid /\ FilesFollow /\ SecretsAreKnown

-----------------------------------------------------------------------------
(* The lists that updates make *)

LEMMA RegistryValues ==
    /\ \A list \in Lists : list # None
    /\ \A u \in Update : u # None
    /\ << >> \in Lists
    /\ \A r \in Registries : r # Endpoints => r \in {Recent, Locale}
    /\ Recent # Endpoints /\ Endpoints # Locale /\ Recent # Locale
    /\ {Recent, Endpoints, Locale} = Registries
BY NoneIsNothing DEF Lists, Registries, Recent, Endpoints, Locale

LEMMA LoadsByRegistry ==
    ASSUME NEW list
    PROVE  /\ Loads(Recent, list) <=> Len(list) <= MaxRecent /\ Distinct(list)
           /\ Loads(Endpoints, list) <=> Len(list) <= MaxEndpoints /\ Distinct(list)
           /\ Loads(Locale, list) <=> Len(list) <= 1
BY DEF Loads, RecentLoads, EndpointsLoad, LocaleLoads, Recent, Endpoints, Locale

LEMMA NothingIsValid ==
    ASSUME NEW r \in Registries
    PROVE  \A issued : Valid(r, << >>, issued)
<1>1. << >> \in Lists /\ Len(<< >>) = 0 /\ DOMAIN << >> = {}
  BY DEF Lists
<1>2. Distinct(<< >>) /\ IdsOf(<< >>) = {}
  BY <1>1 DEF Distinct, IdsOf, ToSet
<1>3. Loads(r, << >>)
  BY <1>1, <1>2, LimitsArePositive, LoadsByRegistry DEF Registries
<1> QED  BY <1>1, <1>2, <1>3 DEF Valid

\* What retain leaves of a list the start accepts, the start accepts, too.
LEMMA RetainKeepsValid ==
    ASSUME NEW r \in {Recent, Endpoints}, NEW list, NEW issued, Valid(r, list, issued), NEW kept
    PROVE  /\ Valid(r, Retain(list, kept), issued)
           /\ Len(Retain(list, kept)) <= Len(list)
           /\ \A e : e \in ToSet(Retain(list, kept)) <=> e \in kept /\ e \in ToSet(list)
<1> DEFINE part == Retain(list, kept)
<1>1. list \in Lists /\ Len(list) \in Nat /\ DOMAIN list = 1 .. Len(list)
  BY DEF Valid, Lists
<1>2. Drawn(part, list, kept, Len(list))
  BY <1>1, RetainIsPart
<1>3. part \in Lists /\ Len(part) \in Nat /\ Len(part) <= Len(list)
  BY <1>2 DEF Drawn, Lists
<1>4. \A e : e \in ToSet(part) <=> e \in kept /\ e \in ToSet(list)
  BY <1>1, <1>2 DEF Drawn, ToSet
<1>5. IdsOf(part) \subseteq IdsOf(list)
  BY <1>4 DEF IdsOf
<1>6. Distinct(list) => Distinct(part)
  BY <1>2 DEF Drawn
<1> HIDE DEF part
<1>7. Loads(r, part)
  BY <1>1, <1>3, <1>6, LoadsByRegistry, LimitsArePositive DEF Valid
<1> QED  BY <1>3, <1>4, <1>5, <1>7 DEF Valid, part

LEMMA WithoutIdIsValid ==
    ASSUME NEW r \in {Recent, Endpoints}, NEW list, NEW issued, Valid(r, list, issued), NEW id
    PROVE  /\ Valid(r, WithoutId(list, id), issued)
           /\ IdsOf(WithoutId(list, id)) = IdsOf(list) \ {id}
<1> DEFINE part == Retain(list, {e \in ToSet(list) : e.id # id})
<1>1. /\ Valid(r, part, issued)
      /\ \A e : e \in ToSet(part) <=> e \in {x \in ToSet(list) : x.id # id} /\ e \in ToSet(list)
  BY RetainKeepsValid
<1>2. part = WithoutId(list, id)
  BY DEF WithoutId
<1> HIDE DEF part
<1> QED  BY <1>1, <1>2 DEF IdsOf

\* The list a project is put in front of, without what has its id or its place.
LEMMA RecordedIsValid ==
    ASSUME NEW list, NEW issued, Valid(Recent, list, issued),
           NEW entry \in Entries, NEW limit \in Nat, limit <= MaxRecent,
           limit <= Len(<<entry>> \o Others(list, entry))
    PROVE  Valid(Recent, SubSeq(<<entry>> \o Others(list, entry), 1, limit), issued)
<1> DEFINE kept == {e \in ToSet(list) : e.id # entry.id /\ e.place # entry.place}
           others == Retain(list, kept)
           whole == <<entry>> \o others
           part == SubSeq(whole, 1, limit)
<1>1. Valid(Recent, others, issued) /\ \A e \in ToSet(others) : e \in kept
  BY RetainKeepsValid
<1>2. others = Others(list, entry)
  BY DEF Others
<1>3. \A e \in kept : e.id # entry.id /\ e.place # entry.place
  OBVIOUS
<1> HIDE DEF kept, others
<1>4. others \in Seq(Entries) /\ Distinct(others)
  BY <1>1, LoadsByRegistry DEF Valid, Lists
<1>5. Len(others) \in Nat /\ DOMAIN others = 1 .. Len(others)
  BY <1>4
<1>6. /\ whole \in Seq(Entries) /\ Len(whole) = Len(others) + 1
      /\ whole[1] = entry /\ \A i \in 2 .. Len(whole) : whole[i] = others[i - 1]
  BY <1>4, <1>5
<1>7. \A i \in 2 .. Len(whole) : whole[i].id # entry.id /\ whole[i].place # entry.place
  <2> TAKE i \in 2 .. Len(whole)
  <2>1. i - 1 \in DOMAIN others /\ whole[i] = others[i - 1]
    BY <1>5, <1>6
  <2>2. others[i - 1] \in ToSet(others)
    BY <2>1 DEF ToSet
  <2> QED  BY <1>1, <1>3, <2>1, <2>2
<1> HIDE DEF whole
<1>8. ASSUME NEW i \in 1 .. Len(whole), NEW j \in 1 .. Len(whole), i < j
      PROVE  whole[i].id # whole[j].id /\ whole[i].place # whole[j].place
  <2>1. i \in Nat /\ j \in Nat /\ j \in 2 .. Len(whole)
    BY <1>8, <1>5, <1>6
  <2>2. CASE i = 1
    BY <2>1, <2>2, <1>6, <1>7
  <2>3. CASE i # 1
    <3>1. i - 1 \in 1 .. Len(others) /\ j - 1 \in 1 .. Len(others) /\ i - 1 # j - 1
      BY <2>1, <2>3, <1>5, <1>6, <1>8
    <3>2. whole[i] = others[i - 1] /\ whole[j] = others[j - 1]
      BY <2>1, <2>3, <1>6
    <3>3. \A a, b \in 1 .. Len(others) :
             a # b => others[a].id # others[b].id /\ others[a].place # others[b].place
      BY <1>4, <1>5 DEF Distinct
    <3> QED  BY <3>1, <3>2, <3>3
  <2> QED  BY <2>2, <2>3
<1>9. limit <= Len(whole) /\ Len(whole) \in Nat
  BY <1>2, <1>5, <1>6 DEF whole
<1>10. /\ part \in Seq(Entries) /\ Len(part) = limit
       /\ \A i \in 1 .. limit : part[i] = whole[i]
  BY <1>6, <1>9
<1>11. DOMAIN part = 1 .. limit
  BY <1>10
<1> HIDE DEF part
<1>12. Distinct(part)
  <2> SUFFICES ASSUME NEW i \in 1 .. limit, NEW j \in 1 .. limit, i # j
               PROVE  part[i].id # part[j].id /\ part[i].place # part[j].place
    BY <1>11 DEF Distinct
  <2>1. i \in 1 .. Len(whole) /\ j \in 1 .. Len(whole) /\ (i < j \/ j < i)
    BY <1>9
  <2> QED  BY <2>1, <1>8, <1>10
<1>13. Valid(Recent, part, issued)
  BY <1>10, <1>12, LoadsByRegistry, RegistryValues DEF Valid, Lists
<1> QED  BY <1>2, <1>13 DEF part, whole

\* The list of endpoints with a new one, whose id is fresh.
LEMMA RegisteredIsValid ==
    ASSUME NEW issued \in Nat, NEW list, Valid(Endpoints, list, issued),
           NEW place \in Places, place \notin PlacesOf(list), Len(list) < MaxEndpoints
    PROVE  /\ Valid(Endpoints, Append(list, Entry(issued + 1, place)), issued + 1)
           /\ IdsOf(list) \subseteq IdsOf(Append(list, Entry(issued + 1, place)))
<1> DEFINE entry == Entry(issued + 1, place)
           longer == Append(list, entry)
<1>1. entry \in Entries /\ entry.id = issued + 1 /\ entry.place = place
  BY DEF Entry, Entries
<1>2. list \in Seq(Entries) /\ Distinct(list) /\ IdsOf(list) \subseteq 1 .. issued
  BY LoadsByRegistry DEF Valid, Lists
<1>3. Len(list) \in Nat /\ DOMAIN list = 1 .. Len(list)
  BY <1>2
<1> HIDE DEF entry
<1>4. /\ longer \in Seq(Entries) /\ Len(longer) = Len(list) + 1
      /\ \A i \in 1 .. Len(list) : longer[i] = list[i]
      /\ longer[Len(list) + 1] = entry /\ DOMAIN longer = 1 .. Len(list) + 1
  BY <1>1, <1>2, <1>3
<1> HIDE DEF longer
<1>5. \A i \in 1 .. Len(list) : list[i].id # entry.id /\ list[i].place # entry.place
  <2> TAKE i \in 1 .. Len(list)
  <2>1. list[i].id \in IdsOf(list) /\ list[i].place \in PlacesOf(list)
    BY <1>3 DEF IdsOf, PlacesOf, ToSet
  <2> QED  BY <2>1, <1>1, <1>2
<1>6. Distinct(longer)
  <2>1. \A i, j \in 1 .. Len(list) :
           i # j => list[i].id # list[j].id /\ list[i].place # list[j].place
    BY <1>2, <1>3 DEF Distinct
  <2> QED  BY <2>1, <1>3, <1>4, <1>5 DEF Distinct
<1>7. \A i \in 1 .. Len(list) + 1 : longer[i].id \in 1 .. issued + 1
  <2> TAKE i \in 1 .. Len(list) + 1
  <2>1. CASE i = Len(list) + 1
    BY <2>1, <1>1, <1>4
  <2>2. CASE i # Len(list) + 1
    <3>1. i \in 1 .. Len(list)
      BY <2>2, <1>3
    <3>2. list[i].id \in IdsOf(list)
      BY <3>1, <1>3 DEF IdsOf, ToSet
    <3> QED  BY <3>1, <3>2, <1>2, <1>4
  <2> QED  BY <2>1, <2>2
<1>8. IdsOf(longer) \subseteq 1 .. issued + 1
  BY <1>4, <1>7 DEF IdsOf, ToSet
<1>9. IdsOf(list) \subseteq IdsOf(longer)
  BY <1>3, <1>4 DEF IdsOf, ToSet
<1>10. Valid(Endpoints, longer, issued + 1)
  BY <1>3, <1>4, <1>6, <1>8, LoadsByRegistry, LimitsArePositive DEF Valid, Lists
<1> QED  BY <1>9, <1>10 DEF longer, entry

LEMMA LocaleIsValid ==
    ASSUME NEW tag \in Tags, NEW issued
    PROVE  Valid(Locale, <<Entry(Locale, tag)>>, issued)
<1> DEFINE list == <<Entry(Locale, tag)>>
<1>1. Entry(Locale, tag) \in Entries
  BY DEF Entry, Entries
<1>2. list \in Lists /\ Len(list) <= 1
  BY <1>1 DEF Lists
<1> HIDE DEF list
<1>3. Loads(Locale, list) /\ Locale # Endpoints
  BY <1>2, LoadsByRegistry, RegistryValues
<1>4. Valid(Locale, list, issued)
  BY <1>2, <1>3 DEF Valid
<1> QED  BY <1>4 DEF list

\* An id that was given out stays one.
LEMMA ValidStays ==
    ASSUME NEW r, NEW list, NEW issued \in Nat, NEW more \in Nat, issued <= more,
           Valid(r, list, issued)
    PROVE  Valid(r, list, more)
BY DEF Valid

-----------------------------------------------------------------------------
(* The steps of an update *)

LEMMA StepsExclude ==
    ASSUME ListsAreValid, FilesFollow
    PROVE  /\ \A r \in Registries : update[r] # None =>
                 /\ update[r] \in Update /\ update[r].previous \in Lists /\ running = TRUE
           /\ \A r \in Registries : \A step : At(r, step) => update[r].step = step
<1>1. \A r \in Registries : update[r] # None => update[r] \in Update /\ running
  BY DEF ListsAreValid, FilesFollow
<1> QED  BY <1>1 DEF At, Update, ListsAreValid

\* What holds of the files and of the credentials while the desktop runs gives
\* the two properties.
LEMMA WhileRunning ==
    ASSUME ListsAreValid', running', restart' = [r \in Registries |-> restart'[r]],
           \A r \in Registries :
              RestartFollows(r)' /\ (r \notin bare' => FilesHoldPrevious(r)'),
           call' \in [Threads -> Calls],
           \A s \in secrets' \ stray' : CredentialIsKept(s)'
    PROVE  RegistryInvariant'
<1>1. \A r \in Registries \ bare' :
         \/ Loaded(disk'[r]) = memory'[r]
         \/ update'[r] # None /\ Loaded(disk'[r]) = update'[r].previous
  BY DEF FilesHoldPrevious
<1>2. RestartShowsLastList'
  BY <1>1 DEF RestartShowsLastList, RestartFollows
<1>3. SecretHasEndpoint'
  <2> SUFFICES ASSUME Endpoints \notin bare', NEW s \in secrets' \ stray'
               PROVE  s \in IdsOf(Loaded(disk'[Endpoints]))
    BY DEF SecretHasEndpoint
  <2>1. Endpoints \in Registries
    BY DEF Registries
  <2>2. CredentialIsKept(s)'
    OBVIOUS
  <2> QED  BY <1>1, <2>1, <2>2 DEF CredentialIsKept
<1>4. FilesFollow'
  BY <1>2 DEF FilesFollow
<1>5. SecretsAreKnown'
  BY <1>3 DEF SecretsAreKnown
<1> QED  BY <1>4, <1>5 DEF RegistryInvariant

\* An update begins: the files hold what is now the previous list.
LEMMA BeginKeepsFiles ==
    ASSUME RegistryInvariant, NEW r \in Registries, NEW list, Unlocked(r),
           BeginUpdate(r, list), made' \in Nat, made <= made', Valid(r, list, made'),
           UNCHANGED <<running, disk, bare>>
    PROVE  /\ ListsAreValid' /\ running'
           /\ restart' = [q \in Registries |-> restart'[q]]
           /\ \A q \in Registries :
                 RestartFollows(q)' /\ (q \notin bare' => FilesHoldPrevious(q)')
           /\ memory'[r] = list /\ update'[r] # None /\ update'[r].previous = memory[r]
           /\ \A q \in Registries \ {r} : memory'[q] = memory[q] /\ update'[q] = update[q]
<1> USE DEF RegistryInvariant
<1> DEFINE u == [step |-> "written", previous |-> memory[r]]
<1>1. /\ memory \in [Registries -> Lists] /\ update \in [Registries -> Update \cup {None}]
      /\ disk \in [Registries -> Files] /\ restart = [q \in Registries |-> restart[q]]
      /\ made \in Nat /\ list \in Lists /\ running = TRUE
  BY DEF ListsAreValid, FilesFollow, Unlocked, Valid
<1>2. u \in Update /\ u # None /\ u.previous = memory[r] /\ u.step = "written"
  BY <1>1, RegistryValues DEF Update, Steps
<1>3. /\ memory' = [memory EXCEPT ![r] = list] /\ update' = [update EXCEPT ![r] = u]
      /\ restart' = [restart EXCEPT ![r] = {memory[r], list}]
  BY DEF BeginUpdate
<1> HIDE DEF u
<1>4. /\ memory' \in [Registries -> Lists] /\ update' \in [Registries -> Update \cup {None}]
      /\ memory'[r] = list /\ update'[r] = u /\ restart'[r] = {memory[r], list}
      /\ \A q \in Registries \ {r} :
            memory'[q] = memory[q] /\ update'[q] = update[q] /\ restart'[q] = restart[q]
      /\ restart' = [q \in Registries |-> restart'[q]]
  BY <1>1, <1>2, <1>3
<1>5. \A q \in Registries :
         /\ Valid(q, memory'[q], made')
         /\ disk'[q].main = None \/ Valid(q, disk'[q].main, made')
         /\ disk'[q].backup = None \/ Valid(q, disk'[q].backup, made')
         /\ update'[q] # None => Valid(q, update'[q].previous, made')
  <2> SUFFICES ASSUME NEW q \in Registries
               PROVE  /\ Valid(q, memory'[q], made')
                      /\ disk[q].main = None \/ Valid(q, disk[q].main, made')
                      /\ disk[q].backup = None \/ Valid(q, disk[q].backup, made')
                      /\ update'[q] # None => Valid(q, update'[q].previous, made')
    OBVIOUS
  <2>1. /\ Valid(q, memory[q], made)
        /\ disk[q].main = None \/ Valid(q, disk[q].main, made)
        /\ disk[q].backup = None \/ Valid(q, disk[q].backup, made)
        /\ update[q] # None => Valid(q, update[q].previous, made)
    BY DEF ListsAreValid
  <2>2. \A l : Valid(q, l, made) => Valid(q, l, made')
    BY <1>1, ValidStays
  <2> QED  BY <1>2, <1>4, <2>1, <2>2
<1>6. ListsAreValid'
  BY <1>1, <1>4, <1>5 DEF ListsAreValid
<1>7. \A q \in Registries :
         RestartFollows(q)' /\ (q \notin bare' => FilesHoldPrevious(q)')
  <2> SUFFICES ASSUME NEW q \in Registries
               PROVE  RestartFollows(q)' /\ (q \notin bare' => FilesHoldPrevious(q)')
    OBVIOUS
  <2>1. RestartFollows(q) /\ (q \notin bare => FilesHoldPrevious(q))
    BY <1>1 DEF FilesFollow
  <2>2. CASE q = r
    BY <1>1, <1>2, <1>4, <2>1, <2>2 DEF RestartFollows, FilesHoldPrevious, Unlocked
  <2>3. CASE q # r
    BY <1>4, <2>1, <2>3 DEF RestartFollows, FilesHoldPrevious
  <2> QED  BY <2>2, <2>3
<1> QED  BY <1>1, <1>2, <1>4, <1>6, <1>7

\* A step of an update that is not its last: the lists stay, the files move.
LEMMA FilesMove ==
    ASSUME RegistryInvariant, NEW r \in Registries, NEW files \in Files, NEW step \in Steps,
           update[r] # None, disk' = [disk EXCEPT ![r] = files], Reaches(r, step),
           files.main = None \/ Valid(r, files.main, made),
           files.backup = None \/ Valid(r, files.backup, made),
           r \notin bare' =>
              /\ r \notin bare /\ Loaded(files) = update[r].previous
              /\ step = "cleared" => files.backup = None
              /\ step = "staged" => files.main = None,
           \A q \in Registries \ {r} : q \in bare' <=> q \in bare,
           UNCHANGED <<running, memory, restart, call, secrets, made, stray>>
    PROVE  RegistryInvariant'
<1> USE DEF RegistryInvariant
<1>1. /\ update[r] \in Update /\ running = TRUE
      /\ update \in [Registries -> Update \cup {None}] /\ disk \in [Registries -> Files]
  BY StepsExclude DEF ListsAreValid
<1> DEFINE u == [update[r] EXCEPT !.step = step]
<1>2. u \in Update /\ u # None /\ u.step = step /\ u.previous = update[r].previous
  BY <1>1, RegistryValues DEF Update
<1>3. update' = [update EXCEPT ![r] = u]
  BY DEF Reaches
<1> HIDE DEF u
<1>4. /\ update' \in [Registries -> Update \cup {None}] /\ disk' \in [Registries -> Files]
      /\ update'[r] = u /\ disk'[r] = files
      /\ \A q \in Registries \ {r} : update'[q] = update[q] /\ disk'[q] = disk[q]
  BY <1>1, <1>2, <1>3
<1>5. ListsAreValid'
  <2>1. \A q \in Registries :
           /\ Valid(q, memory[q], made)
           /\ disk'[q].main = None \/ Valid(q, disk'[q].main, made)
           /\ disk'[q].backup = None \/ Valid(q, disk'[q].backup, made)
           /\ update'[q] # None => Valid(q, update'[q].previous, made)
    BY <1>2, <1>4 DEF ListsAreValid
  <2> QED  BY <1>4, <2>1 DEF ListsAreValid
<1>6. ASSUME NEW q \in Registries
      PROVE  RestartFollows(q)' /\ (q \notin bare' => FilesHoldPrevious(q)')
  <2>1. RestartFollows(q) /\ (q \notin bare => FilesHoldPrevious(q))
    BY <1>1 DEF FilesFollow
  <2>2. CASE q = r
    BY <1>2, <1>4, <2>1, <2>2 DEF RestartFollows, FilesHoldPrevious
  <2>3. CASE q # r
    BY <1>4, <2>1, <2>3 DEF RestartFollows, FilesHoldPrevious
  <2> QED  BY <2>2, <2>3
<1>7. \A s \in secrets' \ stray' : CredentialIsKept(s)'
  <2>1. Endpoints \in Registries
    BY DEF Registries
  <2>2. update'[Endpoints] # None =>
           update[Endpoints] # None /\ update'[Endpoints].previous = update[Endpoints].previous
    BY <1>2, <1>4, <2>1
  <2>3. \A s \in secrets \ stray : CredentialIsKept(s)
    BY <1>1 DEF SecretsAreKnown
  <2> QED  BY <2>2, <2>3 DEF CredentialIsKept
<1>8. restart' = [q \in Registries |-> restart'[q]] /\ call' \in [Threads -> Calls]
  BY DEF FilesFollow, SecretsAreKnown
<1> QED  BY <1>1, <1>5, <1>6, <1>7, <1>8, WhileRunning

\* An update ends, with the list it made or with the one before it.
LEMMA UpdateEnds ==
    ASSUME RegistryInvariant, NEW r \in Registries, NEW files \in Files, NEW list,
           update[r] # None, list \in {memory[r], update[r].previous},
           memory' = [memory EXCEPT ![r] = list], update' = [update EXCEPT ![r] = None],
           restart' = [restart EXCEPT ![r] = {list}], disk' = [disk EXCEPT ![r] = files],
           files.main = None \/ Valid(r, files.main, made),
           files.backup = None \/ Valid(r, files.backup, made),
           r \notin bare' => Loaded(files) = list,
           \A q \in Registries \ {r} : q \in bare' <=> q \in bare,
           UNCHANGED <<running, call, secrets, made, stray>>
    PROVE  RegistryInvariant'
<1> USE DEF RegistryInvariant
<1>1. /\ running = TRUE /\ memory \in [Registries -> Lists]
      /\ update \in [Registries -> Update \cup {None}] /\ disk \in [Registries -> Files]
      /\ restart = [q \in Registries |-> restart[q]]
  BY StepsExclude DEF ListsAreValid, FilesFollow
<1>2. list \in Lists /\ Valid(r, list, made)
  BY DEF ListsAreValid, Valid
<1>3. /\ memory' \in [Registries -> Lists] /\ update' \in [Registries -> Update \cup {None}]
      /\ disk' \in [Registries -> Files] /\ restart' = [q \in Registries |-> restart'[q]]
      /\ memory'[r] = list /\ update'[r] = None /\ disk'[r] = files /\ restart'[r] = {list}
      /\ \A q \in Registries \ {r} :
            /\ memory'[q] = memory[q] /\ update'[q] = update[q]
            /\ disk'[q] = disk[q] /\ restart'[q] = restart[q]
  BY <1>1, <1>2
<1>4. ListsAreValid'
  <2>1. \A q \in Registries :
           /\ Valid(q, memory'[q], made)
           /\ disk'[q].main = None \/ Valid(q, disk'[q].main, made)
           /\ disk'[q].backup = None \/ Valid(q, disk'[q].backup, made)
           /\ update'[q] # None => Valid(q, update'[q].previous, made)
    BY <1>2, <1>3 DEF ListsAreValid
  <2> QED  BY <1>3, <2>1 DEF ListsAreValid
<1>5. ASSUME NEW q \in Registries
      PROVE  RestartFollows(q)' /\ (q \notin bare' => FilesHoldPrevious(q)')
  <2>1. RestartFollows(q) /\ (q \notin bare => FilesHoldPrevious(q))
    BY <1>1 DEF FilesFollow
  <2>2. CASE q = r
    BY <1>3, <2>1, <2>2 DEF RestartFollows, FilesHoldPrevious
  <2>3. CASE q # r
    BY <1>3, <2>1, <2>3 DEF RestartFollows, FilesHoldPrevious
  <2> QED  BY <2>2, <2>3
<1>6. \A s \in secrets' \ stray' : CredentialIsKept(s)'
  <2>1. Endpoints \in Registries
    BY DEF Registries
  <2>2. \A s \in secrets \ stray : CredentialIsKept(s)
    BY <1>1 DEF SecretsAreKnown
  <2> QED  BY <1>3, <2>1, <2>2 DEF CredentialIsKept
<1>7. call' \in [Threads -> Calls]
  BY DEF SecretsAreKnown
<1> QED  BY <1>1, <1>3, <1>4, <1>5, <1>6, <1>7, WhileRunning

LEMMA LoadedFiles ==
    ASSUME NEW files
    PROVE  Loaded(files) = IF files.main # None THEN files.main
                           ELSE IF files.backup # None THEN files.backup ELSE << >>
BY DEF Loaded

LEMMA ReplaceKeeps ==
    ASSUME RegistryInvariant, NEW r \in Registries,
           ClearBackup(r) \/ StagePrevious(r) \/ Publish(r) \/ PublishFails(r)
    PROVE  RegistryInvariant'
<1>1. /\ disk \in [Registries -> Files] /\ disk[r] \in Files /\ disk = [disk EXCEPT ![r] = @]
      /\ disk[r].main = None \/ Valid(r, disk[r].main, made)
      /\ disk[r].backup = None \/ Valid(r, disk[r].backup, made)
      /\ Valid(r, memory[r], made) /\ memory[r] \in Lists
      /\ memory = [memory EXCEPT ![r] = @]
  BY DEF RegistryInvariant, ListsAreValid
<1>2. r \notin bare => FilesHoldPrevious(r)
  BY DEF RegistryInvariant, FilesFollow
<1>3. CASE ClearBackup(r)
  <2>1. update[r] # None /\ update[r].step = "written"
    BY <1>3 DEF ClearBackup, At
  <2>2. CASE RollBack(r) /\ UNCHANGED <<disk, bare>>
    <3>1. r \notin bare => Loaded(disk[r]) = update[r].previous
      BY <1>2, <2>1 DEF FilesHoldPrevious
    <3> QED  BY <1>1, <1>3, <2>1, <2>2, <3>1, UpdateEnds DEF ClearBackup, RollBack
  <2>3. CASE /\ disk' = [disk EXCEPT ![r].backup = None]
             /\ bare' = IF disk[r].main = None /\ disk[r].backup # None
                        THEN bare \cup {r} ELSE bare
             /\ Reaches(r, "cleared")
             /\ UNCHANGED <<memory, restart>>
    <3> DEFINE files == [disk[r] EXCEPT !.backup = None]
    <3>1. files \in Files /\ files.main = disk[r].main /\ files.backup = None
      BY <1>1 DEF Files
    <3>2. disk' = [disk EXCEPT ![r] = files]
      BY <1>1, <2>3
    <3>3. r \notin bare' => /\ r \notin bare
                            /\ disk[r].main # None \/ disk[r].backup = None
      BY <2>3
    <3> HIDE DEF files
    <3>4. r \notin bare' => Loaded(files) = Loaded(disk[r])
      BY <3>1, <3>3, LoadedFiles
    <3>5. r \notin bare' => Loaded(files) = update[r].previous
      BY <1>2, <2>1, <3>3, <3>4 DEF FilesHoldPrevious
    <3>6. "cleared" \in Steps /\ \A q \in Registries \ {r} : q \in bare' <=> q \in bare
      BY <2>3 DEF Steps
    <3> QED  BY <1>1, <1>3, <2>1, <2>3, <3>1, <3>2, <3>3, <3>5, <3>6, FilesMove
             DEF ClearBackup
  <2> QED  BY <1>3, <2>2, <2>3 DEF ClearBackup
<1>4. CASE StagePrevious(r)
  <2>1. update[r] # None /\ update[r].step = "cleared"
    BY <1>4 DEF StagePrevious, At
  <2>2. r \notin bare => disk[r].backup = None /\ Loaded(disk[r]) = update[r].previous
    BY <1>2, <2>1 DEF FilesHoldPrevious
  <2>3. CASE RollBack(r) /\ UNCHANGED disk
    BY <1>1, <1>4, <2>1, <2>2, <2>3, UpdateEnds DEF StagePrevious, RollBack
  <2>4. CASE /\ disk' = IF disk[r].main = None THEN disk
                        ELSE [disk EXCEPT ![r] = StagedFile(@)]
             /\ Reaches(r, "staged")
             /\ UNCHANGED <<memory, restart>>
    <3> DEFINE files == IF disk[r].main = None THEN disk[r] ELSE StagedFile(disk[r])
    <3>1. /\ files \in Files /\ files.main = None
          /\ files.backup \in {disk[r].main, disk[r].backup}
      BY <1>1 DEF Files, StagedFile
    <3>2. disk' = [disk EXCEPT ![r] = files]
      BY <1>1, <2>4
    <3>3. files.backup = IF disk[r].main = None THEN disk[r].backup ELSE disk[r].main
      BY DEF StagedFile
    <3> HIDE DEF files
    <3>4. Loaded(files) = Loaded(disk[r])
      BY <3>1, <3>3, LoadedFiles
    <3>5. "staged" \in Steps /\ bare' = bare
      BY <1>4 DEF Steps, StagePrevious
    <3> QED  BY <1>1, <1>4, <2>1, <2>2, <2>4, <3>1, <3>2, <3>4, <3>5, FilesMove
             DEF StagePrevious
  <2> QED  BY <1>4, <2>3, <2>4 DEF StagePrevious
<1>5. CASE Publish(r)
  <2>1. PICK files \in {[main |-> memory[r], backup |-> None],
                        [disk[r] EXCEPT !.main = memory[r]]} :
           disk' = [disk EXCEPT ![r] = files]
    BY <1>5 DEF Publish, EndpointsPublished, RecentPublished
  <2>2. /\ files \in Files /\ files.main = memory[r]
        /\ files.backup \in {None, disk[r].backup}
    BY <1>1 DEF Files
  <2>3. Loaded(files) = memory[r]
    BY <1>1, <2>2, LoadedFiles, RegistryValues
  <2>4. /\ memory' = [memory EXCEPT ![r] = memory[r]] /\ update[r] # None
        /\ \A q \in Registries \ {r} : q \in bare' <=> q \in bare
    BY <1>1, <1>5 DEF Publish, At
  <2> QED  BY <1>1, <1>5, <2>1, <2>2, <2>3, <2>4, UpdateEnds DEF Publish
<1>6. CASE PublishFails(r)
  <2>1. update[r] # None /\ update[r].step = "staged"
    BY <1>6 DEF PublishFails, At
  <2>2. r \notin bare => disk[r].main = None /\ Loaded(disk[r]) = update[r].previous
    BY <1>2, <2>1 DEF FilesHoldPrevious
  <2>3. PICK files \in {disk[r], [main |-> disk[r].backup, backup |-> None]} :
           disk' = [disk EXCEPT ![r] = files]
    BY <1>1, <1>6 DEF PublishFails
  <2>4. /\ files \in Files
        /\ files.main \in {disk[r].main, disk[r].backup}
        /\ files.backup \in {None, disk[r].backup}
    BY <1>1 DEF Files
  <2>5. r \notin bare => Loaded(files) = Loaded(disk[r])
    BY <2>2, <2>3, LoadedFiles
  <2> QED  BY <1>1, <1>6, <2>1, <2>2, <2>3, <2>4, <2>5, UpdateEnds DEF PublishFails, RollBack
<1> QED  BY <1>3, <1>4, <1>5, <1>6

-----------------------------------------------------------------------------
(* The commands *)

\* An update of the recent projects or of the locale leaves the credentials.
LEMMA OtherListBegins ==
    ASSUME RegistryInvariant, NEW r \in {Recent, Locale}, NEW list, Unlocked(r),
           BeginUpdate(r, list), Valid(r, list, made),
           UNCHANGED <<running, disk, call, secrets, made, bare, stray>>
    PROVE  RegistryInvariant'
<1>1. r \in Registries /\ r # Endpoints /\ Endpoints \in Registries /\ made \in Nat
  BY RegistryValues DEF RegistryInvariant, ListsAreValid
<1>2. /\ ListsAreValid' /\ running'
      /\ restart' = [q \in Registries |-> restart'[q]]
      /\ \A q \in Registries :
            RestartFollows(q)' /\ (q \notin bare' => FilesHoldPrevious(q)')
      /\ \A q \in Registries \ {r} : memory'[q] = memory[q] /\ update'[q] = update[q]
  BY <1>1, BeginKeepsFiles
<1>3. running /\ call' \in [Threads -> Calls] /\ \A s \in secrets \ stray : CredentialIsKept(s)
  BY DEF RegistryInvariant, SecretsAreKnown, Unlocked
<1>4. \A s \in secrets' \ stray' : CredentialIsKept(s)'
  BY <1>1, <1>2, <1>3 DEF CredentialIsKept
<1> QED  BY <1>2, <1>3, <1>4, WhileRunning

LEMMA RecordKeeps ==
    ASSUME RegistryInvariant, NEW id \in Projects, NEW place \in Places,
           RecordProject(id, place)
    PROVE  RegistryInvariant'
<1> DEFINE entry == Entry(id, place)
           list == <<entry>> \o Others(memory[Recent], entry)
           limit == IF Len(list) < MaxRecent THEN Len(list) ELSE MaxRecent
<1>1. Valid(Recent, memory[Recent], made) /\ entry \in Entries
  BY RegistryValues DEF RegistryInvariant, ListsAreValid, Entry, Entries
<1>2. list \in Seq(Entries)
  <2>1. Valid(Recent, Others(memory[Recent], entry), made)
    BY <1>1, RetainKeepsValid DEF Others
  <2> HIDE DEF entry
  <2> QED  BY <1>1, <2>1 DEF Valid, Lists
<1>3. limit \in Nat /\ limit <= MaxRecent /\ limit <= Len(list)
  <2> HIDE DEF list
  <2> QED  BY <1>2, LimitsArePositive
<1> HIDE DEF limit
<1>4. Valid(Recent, SubSeq(list, 1, limit), made)
  <2> HIDE DEF entry
  <2> QED  BY <1>1, <1>3, RecordedIsValid
<1>5. Unlocked(Recent) /\ BeginUpdate(Recent, SubSeq(list, 1, limit))
  BY DEF RecordProject, limit
<1>6. UNCHANGED <<running, disk, call, secrets, made, bare, stray>>
  BY DEF RecordProject
<1> HIDE DEF list
<1> QED  BY <1>4, <1>5, <1>6, OtherListBegins

LEMMA ListCommandKeeps ==
    ASSUME RegistryInvariant,
           \/ \E id \in Projects : RemoveRecent(id)
           \/ \E tag \in Tags : SetLocale(tag)
    PROVE  RegistryInvariant'
<1>1. ASSUME NEW id \in Projects, RemoveRecent(id) PROVE RegistryInvariant'
  <2>1. Valid(Recent, memory[Recent], made)
    BY RegistryValues DEF RegistryInvariant, ListsAreValid
  <2>2. Valid(Recent, WithoutId(memory[Recent], id), made)
    BY <2>1, WithoutIdIsValid
  <2> QED  BY <1>1, <2>2, OtherListBegins DEF RemoveRecent
<1>2. ASSUME NEW tag \in Tags, SetLocale(tag) PROVE RegistryInvariant'
  BY <1>2, LocaleIsValid, OtherListBegins DEF SetLocale
<1> QED  BY <1>1, <1>2

LEMMA RegisterKeeps ==
    ASSUME RegistryInvariant, NEW place \in Places, RegisterEndpoint(place)
    PROVE  RegistryInvariant'
<1> DEFINE list == Append(memory[Endpoints], Entry(made + 1, place))
<1>1. /\ Endpoints \in Registries /\ made \in Nat /\ Valid(Endpoints, memory[Endpoints], made)
      /\ running /\ made' = made + 1 /\ update[Endpoints] = None
  BY RegistryValues DEF RegistryInvariant, ListsAreValid, RegisterEndpoint, Unlocked
<1>2. Valid(Endpoints, list, made') /\ IdsOf(memory[Endpoints]) \subseteq IdsOf(list)
  BY <1>1, RegisteredIsValid DEF RegisterEndpoint
<1>3. BeginUpdate(Endpoints, list) /\ Unlocked(Endpoints)
  BY <1>1 DEF RegisterEndpoint
<1>4. UNCHANGED <<running, disk, call, secrets, bare, stray>>
  BY DEF RegisterEndpoint
<1> HIDE DEF list
<1>5. /\ ListsAreValid' /\ running'
      /\ restart' = [q \in Registries |-> restart'[q]]
      /\ \A q \in Registries :
            RestartFollows(q)' /\ (q \notin bare' => FilesHoldPrevious(q)')
      /\ memory'[Endpoints] = list /\ update'[Endpoints].previous = memory[Endpoints]
  BY <1>1, <1>2, <1>3, <1>4, BeginKeepsFiles
<1>6. call' \in [Threads -> Calls] /\ \A s \in secrets \ stray : CredentialIsKept(s)
  BY <1>1, <1>4 DEF RegistryInvariant, SecretsAreKnown
<1>7. \A s \in secrets' \ stray' : CredentialIsKept(s)'
  BY <1>2, <1>4, <1>5, <1>6 DEF CredentialIsKept
<1> QED  BY <1>5, <1>6, <1>7, WhileRunning

\* What leaves the lists and files alone.
LEMMA CredentialsMove ==
    ASSUME RegistryInvariant, running,
           UNCHANGED <<running, memory, disk, update, made, restart, bare>>,
           call' \in [Threads -> Calls],
           \A s \in secrets' \ stray' : CredentialIsKept(s)'
    PROVE  RegistryInvariant'
<1>1. ListsAreValid'
  BY DEF RegistryInvariant, ListsAreValid
<1>2. \A q \in Registries :
         RestartFollows(q)' /\ (q \notin bare' => FilesHoldPrevious(q)')
  BY DEF RegistryInvariant, FilesFollow, RestartFollows, FilesHoldPrevious
<1>3. restart' = [q \in Registries |-> restart'[q]]
  BY DEF RegistryInvariant, FilesFollow
<1> QED  BY <1>1, <1>2, <1>3, WhileRunning

LEMMA BusyMeansRunning ==
    ASSUME RegistryInvariant, NEW t \in Threads, call[t].kind \in {"remove", "store"}
    PROVE  /\ running /\ call \in [Threads -> Calls]
           /\ \A s \in secrets \ stray : CredentialIsKept(s)
           /\ call[t].id \in Nat
           /\ call[t].kind = "remove" => call[t] \in [kind : {"remove"}, id : Nat, deleted : BOOLEAN]
<1>1. call[t] \in Calls /\ call[t] # Idle
  BY DEF RegistryInvariant, SecretsAreKnown, Idle
<1> QED  BY <1>1 DEF RegistryInvariant, SecretsAreKnown, Calls, Idle

LEMMA EndpointCommandKeeps ==
    ASSUME RegistryInvariant, NEW t \in Threads,
           \/ \E id \in 1 .. made : BeginRemove(t, id) \/ BeginStore(t, id)
           \/ DeleteSecret(t) \/ PutSecret(t)
    PROVE  RegistryInvariant'
<1>0. made \in Nat
  BY DEF RegistryInvariant, ListsAreValid
<1>1. ASSUME NEW id \in 1 .. made, BeginRemove(t, id) \/ BeginStore(t, id)
      PROVE  RegistryInvariant'
  <2>1. running /\ call \in [Threads -> Calls] /\ \A s \in secrets \ stray : CredentialIsKept(s)
    BY <1>1 DEF RegistryInvariant, SecretsAreKnown, BeginRemove, BeginStore, Unlocked
  <2>2. PICK c \in {[kind |-> "remove", id |-> id, deleted |-> FALSE],
                    [kind |-> "store", id |-> id]} : call' = [call EXCEPT ![t] = c]
    BY <1>1 DEF BeginRemove, BeginStore, Goes
  <2>3. c \in Calls /\ ~(c.kind = "remove" /\ c.deleted)
    <3>1. CASE c = [kind |-> "remove", id |-> id, deleted |-> FALSE]
      BY <1>0, <3>1 DEF Calls
    <3>2. CASE c = [kind |-> "store", id |-> id]
      BY <1>0, <3>2 DEF Calls
    <3> QED  BY <2>2, <3>1, <3>2
  <2>4. call' \in [Threads -> Calls]
    BY <2>1, <2>2, <2>3
  <2>5. UNCHANGED <<running, memory, disk, update, secrets, made, restart, bare, stray>>
    BY <1>1 DEF BeginRemove, BeginStore
  <2>6. \A s \in secrets' \ stray' : CredentialIsKept(s)'
    BY <2>1, <2>2, <2>3, <2>5 DEF CredentialIsKept
  <2> QED  BY <2>1, <2>4, <2>5, <2>6, CredentialsMove
<1>2. CASE DeleteSecret(t)
  <2>1. /\ running /\ call \in [Threads -> Calls] /\ \A s \in secrets \ stray : CredentialIsKept(s)
        /\ call[t] \in [kind : {"remove"}, id : Nat, deleted : BOOLEAN]
    BY <1>2, BusyMeansRunning DEF DeleteSecret
  <2>2. UNCHANGED <<running, memory, disk, update, made, restart, bare, stray>>
    BY <1>2 DEF DeleteSecret
  <2>3. CASE secrets' = secrets \ {call[t].id} /\ Goes(t, [call[t] EXCEPT !.deleted = TRUE])
    <3> DEFINE c == [call[t] EXCEPT !.deleted = TRUE]
    <3>1. c \in Calls /\ c.id = call[t].id
      BY <2>1 DEF Calls
    <3>2. call' = [call EXCEPT ![t] = c]
      BY <2>3 DEF Goes
    <3> HIDE DEF c
    <3>3. call' \in [Threads -> Calls]
      BY <2>1, <3>1, <3>2
    <3>4. \A s \in secrets' \ stray' : CredentialIsKept(s)'
      BY <2>1, <2>2, <2>3, <3>1, <3>2 DEF CredentialIsKept
    <3> QED  BY <2>1, <2>2, <3>3, <3>4, CredentialsMove
  <2>4. CASE Goes(t, Idle) /\ UNCHANGED secrets
    <3>1. call' = [call EXCEPT ![t] = Idle] /\ Idle \in Calls /\ Idle.kind # "remove"
      BY <2>4 DEF Goes, Calls, Idle
    <3>2. call' \in [Threads -> Calls]
      BY <2>1, <3>1
    <3>3. \A s \in secrets' \ stray' : CredentialIsKept(s)'
      BY <2>1, <2>2, <2>4, <3>1 DEF CredentialIsKept
    <3> QED  BY <2>1, <2>2, <3>2, <3>3, CredentialsMove
  <2> QED  BY <1>2, <2>3, <2>4 DEF DeleteSecret
<1>3. CASE PutSecret(t)
  <2>1. running /\ call \in [Threads -> Calls] /\ \A s \in secrets \ stray : CredentialIsKept(s)
    BY <1>3, BusyMeansRunning DEF PutSecret
  <2>2. UNCHANGED <<running, memory, disk, update, made, restart, bare>>
    BY <1>3 DEF PutSecret
  <2>3. call' = [call EXCEPT ![t] = Idle] /\ Idle \in Calls /\ Idle.kind # "remove"
    BY <1>3 DEF PutSecret, Goes, Calls, Idle
  <2>4. call' \in [Threads -> Calls]
    BY <2>1, <2>3
  <2>5. \A s \in secrets' \ stray' : CredentialIsKept(s)
    <3> SUFFICES ASSUME NEW s \in secrets' \ stray', s \notin secrets \ stray
                 PROVE  CredentialIsKept(s)
      BY <2>1
    <3>1. s = call[t].id /\ ~Going(s)
      BY <1>3 DEF PutSecret
    <3> QED  BY <3>1 DEF Going, CredentialIsKept
  <2>6. \A s \in secrets' \ stray' : CredentialIsKept(s)'
    BY <2>1, <2>2, <2>3, <2>5 DEF CredentialIsKept
  <2> QED  BY <2>1, <2>2, <2>4, <2>6, CredentialsMove
<1> QED  BY <1>1, <1>2, <1>3

LEMMA RemoveEntryKeeps ==
    ASSUME RegistryInvariant, NEW t \in Threads, RemoveEntry(t)
    PROVE  RegistryInvariant'
<1> DEFINE id == call[t].id
<1>1. /\ running /\ call \in [Threads -> Calls] /\ \A s \in secrets \ stray : CredentialIsKept(s)
      /\ Endpoints \in Registries /\ made \in Nat /\ Valid(Endpoints, memory[Endpoints], made)
  BY BusyMeansRunning, RegistryValues DEF RemoveEntry, RegistryInvariant, ListsAreValid
<1>2. call' = [call EXCEPT ![t] = Idle] /\ Idle \in Calls /\ Idle.kind # "remove"
  BY DEF RemoveEntry, Goes, Calls, Idle
<1>3. call' \in [Threads -> Calls]
  BY <1>1, <1>2
<1>4. \A s \in secrets \ stray : s # id
  BY <1>1 DEF RemoveEntry, CredentialIsKept
<1>5. UNCHANGED <<running, disk, secrets, made, bare, stray>> /\ Unlocked(Endpoints)
  BY DEF RemoveEntry
<1>6. CASE UNCHANGED <<memory, update, updates, restart>>
  <2>1. \A s \in secrets' \ stray' : CredentialIsKept(s)'
    BY <1>1, <1>2, <1>5, <1>6 DEF CredentialIsKept
  <2> QED  BY <1>1, <1>3, <1>5, <1>6, <2>1, CredentialsMove
<1>7. CASE BeginUpdate(Endpoints, WithoutId(memory[Endpoints], id))
  <2> DEFINE list == WithoutId(memory[Endpoints], id)
  <2>1. Valid(Endpoints, list, made) /\ IdsOf(list) = IdsOf(memory[Endpoints]) \ {id}
    BY <1>1, WithoutIdIsValid
  <2>2. BeginUpdate(Endpoints, list)
    BY <1>7
  <2> HIDE DEF list
  <2>3. /\ ListsAreValid' /\ running'
        /\ restart' = [q \in Registries |-> restart'[q]]
        /\ \A q \in Registries :
              RestartFollows(q)' /\ (q \notin bare' => FilesHoldPrevious(q)')
        /\ memory'[Endpoints] = list /\ update'[Endpoints].previous = memory[Endpoints]
    BY <1>1, <1>5, <2>1, <2>2, BeginKeepsFiles
  <2>4. \A s \in secrets' \ stray' : CredentialIsKept(s)'
    BY <1>1, <1>2, <1>4, <1>5, <2>1, <2>3 DEF CredentialIsKept
  <2> QED  BY <1>3, <2>3, <2>4, WhileRunning
<1> QED  BY <1>6, <1>7 DEF RemoveEntry

LEMMA DeleteProviderSecretKeeps ==
    ASSUME RegistryInvariant, NEW id, DeleteProviderSecret(id)
    PROVE  RegistryInvariant'
<1>1. running /\ call \in [Threads -> Calls] /\ \A s \in secrets \ stray : CredentialIsKept(s)
  BY DEF RegistryInvariant, SecretsAreKnown, DeleteProviderSecret, Unlocked
<1>2. \A s \in secrets' \ stray' : CredentialIsKept(s)'
  BY <1>1 DEF DeleteProviderSecret, CredentialIsKept
<1> QED  BY <1>1, <1>2, CredentialsMove DEF DeleteProviderSecret

-----------------------------------------------------------------------------
(* Start, stop and the theorems *)

LEMMA StartKeeps ==
    ASSUME RegistryInvariant, Start
    PROVE  RegistryInvariant'
<1>1. /\ ~running /\ disk \in [Registries -> Files] /\ made \in Nat
      /\ update \in [Registries -> Update \cup {None}]
      /\ \A r \in Registries : update[r] = None
      /\ \A r \in Registries :
            /\ disk[r].main = None \/ Valid(r, disk[r].main, made)
            /\ disk[r].backup = None \/ Valid(r, disk[r].backup, made)
      /\ call = [t \in Threads |-> call[t]] /\ \A t \in Threads : call[t] = Idle
      /\ call \in [Threads -> Calls] /\ SecretHasEndpoint
  BY DEF RegistryInvariant, ListsAreValid, FilesFollow, SecretsAreKnown, Start
<1>2. /\ running' = TRUE /\ bare' = {}
      /\ memory' = [r \in Registries |-> Loaded(disk[r])]
      /\ restart' = [r \in Registries |-> {Loaded(disk[r])}]
      /\ UNCHANGED <<disk, update, call, secrets, made>>
  BY DEF Start
<1>3. \A r \in Registries : Valid(r, Loaded(disk[r]), made)
  BY <1>1, LoadedFiles, NothingIsValid
<1>4. /\ memory' \in [Registries -> Lists]
      /\ \A r \in Registries : memory'[r] = Loaded(disk[r]) /\ restart'[r] = {memory'[r]}
      /\ restart' = [r \in Registries |-> restart'[r]]
  BY <1>2, <1>3 DEF Valid
<1>5. ListsAreValid'
  BY <1>1, <1>2, <1>3, <1>4 DEF ListsAreValid
<1>6. \A r \in Registries :
         RestartFollows(r)' /\ (r \notin bare' => FilesHoldPrevious(r)')
  BY <1>1, <1>2, <1>4 DEF RestartFollows, FilesHoldPrevious
<1>7. \A s \in secrets' \ stray' : CredentialIsKept(s)'
  <2> SUFFICES ASSUME NEW s \in secrets' \ stray' PROVE CredentialIsKept(s)'
    OBVIOUS
  <2>1. Endpoints \in Registries
    BY DEF Registries
  <2>2. s \in IdsOf(Loaded(disk[Endpoints]))
    BY <1>1, <1>2 DEF Start, SecretHasEndpoint
  <2>3. \A t \in Threads : call'[t].kind # "remove"
    BY <1>1, <1>2 DEF Idle
  <2> QED  BY <1>1, <1>2, <1>4, <2>1, <2>2, <2>3 DEF CredentialIsKept
<1> QED  BY <1>1, <1>2, <1>4, <1>5, <1>6, <1>7, WhileRunning

LEMMA StopKeeps ==
    ASSUME RegistryInvariant, Stop
    PROVE  RegistryInvariant'
<1>1. /\ running' = FALSE /\ memory' = [r \in Registries |-> << >>]
      /\ update' = [r \in Registries |-> None] /\ call' = [t \in Threads |-> Idle]
      /\ UNCHANGED <<disk, secrets, made, restart, bare, stray>>
  BY DEF Stop
<1>2. \A r \in Registries : memory'[r] = << >> /\ update'[r] = None
  BY <1>1
<1>3. /\ memory' \in [Registries -> Lists] /\ call' \in [Threads -> Calls]
      /\ update' \in [Registries -> Update \cup {None}]
  BY <1>1, RegistryValues DEF Calls
<1>4. ListsAreValid'
  BY <1>1, <1>2, <1>3, NothingIsValid DEF RegistryInvariant, ListsAreValid
<1>5. FilesFollow'
  BY <1>1, <1>2 DEF RegistryInvariant, FilesFollow, RestartShowsLastList, FilesHoldPrevious
<1>6. SecretsAreKnown'
  BY <1>1, <1>3 DEF RegistryInvariant, SecretsAreKnown, SecretHasEndpoint
<1> QED  BY <1>4, <1>5, <1>6 DEF RegistryInvariant

LEMMA InitRegistry ==
    ASSUME HrInit
    PROVE  RegistryInvariant
<1>1. \A r \in Registries :
         /\ memory[r] = << >> /\ disk[r] = [main |-> None, backup |-> None]
         /\ update[r] = None /\ restart[r] = {<< >>}
  BY DEF HrInit
<1>2. \A r \in Registries : Loaded(disk[r]) = << >>
  BY <1>1, LoadedFiles
<1>3. /\ memory \in [Registries -> Lists] /\ disk \in [Registries -> Files]
      /\ update \in [Registries -> Update \cup {None}] /\ call \in [Threads -> Calls]
  BY RegistryValues DEF HrInit, Files, Calls
<1>4. ListsAreValid
  BY <1>1, <1>3, NothingIsValid DEF HrInit, ListsAreValid
<1>5. FilesFollow
  BY <1>1, <1>2 DEF HrInit, FilesFollow, RestartShowsLastList, FilesHoldPrevious
<1>6. SecretsAreKnown
  BY <1>3 DEF HrInit, SecretsAreKnown, SecretHasEndpoint
<1> QED  BY <1>4, <1>5, <1>6 DEF RegistryInvariant

LEMMA RegistryStep ==
    ASSUME RegistryInvariant, [HrNext]_hrVars
    PROVE  RegistryInvariant'
<1>1. CASE Start \/ Stop
  BY <1>1, StartKeeps, StopKeeps
<1>2. CASE \E r \in Registries :
              ClearBackup(r) \/ StagePrevious(r) \/ Publish(r) \/ PublishFails(r)
  BY <1>2, ReplaceKeeps
<1>3. CASE \/ \E id \in Projects : RemoveRecent(id)
           \/ \E tag \in Tags : SetLocale(tag)
  BY <1>3, ListCommandKeeps
<1>4. CASE \E id \in Projects : \E place \in Places : RecordProject(id, place)
  BY <1>4, RecordKeeps
<1>5. CASE \E place \in Places : RegisterEndpoint(place)
  BY <1>5, RegisterKeeps
<1>6. CASE \E id \in 1 .. made : DeleteProviderSecret(id)
  BY <1>6, DeleteProviderSecretKeeps
<1>7. CASE \E t \in Threads :
              \/ \E id \in 1 .. made : BeginRemove(t, id) \/ BeginStore(t, id)
              \/ DeleteSecret(t) \/ PutSecret(t)
  BY <1>7, EndpointCommandKeeps
<1>8. CASE \E t \in Threads : RemoveEntry(t)
  BY <1>8, RemoveEntryKeeps
<1>9. CASE UNCHANGED hrVars
  <2>1. ListsAreValid'
    BY <1>9 DEF hrVars, RegistryInvariant, ListsAreValid
  <2>2. FilesFollow'
    BY <1>9 DEF hrVars, RegistryInvariant, FilesFollow, RestartFollows, FilesHoldPrevious,
                RestartShowsLastList
  <2>3. SecretsAreKnown'
    BY <1>9 DEF hrVars, RegistryInvariant, SecretsAreKnown, CredentialIsKept,
                SecretHasEndpoint
  <2> QED  BY <2>1, <2>2, <2>3 DEF RegistryInvariant
<1> QED  BY <1>1, <1>2, <1>3, <1>4, <1>5, <1>6, <1>7, <1>8, <1>9 DEF HrNext

\* The invariant holds of every reachable state.
THEOREM RegistryInvariantHolds == HrSpec => []RegistryInvariant
<1> QED  BY InitRegistry, RegistryStep, PTL DEF HrSpec

\* RegistryLoads: whenever the desktop stops, in the middle of whatever update,
\* load_registry finds lists that validate_entries accepts.
THEOREM DesktopStarts == HrSpec => []RegistryLoads
<1>1. RegistryInvariant => RegistryLoads
  <2> SUFFICES ASSUME ListsAreValid, NEW r \in Registries
               PROVE  Loads(r, Loaded(disk[r]))
    BY DEF RegistryInvariant, RegistryLoads
  <2>1. \/ Loaded(disk[r]) = << >>
        \/ Valid(r, Loaded(disk[r]), made)
    BY LoadedFiles DEF ListsAreValid
  <2> QED  BY <2>1, NothingIsValid DEF Valid
<1> QED  BY <1>1, RegistryInvariantHolds, PTL

\* RestartShowsLastList: between the renames of replace_registry, and after each
\* of their failures, the files give the list before the update or after it.
THEOREM LastListIsShown == HrSpec => []RestartShowsLastList
<1>1. RegistryInvariant => RestartShowsLastList
  BY DEF RegistryInvariant, FilesFollow
<1> QED  BY <1>1, RegistryInvariantHolds, PTL

\* SecretHasEndpoint: the threads that store and remove endpoints and credentials
\* leave no credential behind whose endpoint a restart does not know.
THEOREM NoSecretIsLeft == HrSpec => []SecretHasEndpoint
<1>1. RegistryInvariant => SecretHasEndpoint
  BY DEF RegistryInvariant, SecretsAreKnown
<1> QED  BY <1>1, RegistryInvariantHolds, PTL

=============================================================================
