--------------------------- MODULE ProviderProofs ---------------------------
(***************************************************************************)
(* For every adapter, any hooks of the user and any number of commands,    *)
(* edits, kills and faults: the hook file keeps one Onibi hook per event   *)
(* and the hooks of the user, and a decision meets the call it is about.   *)
(***************************************************************************)
EXTENDS ProviderAdapters, FiniteSetTheorems, TLAPS
-----------------------------------------------------------------------------
(* What is picked from a sequence.  The rank of a place numbers the places
   that are kept. *)

\* A place has a rank among those kept, and each rank up to their number is one's.
LEMMA RanksNumber ==
    ASSUME NEW keep \in SUBSET Int, IsFiniteSet(keep),
           NEW rank, rank = [i \in keep |-> Cardinality({j \in keep : j <= i})]
    PROVE  /\ \A i \in keep : rank[i] \in 1 .. Cardinality(keep)
           /\ \A n \in 1 .. Cardinality(keep) : \E i \in keep : rank[i] = n
           /\ \A i, k \in keep : rank[i] = rank[k] => i = k
<1> DEFINE upTo(i) == {j \in keep : j <= i}
<1>1. ASSUME NEW i \in keep
      PROVE  IsFiniteSet(upTo(i)) /\ Cardinality(upTo(i)) \in 1 .. Cardinality(keep)
  <2>1. upTo(i) \in SUBSET keep
    OBVIOUS
  <2>2. IsFiniteSet(upTo(i)) /\ Cardinality(upTo(i)) <= Cardinality(keep)
    BY <2>1, FS_Subset
  <2>3. upTo(i) # {}
    BY <1>1
  <2>4. Cardinality(upTo(i)) # 0
    BY <2>2, <2>3, FS_EmptySet
  <2> QED
    BY <2>2, <2>4, FS_CardinalityType
<1>2. ASSUME NEW i \in keep, NEW k \in keep, i < k PROVE rank[i] # rank[k]
  <2>1. \A j \in keep : j <= i => j <= k
    BY <1>2
  <2>2. upTo(i) \in SUBSET upTo(k)
    BY <2>1
  <2>3. k \in upTo(k) /\ k \notin upTo(i)
    BY <1>2
  <2>4. Cardinality(upTo(i)) # Cardinality(upTo(k))
    <3> HIDE DEF upTo
    <3> QED
      BY <1>1, <2>2, <2>3, FS_Subset
  <2> QED
    BY <2>4
<1>3. \A i, k \in keep : rank[i] = rank[k] => i = k
  BY <1>2
<1>4. rank \in Injection(keep, 1 .. Cardinality(keep))
  BY <1>1, <1>3 DEF Injection, IsInjective
<1>5. Cardinality(keep) \in Nat
  BY FS_CardinalityType
<1>6. IsFiniteSet(1 .. Cardinality(keep)) /\ Cardinality(1 .. Cardinality(keep)) = Cardinality(keep)
  BY <1>5, FS_Interval
<1>7. rank \in Surjection(keep, 1 .. Cardinality(keep))
  BY <1>4, <1>6, FS_Injection
<1> QED
  BY <1>1, <1>3, <1>7 DEF Surjection

\* The kept places have their elements in what is picked, and nothing else is in it.
LEMMA PickedHolds ==
    ASSUME NEW T, NEW s \in Seq(T), NEW keep \in SUBSET DOMAIN s
    PROVE  /\ Picked(s, keep) \in Seq(T)
           /\ \A n \in DOMAIN Picked(s, keep) : \E i \in keep : Picked(s, keep)[n] = s[i]
           /\ \A i \in keep : \E n \in DOMAIN Picked(s, keep) : Picked(s, keep)[n] = s[i]
<1> DEFINE rank == [i \in keep |-> Cardinality({j \in keep : j <= i})]
           at(n) == CHOOSE i \in keep : Cardinality({j \in keep : j <= i}) = n
           size == Cardinality(keep)
<1>1. DOMAIN s = 1 .. Len(s) /\ Len(s) \in Nat /\ keep \in SUBSET Int
  OBVIOUS
<1>2. IsFiniteSet(1 .. Len(s))
  BY <1>1, FS_Interval
<1>3. IsFiniteSet(keep)
  BY <1>1, <1>2, FS_Subset
<1>4. size \in Nat
  BY <1>3, FS_CardinalityType
<1>5. /\ \A i \in keep : rank[i] \in 1 .. size
      /\ \A n \in 1 .. size : \E i \in keep : rank[i] = n
      /\ \A i, k \in keep : rank[i] = rank[k] => i = k
  BY <1>1, <1>3, RanksNumber
<1>6. ASSUME NEW n \in 1 .. size PROVE at(n) \in keep /\ rank[at(n)] = n
  <2>1. \E i \in keep : Cardinality({j \in keep : j <= i}) = n
    BY <1>5
  <2> QED
    BY <2>1
<1>7. Picked(s, keep) = [n \in 1 .. size |-> s[at(n)]]
  BY DEF Picked
<1> HIDE DEF at, rank, size
<1>8. \A n \in 1 .. size : s[at(n)] \in T
  BY <1>1, <1>6
<1>9. Picked(s, keep) \in Seq(T) /\ DOMAIN Picked(s, keep) = 1 .. size
  BY <1>4, <1>7, <1>8
<1>10. ASSUME NEW i \in keep PROVE \E n \in 1 .. size : Picked(s, keep)[n] = s[i]
  <2>1. rank[i] \in 1 .. size /\ at(rank[i]) = i
    BY <1>5, <1>6
  <2> QED
    BY <1>7, <2>1
<1> QED
  BY <1>6, <1>7, <1>9, <1>10
-----------------------------------------------------------------------------
(* The hooks of an event. *)
Groups == Seq(Seq(Hooks))
At2(groups, p) == groups[p[1]][p[2]]

\* Sequences grow at their end.
LEMMA AppendPlace ==
    ASSUME NEW S, NEW q \in Seq(S), NEW x \in S
    PROVE  LET t == Append(q, x) IN
           /\ t \in Seq(S) /\ DOMAIN t = DOMAIN q \cup {Len(q) + 1} /\ t[Len(q) + 1] = x
           /\ \A i \in DOMAIN q : t[i] = q[i] /\ i # Len(q) + 1
           /\ \A i \in DOMAIN t : i \in DOMAIN q \/ i = Len(q) + 1
OBVIOUS

\* A place is a group and one of its hooks.
LEMMA PlaceFact ==
    ASSUME NEW groups \in Groups
    PROVE  /\ DOMAIN groups = 1 .. Len(groups) /\ Len(groups) \in Nat
           /\ \A i \in DOMAIN groups : groups[i] \in Seq(Hooks)
           /\ \A i \in DOMAIN groups : \A j \in DOMAIN groups[i] :
                 <<i, j>> \in Places(groups) /\ groups[i][j] \in Hooks
           /\ \A p \in Places(groups) :
                 /\ p = <<p[1], p[2]>> /\ p[1] \in DOMAIN groups /\ p[2] \in DOMAIN groups[p[1]]
                 /\ At2(groups, p) \in Hooks
<1>1. DOMAIN groups = 1 .. Len(groups) /\ Len(groups) \in Nat
  BY DEF Groups
<1>2. \A i \in DOMAIN groups : groups[i] \in Seq(Hooks)
  BY DEF Groups
<1>3. \A i \in DOMAIN groups : \A j \in DOMAIN groups[i] : groups[i][j] \in Hooks
  BY <1>2
<1>4. ASSUME NEW i \in DOMAIN groups, NEW j \in DOMAIN groups[i] PROVE <<i, j>> \in Places(groups)
  BY DEF Places
<1>5. ASSUME NEW p \in Places(groups)
      PROVE  p = <<p[1], p[2]>> /\ p[1] \in DOMAIN groups /\ p[2] \in DOMAIN groups[p[1]]
  <2>1. PICK i \in DOMAIN groups : p \in {i} \X DOMAIN groups[i]
    BY DEF Places
  <2> QED
    BY <2>1
<1> QED
  BY <1>1, <1>2, <1>3, <1>4, <1>5 DEF At2

\* Onibi's hooks among them.
LEMMA ManagedFact ==
    ASSUME NEW groups \in Groups
    PROVE  /\ \A p \in ManagedPlaces(groups) :
                 /\ p = <<p[1], p[2]>> /\ p[1] \in DOMAIN groups /\ p[2] \in DOMAIN groups[p[1]]
                 /\ Managed(groups[p[1]][p[2]])
           /\ \A i \in DOMAIN groups : \A j \in DOMAIN groups[i] :
                 Managed(groups[i][j]) => <<i, j>> \in ManagedPlaces(groups)
<1>1. ASSUME NEW i \in DOMAIN groups, NEW j \in DOMAIN groups[i], Managed(groups[i][j])
      PROVE  <<i, j>> \in ManagedPlaces(groups)
  BY <1>1, PlaceFact DEF ManagedPlaces
<1> QED
  BY <1>1, PlaceFact DEF ManagedPlaces

Single(groups) == \A p, q \in ManagedPlaces(groups) : p = q
Clean(groups) == \A i \in DOMAIN groups : \A j \in DOMAIN groups[i] : ~Managed(groups[i][j])
Fresh(groups) == /\ \E p \in ManagedPlaces(groups) : groups[p[1]][p[2]] = "new"
                 /\ Single(groups)

\* Without managed hooks there is at most one.
LEMMA CleanFact ==
    ASSUME NEW groups \in Groups, Clean(groups)
    PROVE  ManagedPlaces(groups) = {} /\ Single(groups)
BY ManagedFact DEF Clean, Single

\* A group more, with a hook that is the user's or, the first time, Onibi's.
LEMMA GroupAdded ==
    ASSUME NEW groups \in Groups, NEW h \in Hooks
    PROVE  LET more == Append(groups, <<h>>) IN
           /\ more \in Groups /\ DOMAIN more = DOMAIN groups \cup {Len(groups) + 1}
           /\ \A i \in DOMAIN groups : more[i] = groups[i] /\ i # Len(groups) + 1
           /\ more[Len(groups) + 1] = <<h>>
           /\ \A i \in DOMAIN more : i \in DOMAIN groups \/ i = Len(groups) + 1
<1>1. <<h>> \in Seq(Hooks)
  OBVIOUS
<1> QED
  BY <1>1, AppendPlace DEF Groups

\* What was singly managed stays so with a hook of the user.
LEMMA OwnGroupAdded ==
    ASSUME NEW groups \in Groups, Single(groups), NEW h \in Hooks, ~Managed(h)
    PROVE  NewGroup(groups, h) \in Groups /\ Single(NewGroup(groups, h))
<1> DEFINE more == Append(groups, <<h>>)
<1>1. /\ more \in Groups
      /\ \A i \in DOMAIN groups : more[i] = groups[i]
      /\ more[Len(groups) + 1] = <<h>>
      /\ \A i \in DOMAIN more : i \in DOMAIN groups \/ i = Len(groups) + 1
  BY GroupAdded
<1> HIDE DEF more
<1>2. ASSUME NEW p \in ManagedPlaces(more) PROVE p \in ManagedPlaces(groups)
  <2>1. /\ p = <<p[1], p[2]>> /\ p[1] \in DOMAIN more /\ p[2] \in DOMAIN more[p[1]]
        /\ Managed(more[p[1]][p[2]])
    BY <1>1, ManagedFact
  <2>2. p[1] # Len(groups) + 1
    <3>1. SUFFICES ASSUME p[1] = Len(groups) + 1 PROVE FALSE
      OBVIOUS
    <3>2. p[2] \in DOMAIN <<h>> /\ Managed(<<h>>[p[2]])
      BY <1>1, <2>1, <3>1
    <3> QED
      BY <3>2
  <2>3. p[1] \in DOMAIN groups
    BY <1>1, <2>1, <2>2
  <2> QED
    BY <1>1, <2>1, <2>3, ManagedFact
<1>3. NewGroup(groups, h) = more
  BY DEF NewGroup, more
<1> QED
  BY <1>1, <1>2, <1>3 DEF Single

\* Install: nothing managed is left, then one hook is added.
LEMMA OneAdded ==
    ASSUME NEW groups \in Groups, Clean(groups)
    PROVE  Append(groups, <<"new">>) \in Groups /\ Fresh(Append(groups, <<"new">>))
<1> DEFINE more == Append(groups, <<"new">>)
           last == <<Len(groups) + 1, 1>>
<1>1. /\ more \in Groups
      /\ DOMAIN more = DOMAIN groups \cup {Len(groups) + 1}
      /\ \A i \in DOMAIN groups : more[i] = groups[i]
      /\ more[Len(groups) + 1] = <<"new">>
      /\ \A i \in DOMAIN more : i \in DOMAIN groups \/ i = Len(groups) + 1
  <2>1. "new" \in Hooks
    BY DEF Hooks
  <2> QED
    BY <2>1, GroupAdded
<1> HIDE DEF more
<1>2. last \in ManagedPlaces(more)
  <2>1. Len(groups) + 1 \in DOMAIN more /\ 1 \in DOMAIN more[Len(groups) + 1]
    BY <1>1
  <2>2. Managed(more[Len(groups) + 1][1])
    BY <1>1 DEF Managed
  <2> QED
    BY <1>1, <2>1, <2>2, ManagedFact
<1>3. ASSUME NEW p \in ManagedPlaces(more) PROVE p = last
  <2>1. /\ p = <<p[1], p[2]>> /\ p[1] \in DOMAIN more /\ p[2] \in DOMAIN more[p[1]]
        /\ Managed(more[p[1]][p[2]])
    BY <1>1, <1>3, ManagedFact
  <2>2. p[1] \notin DOMAIN groups
    BY <1>1, <2>1 DEF Clean
  <2>3. p[1] = Len(groups) + 1
    BY <1>1, <2>1, <2>2
  <2>4. p[2] \in DOMAIN <<"new">>
    BY <1>1, <2>1, <2>3
  <2>5. p[2] = 1
    BY <2>4
  <2> QED
    BY <2>1, <2>3, <2>5
<1>4. more[last[1]][last[2]] = "new"
  BY <1>1
<1> QED
  BY <1>1, <1>2, <1>3, <1>4 DEF Fresh, Single, more

\* A hook of the user in a group that is there already.
LEMMA OwnHookAdded ==
    ASSUME NEW groups \in Groups, Single(groups), NEW i \in DOMAIN groups,
           NEW h \in Hooks, ~Managed(h)
    PROVE  InGroup(groups, i, h) \in Groups /\ Single(InGroup(groups, i, h))
<1> DEFINE more == InGroup(groups, i, h)
           grown == Append(groups[i], h)
<1>1. /\ DOMAIN groups = 1 .. Len(groups) /\ Len(groups) \in Nat
      /\ \A k \in DOMAIN groups : groups[k] \in Seq(Hooks)
  BY PlaceFact
<1>2. /\ grown \in Seq(Hooks) /\ grown[Len(groups[i]) + 1] = h
      /\ \A j \in DOMAIN groups[i] : grown[j] = groups[i][j]
      /\ \A j \in DOMAIN grown : j \in DOMAIN groups[i] \/ j = Len(groups[i]) + 1
  BY <1>1, AppendPlace
<1>3. more = [k \in DOMAIN groups |-> IF k = i THEN grown ELSE groups[k]]
  BY <1>1 DEF InGroup
<1> HIDE DEF more, grown
<1>4. more \in Groups /\ DOMAIN more = DOMAIN groups
  <2>1. \A k \in 1 .. Len(groups) : (IF k = i THEN grown ELSE groups[k]) \in Seq(Hooks)
    BY <1>1, <1>2
  <2>2. more = [k \in 1 .. Len(groups) |-> IF k = i THEN grown ELSE groups[k]]
    BY <1>1, <1>3
  <2>3. more \in [1 .. Len(groups) -> Seq(Hooks)]
    BY <2>1, <2>2
  <2>4. more \in Seq(Seq(Hooks))
    <3> DEFINE T == Seq(Hooks)
    <3>1. more \in [1 .. Len(groups) -> T]
      BY <2>3
    <3> HIDE DEF T
    <3>2. more \in Seq(T)
      BY <1>1, <3>1
    <3> QED
      BY <3>2 DEF T
  <2> QED
    BY <1>1, <2>2, <2>4 DEF Groups
<1>5. ASSUME NEW p \in ManagedPlaces(more) PROVE p \in ManagedPlaces(groups)
  <2>1. /\ p = <<p[1], p[2]>> /\ p[1] \in DOMAIN groups /\ p[2] \in DOMAIN more[p[1]]
        /\ Managed(more[p[1]][p[2]])
    BY <1>4, <1>5, ManagedFact
  <2>2. CASE p[1] # i
    BY <1>3, <2>1, <2>2, ManagedFact
  <2>3. CASE p[1] = i
    <3>1. more[i] = grown
      BY <1>3
    <3>2. p[2] \in DOMAIN grown /\ Managed(grown[p[2]])
      BY <2>1, <2>3, <3>1
    <3>3. p[2] \in DOMAIN groups[i] /\ Managed(groups[i][p[2]])
      BY <1>2, <3>2
    <3> QED
      BY <2>1, <2>3, <3>3, ManagedFact
  <2> QED
    BY <2>2, <2>3
<1> QED
  BY <1>4, <1>5 DEF Single, more

\* What is altered stays where it is, and stays whose it is.
LEMMA AlteredFact ==
    ASSUME NEW groups \in Groups
    PROVE  /\ Altered(groups) \in Groups
           /\ Single(groups) => Single(Altered(groups))
           /\ DOMAIN Altered(groups) = DOMAIN groups
           /\ \A i \in DOMAIN groups : DOMAIN Altered(groups)[i] = DOMAIN groups[i]
           /\ \A i \in DOMAIN groups : \A j \in DOMAIN groups[i] :
                 Managed(Altered(groups)[i][j]) <=> Managed(groups[i][j])
<1> DEFINE new == Altered(groups)
<1>1. /\ DOMAIN groups = 1 .. Len(groups) /\ Len(groups) \in Nat
      /\ \A k \in DOMAIN groups : groups[k] \in Seq(Hooks)
  BY PlaceFact
<1>2. /\ DOMAIN new = DOMAIN groups
      /\ \A i \in DOMAIN groups :
            new[i] = [j \in DOMAIN groups[i] |->
                         IF Managed(groups[i][j]) THEN "edited" ELSE groups[i][j]]
  BY DEF Altered
<1>3. "edited" \in Hooks /\ Managed("edited")
  BY DEF Hooks, Managed
<1> HIDE DEF new
<1>4. ASSUME NEW i \in DOMAIN groups
      PROVE  /\ new[i] \in Seq(Hooks) /\ DOMAIN new[i] = DOMAIN groups[i]
             /\ \A j \in DOMAIN groups[i] : Managed(new[i][j]) <=> Managed(groups[i][j])
  BY <1>1, <1>2, <1>3
<1>5. new \in Groups
  <2>1. new = [i \in 1 .. Len(groups) |-> new[i]]
    BY <1>1, <1>2 DEF new, Altered
  <2> QED
    BY <1>1, <1>4, <2>1 DEF Groups
<1>6. ASSUME NEW p \in ManagedPlaces(new) PROVE p \in ManagedPlaces(groups)
  BY <1>2, <1>4, <1>5, <1>6, ManagedFact
<1> QED
  BY <1>2, <1>4, <1>5, <1>6 DEF Single, new

\* claude's removal leaves groups without a managed hook.
LEMMA WithoutGroupsFact ==
    ASSUME NEW groups \in Groups
    PROVE  WithoutGroups(groups) \in Groups /\ Clean(WithoutGroups(groups))
<1> DEFINE keep == {i \in DOMAIN groups : ~ManagedGroup(groups[i])}
           left == Picked(groups, keep)
<1>1. keep \in SUBSET DOMAIN groups
  OBVIOUS
<1>2. left \in Groups /\ \A n \in DOMAIN left : \E i \in keep : left[n] = groups[i]
  BY <1>1, PickedHolds DEF Groups
<1>3. WithoutGroups(groups) = left
  BY DEF WithoutGroups
<1> HIDE DEF left
<1> QED
  BY <1>2, <1>3 DEF Clean, ManagedGroup

\* The removal of the others leaves every hook of the user.
LEMMA WithoutHooksFact ==
    ASSUME NEW groups \in Groups
    PROVE  /\ WithoutHooks(groups) \in Groups /\ Clean(WithoutHooks(groups))
           /\ \A i \in DOMAIN groups : \A j \in DOMAIN groups[i] :
                 ~Managed(groups[i][j]) =>
                     \E n \in DOMAIN WithoutHooks(groups) : \E m \in DOMAIN WithoutHooks(groups)[n] :
                        WithoutHooks(groups)[n][m] = groups[i][j]
<1> DEFINE others(g) == {j \in DOMAIN g : ~Managed(g[j])}
           trimmed == [i \in DOMAIN groups |-> Picked(groups[i], others(groups[i]))]
           keep == {i \in DOMAIN groups : others(groups[i]) # {}}
           left == Picked(trimmed, keep)
<1>1. /\ DOMAIN groups = 1 .. Len(groups) /\ Len(groups) \in Nat
      /\ \A i \in DOMAIN groups : groups[i] \in Seq(Hooks)
  BY PlaceFact
<1>2. ASSUME NEW i \in DOMAIN groups
      PROVE  /\ trimmed[i] \in Seq(Hooks)
             /\ \A m \in DOMAIN trimmed[i] : \E j \in others(groups[i]) : trimmed[i][m] = groups[i][j]
             /\ \A j \in others(groups[i]) : \E m \in DOMAIN trimmed[i] : trimmed[i][m] = groups[i][j]
  <2>1. others(groups[i]) \in SUBSET DOMAIN groups[i] /\ groups[i] \in Seq(Hooks)
    BY <1>1
  <2>2. trimmed[i] = Picked(groups[i], others(groups[i]))
    OBVIOUS
  <2> HIDE DEF trimmed, others
  <2> QED
    BY <2>1, <2>2, PickedHolds
<1>3. trimmed \in Groups /\ DOMAIN trimmed = DOMAIN groups
  <2>1. DOMAIN trimmed = DOMAIN groups /\ trimmed = [i \in 1 .. Len(groups) |-> trimmed[i]]
    BY <1>1
  <2> HIDE DEF trimmed
  <2> QED
    BY <1>1, <1>2, <2>1 DEF Groups
<1>4. WithoutHooks(groups) = left
  BY DEF WithoutHooks
<1>5. /\ left \in Groups
      /\ \A n \in DOMAIN left : \E i \in keep : left[n] = trimmed[i]
      /\ \A i \in keep : \E n \in DOMAIN left : left[n] = trimmed[i]
  <2>1. keep \in SUBSET DOMAIN trimmed
    BY <1>3
  <2> HIDE DEF trimmed, keep
  <2> QED
    BY <1>3, <2>1, PickedHolds DEF Groups
<1> HIDE DEF left, trimmed
<1>6. Clean(left)
  <2> SUFFICES ASSUME NEW n \in DOMAIN left, NEW m \in DOMAIN left[n] PROVE ~Managed(left[n][m])
    BY DEF Clean
  <2>1. PICK i \in keep : left[n] = trimmed[i]
    BY <1>5
  <2>2. PICK j \in others(groups[i]) : trimmed[i][m] = groups[i][j]
    BY <1>2, <2>1
  <2> QED
    BY <2>1, <2>2
<1>7. ASSUME NEW i \in DOMAIN groups, NEW j \in DOMAIN groups[i], ~Managed(groups[i][j])
      PROVE  \E n \in DOMAIN left : \E m \in DOMAIN left[n] : left[n][m] = groups[i][j]
  <2>1. j \in others(groups[i]) /\ i \in keep
    BY <1>7
  <2>2. PICK m \in DOMAIN trimmed[i] : trimmed[i][m] = groups[i][j]
    BY <1>2, <2>1
  <2>3. PICK n \in DOMAIN left : left[n] = trimmed[i]
    BY <1>5, <2>1
  <2> QED
    BY <2>2, <2>3
<1> QED
  BY <1>4, <1>5, <1>6, <1>7

\* The managed hooks of an event, when there is none and when there is one.
LEMMA ManagedHooksFact ==
    ASSUME NEW groups \in Groups
    PROVE  /\ ManagedPlaces(groups) = {} => ManagedHooks(groups) = <<>>
           /\ \A p \in ManagedPlaces(groups) :
                 Single(groups) => /\ ManagedPlaces(groups) = {p}
                                   /\ ManagedHooks(groups) = <<groups[p[1]][p[2]]>>
<1> DEFINE found == ManagedPlaces(groups)
           nth(n) == CHOOSE p \in found : Cardinality({q \in found : UpTo(p, q)}) = n
<1>1. ManagedHooks(groups) = [n \in 1 .. Cardinality(found) |-> groups[nth(n)[1]][nth(n)[2]]]
  BY DEF ManagedHooks
<1>2. ASSUME found = {} PROVE ManagedHooks(groups) = <<>>
  <2>1. Cardinality(found) = 0
    BY <1>2, FS_EmptySet
  <2> HIDE DEF found, nth
  <2> QED
    BY <1>1, <2>1
<1>3. ASSUME NEW p \in found, Single(groups)
      PROVE  found = {p} /\ ManagedHooks(groups) = <<groups[p[1]][p[2]]>>
  <2>1. found = {p}
    BY <1>3 DEF Single
  <2>2. Cardinality(found) = 1
    BY <2>1, FS_Singleton
  <2>3. {q \in found : UpTo(p, q)} = {p}
    <3>1. p[1] \in Int /\ p[2] \in Int
      <4>1. p[1] \in DOMAIN groups /\ p[2] \in DOMAIN groups[p[1]]
        BY ManagedFact
      <4> QED
        BY <4>1, PlaceFact
    <3> QED
      BY <2>1, <3>1 DEF UpTo
  <2>4. Cardinality({q \in found : UpTo(p, q)}) = 1
    BY <2>3, FS_Singleton
  <2>5. nth(1) = p
    BY <2>1, <2>4
  <2> HIDE DEF found, nth
  <2> QED
    BY <1>1, <2>1, <2>2, <2>5
<1> QED
  BY <1>2, <1>3

\* They are a sequence of hooks.
LEMMA ManagedHooksTyped ==
    ASSUME NEW groups \in Groups, Single(groups)
    PROVE  ManagedHooks(groups) \in Seq(Hooks)
<1>1. CASE ManagedPlaces(groups) = {}
  <2>1. ManagedHooks(groups) = <<>>
    BY <1>1, ManagedHooksFact
  <2> QED
    BY <2>1
<1>2. ASSUME NEW p \in ManagedPlaces(groups) PROVE ManagedHooks(groups) \in Seq(Hooks)
  <2>1. ManagedHooks(groups) = <<groups[p[1]][p[2]]>>
    BY ManagedHooksFact
  <2>2. groups[p[1]][p[2]] \in Hooks
    BY ManagedFact, PlaceFact
  <2> QED
    BY <2>1, <2>2
<1> QED
  BY <1>1, <1>2
-----------------------------------------------------------------------------
(* The hook file.  It is none, it does not parse, or every event has at most
   one hook of Onibi; where an adapter keeps nothing of the file, its hooks are
   all Onibi's or none is. *)
Texts == [Slots -> Groups]
Files == {Absent, Garbage} \cup Texts
OnlyOwner(c) == \A e \in Slots : Clean(c[e])
OnlyOnibi(c) == \A e \in Slots : \A i \in DOMAIN c[e] : \A j \in DOMAIN c[e][i] : Managed(c[e][i][j])
Good(c) ==
    /\ c \in Texts /\ \A e \in Slots : Single(c[e])
    /\ policy.keeps = "nothing" => OnlyOwner(c) \/ OnlyOnibi(c)
GoodFile(f) == f \in {Absent, Garbage} \/ Good(f)
AllNew(c) == \A e \in Slots : Fresh(c[e])

\* What an install that takes leaves behind.
Taken == file \in Texts /\ AllNew(file) /\ rec # NoRecord /\ rec = Body(file)

Steps == {"idle", "backup", "fill", "row", "write", "record", "remove", "forget", "done", "failed"}
BeforeWriting == {"backup", "fill", "row", "write", "remove"}

HookTypeOK ==
    /\ agent \in Agents /\ file \in Files /\ adopted \in BOOLEAN
    /\ command \in [op : {"none", "install", "uninstall", "skip", "adopt"},
                    pc : Steps, read : Files, source : Files, calm : BOOLEAN]
    /\ saved \in [whole : SUBSET Files, torn : SUBSET Files, rows : SUBSET Files]

\* Which steps are of which command; one that merges has read a file that parses.
StepOfCommand ==
    /\ At("backup") \/ At("fill") \/ At("row") => command.op \in {"install", "uninstall"}
    /\ At("record") => command.op = "install"
    /\ At("forget") => command.op = "uninstall"
    /\ At("write") => command.op = "install" \/ (command.op = "uninstall" /\ ~policy.removes)
    /\ At("remove") => command.op = "uninstall" /\ policy.removes
    /\ command.pc \in BeforeWriting /\ Parses => command.read # Garbage

\* The file has a row in the store, or the command has no need of one.
When(op) == IF op = "install" THEN policy.saves ELSE policy.savesLast
Backed == file = Absent \/ file \in saved.rows \/ (When(command.op) # "always" /\ Verified)

\* A command that nobody disturbs has the file as it read it, and when it is about
\* to write it has saved the file.
CalmReads ==
    command.calm =>
        /\ command.pc \in BeforeWriting => command.read = file
        /\ At("fill") \/ At("row") => command.source = file
        /\ At("write") \/ At("remove") => Backed

\* Between the two writes of an install the file is its own.
CalmWrites ==
    command.calm /\ At("record") =>
        file \in Texts /\ AllNew(file) /\ (policy.needs = "body" => file = Installed(Empty))

\* What a record that was not adopted stands for: the hooks of this release, one
\* per event, or those of the previous one.
RecordOfRelease ==
    policy.skips = "verified" /\ ~adopted /\ rec # NoRecord =>
        \/ \A e \in Slots : rec[e] = <<"new">>
        \/ \A e \in Slots : rec[e] \in {<<>>, <<"old">>}

DoneTook ==
    At("done") /\ command.op = "install" /\ command.calm /\ ~(adopted /\ policy.skips = "verified")
        => Taken

HookInv ==
    /\ HookTypeOK /\ GoodFile(file) /\ GoodFile(command.read) /\ StepOfCommand
    /\ CalmReads /\ CalmWrites /\ RecordOfRelease /\ DoneTook

\* What an adapter does with the file goes with what it asks of it.
LEMMA PolicyFact ==
    ASSUME agent \in Agents
    PROVE  /\ policy.keeps \in {"groups", "hooks", "nothing"}
           /\ policy.needs \in {"every", "some", "body"}
           /\ policy.skips \in {"never", "verified", "same"}
           /\ policy.removes <=> policy.keeps = "nothing"
           /\ policy.keeps = "groups" <=> policy.needs = "every"
           /\ policy.keeps = "groups" => policy.saves = "always" /\ policy.savesLast = "always"
           /\ policy.keeps = "nothing" => policy.saves = "always"
           /\ policy.needs = "body" => policy.keeps = "nothing"
           /\ policy.skips = "verified" => policy.needs = "some"
           /\ policy.skips = "same" => policy.needs = "body"
<1>1. agent \in {"claude", "codex", "gemini", "goose", "copilot", "amp", "opencode", "pi"}
  BY HookInstallAssumption DEF Adapter
<1> QED
  BY <1>1 DEF policy, Adapter, Claude, Codex, Gemini, Goose, Copilot, Amp, OpenCode, Pi

\* The events of an adapter, and what is none of its texts.
LEMMA SlotsFact ==
    /\ Slots # {} /\ (policy.needs = "body" => Slots = {"body"})
    /\ Absent # Garbage /\ Absent \notin Texts /\ Garbage \notin Texts /\ NoRecord \notin Texts
    /\ NoRecord \notin [Slots -> Seq(Hooks)]
<1>1. Slots \in {HookEvents, {"body"}}
  BY DEF Slots
<1>2. /\ {Absent, Garbage, NoRecord} \cap [Slots -> Seq(Seq(Hooks))] = {}
      /\ NoRecord \notin [Slots -> Seq(Hooks)]
  BY <1>1, HookInstallAssumption
<1> QED
  BY <1>1, <1>2, HookInstallAssumption DEF Slots, Texts, Groups

\* The user's hooks are not Onibi's.
LEMMA OwnerFact == \A h \in OwnerHooks : h \in Hooks /\ ~Managed(h)
BY HookInstallAssumption DEF Hooks, Managed

\* A file without hooks.
LEMMA EmptyFact == Empty \in Texts /\ OnlyOwner(Empty) /\ Good(Empty)
<1>1. <<>> \in Groups /\ Clean(<<>>)
  BY DEF Groups, Clean
<1>2. Empty \in Texts /\ OnlyOwner(Empty)
  BY <1>1 DEF Empty, Texts, OnlyOwner
<1>3. \A e \in Slots : Empty[e] = <<>>
  BY DEF Empty
<1>4. Single(<<>>)
  BY <1>1, CleanFact
<1> QED
  BY <1>2, <1>3, <1>4 DEF Good

\* What is read of a file that parses.
LEMMA ParsedFact ==
    ASSUME NEW f, GoodFile(f), f # Garbage
    PROVE  Good(Parsed(f)) /\ Parsed(f) \in Texts
BY EmptyFact DEF GoodFile, Parsed, Good

\* Nothing of Onibi is left when a file is cleaned.
LEMMA CleanedFact ==
    ASSUME agent \in Agents, NEW c \in Texts
    PROVE  Cleaned(c) \in Texts /\ OnlyOwner(Cleaned(c)) /\ Good(Cleaned(c))
<1>1. ASSUME NEW e \in Slots PROVE Cleaned(c)[e] \in Groups /\ Clean(Cleaned(c)[e])
  <2>1. c[e] \in Groups
    BY DEF Texts
  <2>2. <<>> \in Groups /\ Clean(<<>>)
    BY DEF Groups, Clean
  <2>3. Cleaned(c)[e] \in {WithoutGroups(c[e]), WithoutHooks(c[e]), <<>>}
    BY PolicyFact DEF Cleaned
  <2> QED
    BY <2>1, <2>2, <2>3, WithoutGroupsFact, WithoutHooksFact
<1>2. Cleaned(c) \in Texts
  <2>1. Cleaned(c) = [e \in Slots |-> Cleaned(c)[e]]
    BY DEF Cleaned
  <2> QED
    BY <1>1, <2>1 DEF Texts
<1>3. \A e \in Slots : Single(Cleaned(c)[e])
  BY <1>1, CleanFact
<1> QED
  BY <1>1, <1>2, <1>3 DEF Good, OnlyOwner

\* What an install writes.
LEMMA InstalledFact ==
    ASSUME agent \in Agents, NEW c \in Texts
    PROVE  /\ Installed(c) \in Texts /\ AllNew(Installed(c)) /\ Good(Installed(c))
           /\ policy.keeps = "nothing" => Installed(c) = Installed(Empty)
<1>1. \A e \in Slots : Cleaned(c)[e] \in Groups /\ Clean(Cleaned(c)[e])
  BY CleanedFact DEF Texts, OnlyOwner
<1>2. /\ \A e \in Slots : Installed(c)[e] = Append(Cleaned(c)[e], <<"new">>)
      /\ Installed(c) = [e \in Slots |-> Installed(c)[e]]
  BY DEF Installed
<1>3. \A e \in Slots : Installed(c)[e] \in Groups /\ Fresh(Installed(c)[e])
  BY <1>1, <1>2, OneAdded
<1>4. Installed(c) \in Texts /\ AllNew(Installed(c))
  BY <1>2, <1>3 DEF Texts, AllNew
<1>5. ASSUME policy.keeps = "nothing"
      PROVE  Installed(c) = Installed(Empty) /\ OnlyOnibi(Installed(c))
  <2>1. \A x : Cleaned(x) = [e \in Slots |-> <<>>]
    BY <1>5 DEF Cleaned
  <2>2. \A x : Installed(x) = [e \in Slots |-> Append(<<>>, <<"new">>)]
    BY <2>1 DEF Installed
  <2>3. Append(<<>>, <<"new">>) = << <<"new">> >>
    OBVIOUS
  <2>4. \A e \in Slots : Installed(c)[e] = << <<"new">> >>
    BY <2>2, <2>3
  <2>5. Managed("new")
    BY DEF Managed
  <2> QED
    BY <2>2, <2>4, <2>5 DEF OnlyOnibi
<1> QED
  BY <1>3, <1>4, <1>5 DEF Good, Fresh

\* The hooks of a text are those at its places.
LEMMA HooksOfFact ==
    ASSUME NEW c \in Texts
    PROVE  /\ \A e \in Slots : \A i \in DOMAIN c[e] : \A j \in DOMAIN c[e][i] :
                 c[e][i][j] \in HooksOf(c)
           /\ \A h \in HooksOf(c) :
                 \E e \in Slots : \E i \in DOMAIN c[e] : \E j \in DOMAIN c[e][i] : h = c[e][i][j]
<1>1. c # Garbage /\ \A e \in Slots : c[e] \in Groups
  BY SlotsFact DEF Texts
<1>2. ASSUME NEW e \in Slots, NEW i \in DOMAIN c[e], NEW j \in DOMAIN c[e][i]
      PROVE  c[e][i][j] \in HooksOf(c)
  <2>1. <<i, j>> \in Places(c[e])
    BY <1>1, PlaceFact
  <2>2. c[e][<<i, j>>[1]][<<i, j>>[2]] \in {c[e][p[1]][p[2]] : p \in Places(c[e])}
    BY <2>1
  <2> QED
    BY <1>1, <2>2 DEF HooksOf
<1>3. ASSUME NEW h \in HooksOf(c)
      PROVE  \E e \in Slots : \E i \in DOMAIN c[e] : \E j \in DOMAIN c[e][i] : h = c[e][i][j]
  <2>1. PICK e \in Slots : h \in {c[e][p[1]][p[2]] : p \in Places(c[e])}
    BY <1>1 DEF HooksOf
  <2>2. PICK p \in Places(c[e]) : h = c[e][p[1]][p[2]]
    BY <2>1
  <2>3. p[1] \in DOMAIN c[e] /\ p[2] \in DOMAIN c[e][p[1]]
    BY <1>1, PlaceFact
  <2> QED
    BY <2>2, <2>3
<1> QED
  BY <1>2, <1>3

\* A merging adapter that works hook by hook keeps those of the user.
LEMMA OwnedKept ==
    ASSUME agent \in Agents, policy.keeps = "hooks", NEW c \in Texts
    PROVE  /\ Owned(c) \subseteq Owned(Cleaned(c))
           /\ Owned(c) \subseteq Owned(Installed(c))
<1>1. Cleaned(c) \in Texts /\ Installed(c) \in Texts
  BY CleanedFact, InstalledFact
<1>2. \A x \in Texts : Owned(x) = HooksOf(x) \ {"old", "new", "edited"}
  BY SlotsFact DEF Owned
<1>3. ASSUME NEW h \in Owned(c) PROVE h \in HooksOf(Cleaned(c)) /\ h \in HooksOf(Installed(c))
  <2>1. PICK e \in Slots : \E i \in DOMAIN c[e] : \E j \in DOMAIN c[e][i] : h = c[e][i][j]
    BY <1>2, HooksOfFact
  <2>2. c[e] \in Groups /\ Cleaned(c)[e] = WithoutHooks(c[e])
    BY DEF Texts, Cleaned
  <2>3. ~Managed(h)
    BY <1>2 DEF Managed
  <2>4. PICK n \in DOMAIN Cleaned(c)[e] : \E m \in DOMAIN Cleaned(c)[e][n] : Cleaned(c)[e][n][m] = h
    BY <2>1, <2>2, <2>3, WithoutHooksFact
  <2>5. h \in HooksOf(Cleaned(c))
    BY <1>1, <2>4, HooksOfFact
  <2>6. Cleaned(c)[e] \in Groups /\ Installed(c)[e] = Append(Cleaned(c)[e], <<"new">>)
    BY <1>1 DEF Texts, Installed
  <2>7. "new" \in Hooks
    BY DEF Hooks
  <2>8. n \in DOMAIN Installed(c)[e] /\ Installed(c)[e][n] = Cleaned(c)[e][n]
    BY <2>6, <2>7, GroupAdded
  <2>9. h \in HooksOf(Installed(c))
    BY <1>1, <2>4, <2>8, HooksOfFact
  <2> QED
    BY <2>5, <2>9
<1> QED
  BY <1>1, <1>2, <1>3

\* What a text with one new hook per event looks like to inspect and to the record.
LEMMA AllNewFact ==
    ASSUME agent \in Agents, NEW c \in Texts, AllNew(c)
    PROVE  /\ Present(c) /\ Body(c) # NoRecord /\ Versions(c) = {"new"}
           /\ \A e \in Slots : ManagedHooks(c[e]) = <<"new">>
           /\ policy.needs = "some" => Body(c) = [e \in Slots |-> <<"new">>]
<1>1. \A e \in Slots : c[e] \in Groups /\ Fresh(c[e])
  BY DEF Texts, AllNew
<1>2. ASSUME NEW e \in Slots
      PROVE  /\ ManagedHooks(c[e]) = <<"new">> /\ "new" \in HooksOf(c)
             /\ \E i \in DOMAIN c[e] : ManagedGroup(c[e][i])
             /\ \A i \in DOMAIN c[e] : \A j \in DOMAIN c[e][i] :
                   Managed(c[e][i][j]) => c[e][i][j] = "new"
  <2>1. PICK p \in ManagedPlaces(c[e]) : c[e][p[1]][p[2]] = "new"
    BY <1>1 DEF Fresh
  <2>2. p[1] \in DOMAIN c[e] /\ p[2] \in DOMAIN c[e][p[1]] /\ Managed(c[e][p[1]][p[2]])
    BY <1>1, ManagedFact
  <2>3. ManagedHooks(c[e]) = <<"new">>
    BY <1>1, <2>1, ManagedHooksFact DEF Fresh
  <2>4. ASSUME NEW i \in DOMAIN c[e], NEW j \in DOMAIN c[e][i], Managed(c[e][i][j])
        PROVE  c[e][i][j] = "new"
    <3>1. <<i, j>> \in ManagedPlaces(c[e])
      BY <1>1, <2>4, ManagedFact
    <3>2. <<i, j>> = p
      BY <1>1, <3>1 DEF Fresh, Single
    <3> QED
      BY <2>1, <3>2
  <2>5. "new" \in HooksOf(c)
    BY <2>1, <2>2, HooksOfFact
  <2>6. ManagedGroup(c[e][p[1]])
    BY <2>2 DEF ManagedGroup
  <2> QED
    BY <2>2, <2>3, <2>4, <2>5, <2>6
<1>3. Present(c)
  BY <1>2, SlotsFact DEF Present
<1>4. Versions(c) = {"new"}
  <2>1. \A h \in HooksOf(c) : Managed(h) => h = "new"
    BY <1>2, HooksOfFact
  <2>2. "new" \in HooksOf(c) /\ Managed("new")
    BY <1>2, SlotsFact DEF Managed
  <2> QED
    BY <2>1, <2>2 DEF Versions
<1>5. ASSUME policy.needs = "some" PROVE Body(c) = [e \in Slots |-> <<"new">>]
  BY <1>2, <1>5 DEF Body
<1>6. Body(c) # NoRecord
  <2>1. CASE policy.needs = "body"
    BY <2>1, SlotsFact DEF Body
  <2>2. CASE policy.needs = "some"
    <3>1. <<"new">> \in Seq(Hooks)
      BY DEF Hooks
    <3>2. Body(c) \in [Slots -> Seq(Hooks)]
      BY <1>5, <2>2, <3>1
    <3> QED
      BY <3>2, SlotsFact
  <2>3. CASE policy.needs = "every"
    <3> DEFINE places(e) == {i \in DOMAIN c[e] : ManagedGroup(c[e][i])}
               first(e) == Head(Picked(c[e], places(e)))
    <3>1. ASSUME NEW e \in Slots PROVE first(e) \in Seq(Hooks)
      <4>1. /\ places(e) \in SUBSET DOMAIN c[e] /\ c[e] \in Seq(Seq(Hooks))
            /\ \E i \in places(e) : TRUE
        BY <1>1, <1>2 DEF Groups
      <4> HIDE DEF places
      <4>2. /\ Picked(c[e], places(e)) \in Seq(Seq(Hooks))
            /\ \E n \in DOMAIN Picked(c[e], places(e)) : TRUE
        BY <4>1, PickedHolds
      <4>3. Picked(c[e], places(e)) # <<>>
        BY <4>2
      <4> QED
        BY <4>2, <4>3
    <3>2. Body(c) = [e \in Slots |-> first(e)]
      BY <2>3 DEF Body
    <3> HIDE DEF first
    <3>3. Body(c) \in [Slots -> Seq(Hooks)]
      BY <3>1, <3>2
    <3> QED
      BY <3>3, SlotsFact
  <2> QED
    BY <2>1, <2>2, <2>3, PolicyFact
<1> QED
  BY <1>2, <1>3, <1>4, <1>5, <1>6

\* What the user and the provider make of an event.
LEMMA EventEditsFact ==
    ASSUME agent \in Agents, NEW groups \in Groups, Single(groups), NEW after \in EventEdits(groups)
    PROVE  /\ after \in Groups /\ Single(after)
           /\ policy.keeps = "nothing" =>
                 \/ policy.needs = "body" /\ Clean(after)
                 \/ after = <<>> \/ after = Altered(groups)
<1>1. <<>> \in Groups /\ Clean(<<>>)
  BY DEF Groups, Clean
<1>2. CASE after = <<>>
  BY <1>1, <1>2, CleanFact
<1>3. CASE after = Altered(groups)
  BY <1>3, AlteredFact
<1>4. ASSUME policy.needs = "body", NEW h \in OwnerHooks, after = << <<h>> >>
      PROVE  after \in Groups /\ Clean(after) /\ Single(after)
  <2>1. h \in Hooks /\ ~Managed(h)
    BY OwnerFact
  <2>2. after \in Groups
    <3>1. <<h>> \in Seq(Hooks)
      BY <2>1
    <3> QED
      BY <1>4, <3>1 DEF Groups
  <2>3. Clean(after)
    <3>1. \A i \in DOMAIN after : after[i] = <<h>>
      BY <1>4
    <3>2. \A j \in DOMAIN <<h>> : <<h>>[j] = h
      OBVIOUS
    <3> QED
      BY <2>1, <3>1, <3>2 DEF Clean
  <2> QED
    BY <2>2, <2>3, CleanFact
<1>5. ASSUME policy.keeps # "nothing", NEW h \in OwnerHooks,
             \/ after = NewGroup(groups, h)
             \/ \E i \in DOMAIN groups : after = InGroup(groups, i, h)
      PROVE  after \in Groups /\ Single(after)
  BY <1>5, OwnerFact, OwnGroupAdded, OwnHookAdded
<1>6. \/ after = <<>> \/ after = Altered(groups)
      \/ policy.needs = "body" /\ \E h \in OwnerHooks : after = << <<h>> >>
      \/ ~policy.removes /\ \E h \in OwnerHooks :
            \/ after = NewGroup(groups, h)
            \/ \E i \in DOMAIN groups : after = InGroup(groups, i, h)
  <2>1. CASE policy.needs = "body"
    BY <2>1 DEF EventEdits
  <2>2. CASE policy.needs # "body" /\ policy.removes
    BY <2>2 DEF EventEdits
  <2>3. CASE policy.needs # "body" /\ ~policy.removes
    BY <2>3 DEF EventEdits
  <2> QED
    BY <2>1, <2>2, <2>3
<1> QED
  BY <1>2, <1>3, <1>4, <1>5, <1>6, PolicyFact

\* What they make of the file.
LEMMA EditsFact ==
    ASSUME agent \in Agents, NEW f, GoodFile(f), NEW g \in Edits(f)
    PROVE  GoodFile(g)
<1> DEFINE c == Parsed(f)
<1>1. GoodFile(Absent) /\ GoodFile(Garbage) /\ GoodFile(Empty)
  BY EmptyFact DEF GoodFile
<1>2. CASE f = Garbage
  BY <1>1, <1>2 DEF Edits
<1>3. CASE f # Garbage
  <2>1. Good(c) /\ c \in Texts
    BY <1>3, ParsedFact
  <2>2. \/ g \in {Absent, Garbage}
        \/ \E e \in Slots : \E after \in EventEdits(c[e]) : g = [c EXCEPT ![e] = after]
    <3> DEFINE changed(e) == {[c EXCEPT ![e] = groups] : groups \in EventEdits(c[e])}
    <3>1. g \in {Absent, Garbage} \/ g \in UNION {changed(e) : e \in Slots}
      BY <1>3 DEF Edits
    <3>2. ASSUME NEW e \in Slots, g \in changed(e)
          PROVE  \E after \in EventEdits(c[e]) : g = [c EXCEPT ![e] = after]
      BY <3>2
    <3> HIDE DEF changed
    <3> QED
      BY <3>1, <3>2
  <2> HIDE DEF c
  <2>3. ASSUME NEW e \in Slots, NEW after \in EventEdits(c[e]), g = [c EXCEPT ![e] = after]
        PROVE  Good(g)
    <3>1. c[e] \in Groups /\ Single(c[e])
      BY <2>1 DEF Good, Texts
    <3>2. /\ after \in Groups /\ Single(after)
          /\ policy.keeps = "nothing" =>
                \/ policy.needs = "body" /\ Clean(after)
                \/ after = <<>> \/ after = Altered(c[e])
      BY <3>1, EventEditsFact
    <3>3. /\ g \in Texts /\ g[e] = after
          /\ \A d \in Slots : d # e => g[d] = c[d]
      BY <2>1, <2>3, <3>2 DEF Texts
    <3>4. \A d \in Slots : Single(g[d])
      BY <2>1, <3>2, <3>3 DEF Good
    <3>5. ASSUME policy.keeps = "nothing" PROVE OnlyOwner(g) \/ OnlyOnibi(g)
      <4>1. CASE policy.needs = "body" /\ Clean(after)
        <5>1. Slots = {"body"}
          BY <4>1, SlotsFact
        <5> QED
          BY <3>3, <4>1, <5>1 DEF OnlyOwner
      <4>2. CASE after = <<>>
        <5>1. /\ Clean(after)
              /\ \A i \in DOMAIN after : \A j \in DOMAIN after[i] : Managed(after[i][j])
          BY <4>2 DEF Clean
        <5> QED
          BY <2>1, <3>3, <3>5, <5>1 DEF Good, OnlyOwner, OnlyOnibi
      <4>3. CASE after = Altered(c[e])
        <5>1. /\ DOMAIN after = DOMAIN c[e]
              /\ \A i \in DOMAIN c[e] : DOMAIN after[i] = DOMAIN c[e][i]
              /\ \A i \in DOMAIN c[e] : \A j \in DOMAIN c[e][i] :
                    Managed(after[i][j]) <=> Managed(c[e][i][j])
          BY <3>1, <4>3, AlteredFact
        <5>2. OnlyOwner(c) => OnlyOwner(g)
          BY <3>3, <5>1 DEF OnlyOwner, Clean
        <5>3. OnlyOnibi(c) => OnlyOnibi(g)
          BY <3>3, <5>1 DEF OnlyOnibi
        <5> QED
          BY <2>1, <3>5, <5>2, <5>3 DEF Good
      <4> QED
        BY <3>2, <3>5, <4>1, <4>2, <4>3
    <3> QED
      BY <3>3, <3>4, <3>5 DEF Good
  <2> QED
    BY <1>1, <2>2, <2>3 DEF GoodFile
<1> QED
  BY <1>2, <1>3
-----------------------------------------------------------------------------
(* The invariant of the hook file, kept by every step. *)

\* The agent stays, and with it what the adapter does.
LEMMA AgentStays ==
    ASSUME UNCHANGED agent
    PROVE  policy' = policy /\ Slots' = Slots /\ Texts' = Texts /\ Files' = Files /\ Parses' = Parses
BY DEF policy, Slots, Texts, Files, Parses

\* A record verifies as before while neither it nor the file changes.
LEMMA VerifiedStays ==
    ASSUME UNCHANGED <<agent, file, rec>>
    PROVE  Verified' <=> Verified
BY DEF Verified, Readable, HashMatches, Parsed, Empty, Present, Body, Slots, policy

\* Good files are those that are typed.
LEMMA GoodIsTyped == \A f : GoodFile(f) => f \in Files
BY DEF GoodFile, Good, Files

\* While a command only moves on, the file and the record stay as they were.
LEMMA MovesOn ==
    ASSUME HookInv, UNCHANGED <<agent, file, rec, adopted>>,
           command'.read \in {file, command.read}, command'.pc # "record"
    PROVE  /\ GoodFile(file)' /\ GoodFile(command.read)' /\ CalmWrites' /\ RecordOfRelease'
           /\ command'.pc # "done" => DoneTook'
<1>1. policy' = policy /\ Slots' = Slots /\ Texts' = Texts
  BY AgentStays
<1>2. GoodFile(file)'
  BY <1>1 DEF HookInv, GoodFile, Good, OnlyOwner, OnlyOnibi
<1>3. GoodFile(command.read)'
  BY <1>1 DEF HookInv, GoodFile, Good, OnlyOwner, OnlyOnibi
<1>4. CalmWrites' /\ (command'.pc # "done" => DoneTook')
  BY DEF CalmWrites, DoneTook, At
<1>5. RecordOfRelease'
  BY <1>1 DEF HookInv, RecordOfRelease
<1> QED
  BY <1>2, <1>3, <1>4, <1>5

\* An event with one hook.
LEMMA OneHookFact ==
    ASSUME NEW h \in Hooks
    PROVE  LET groups == << <<h>> >> IN
           /\ groups \in Groups /\ Single(groups)
           /\ \A i \in DOMAIN groups : \A j \in DOMAIN groups[i] : groups[i][j] = h
           /\ Managed(h) => ManagedHooks(groups) = <<h>>
<1> DEFINE groups == << <<h>> >>
<1>1. /\ groups \in Groups
      /\ \A i \in DOMAIN groups : i = 1 /\ \A j \in DOMAIN groups[i] : j = 1
      /\ 1 \in DOMAIN groups /\ 1 \in DOMAIN groups[1] /\ groups[1][1] = h
  <2>1. <<h>> \in Seq(Hooks)
    OBVIOUS
  <2> QED
    BY <2>1 DEF Groups
<1> HIDE DEF groups
<1>2. \A p \in ManagedPlaces(groups) : p = <<1, 1>>
  BY <1>1, ManagedFact
<1>3. Single(groups)
  BY <1>2 DEF Single
<1>4. ASSUME Managed(h) PROVE ManagedHooks(groups) = <<h>>
  <2>1. <<1, 1>> \in ManagedPlaces(groups)
    BY <1>1, <1>4, ManagedFact
  <2> QED
    BY <1>1, <1>3, <2>1, ManagedHooksFact
<1> QED
  BY <1>1, <1>3, <1>4 DEF groups

\* The files and records a machine has when Onibi is first run on it.
LEMMA InitHolds == HookInit => HookInv
<1> SUFFICES ASSUME HookInit PROVE HookInv
  OBVIOUS
<1>1. agent \in Agents /\ command = Idle /\ adopted = FALSE
      /\ saved = [whole |-> {}, torn |-> {}, rows |-> {}]
  BY DEF HookInit
<1>2. <<>> \in Groups /\ Clean(<<>>) /\ Single(<<>>) /\ ManagedHooks(<<>>) = <<>>
  <2>1. <<>> \in Groups /\ Clean(<<>>)
    BY DEF Groups, Clean
  <2> QED
    BY <2>1, CleanFact, ManagedHooksFact
<1>3. ASSUME NEW f \in Slots, NEW h \in OwnerHooks, rec = NoRecord,
             file = [e \in Slots |-> IF e = f THEN << <<h>> >> ELSE <<>>]
      PROVE  Good(file) /\ RecordOfRelease
  <2>1. /\ << <<h>> >> \in Groups /\ Clean(<< <<h>> >>) /\ Single(<< <<h>> >>)
    BY OwnerFact, OneHookFact DEF Clean
  <2>2. \A e \in Slots : file[e] \in Groups /\ Clean(file[e]) /\ Single(file[e])
    BY <1>2, <1>3, <2>1
  <2>3. file \in Texts
    BY <1>2, <1>3, <2>1 DEF Texts
  <2> QED
    BY <1>3, <2>2, <2>3 DEF Good, OnlyOwner, RecordOfRelease
<1>4. ASSUME NEW known \in (SUBSET Slots) \ {{}},
             file = [e \in Slots |-> IF e \in known THEN << <<"old">> >> ELSE <<>>],
             rec = IF policy.needs = "every" THEN [e \in known |-> <<"old">>] ELSE Body(file)
      PROVE  Good(file) /\ RecordOfRelease
  <2>1. "old" \in Hooks /\ Managed("old")
    BY DEF Hooks, Managed
  <2>2. /\ << <<"old">> >> \in Groups /\ Single(<< <<"old">> >>)
        /\ \A i \in DOMAIN << <<"old">> >> : \A j \in DOMAIN << <<"old">> >>[i] :
              Managed(<< <<"old">> >>[i][j])
        /\ ManagedHooks(<< <<"old">> >>) = <<"old">>
    BY <2>1, OneHookFact
  <2>3. \A e \in Slots : file[e] = << <<"old">> >> \/ file[e] = <<>>
    BY <1>4
  <2>4. file \in Texts /\ \A e \in Slots : Single(file[e])
    BY <1>2, <1>4, <2>2 DEF Texts
  <2>5. OnlyOnibi(file)
    BY <2>2, <2>3 DEF OnlyOnibi
  <2>6. RecordOfRelease
    <3>1. SUFFICES ASSUME policy.skips = "verified"
                   PROVE  \A e \in Slots : rec[e] \in {<<>>, <<"old">>}
      BY DEF RecordOfRelease
    <3>2. rec = [e \in Slots |-> ManagedHooks(file[e])]
      BY <1>1, <1>4, <3>1, PolicyFact DEF Body
    <3> QED
      BY <1>2, <2>2, <2>3, <3>2
  <2> QED
    BY <2>4, <2>5, <2>6 DEF Good
<1>5. GoodFile(file) /\ RecordOfRelease
  <2>1. \/ rec = NoRecord /\ file = Absent
        \/ rec = NoRecord /\ \E f \in Slots : \E h \in OwnerHooks :
              file = [e \in Slots |-> IF e = f THEN << <<h>> >> ELSE <<>>]
        \/ \E known \in (SUBSET Slots) \ {{}} :
              /\ file = [e \in Slots |-> IF e \in known THEN << <<"old">> >> ELSE <<>>]
              /\ rec = IF policy.needs = "every" THEN [e \in known |-> <<"old">>] ELSE Body(file)
    BY DEF HookInit
  <2>2. CASE rec = NoRecord /\ file = Absent
    BY <2>2 DEF GoodFile, RecordOfRelease
  <2> QED
    BY <1>3, <1>4, <2>1, <2>2 DEF GoodFile
<1>6. HookTypeOK
  <2>1. Idle \in [op : {"none", "install", "uninstall", "skip", "adopt"},
                  pc : Steps, read : Files, source : Files, calm : BOOLEAN]
    BY DEF Idle, Steps, Files
  <2> QED
    BY <1>1, <1>5, <2>1, GoodIsTyped DEF HookTypeOK
<1>7. /\ GoodFile(command.read) /\ StepOfCommand /\ CalmReads /\ CalmWrites /\ DoneTook
  BY <1>1 DEF Idle, GoodFile, StepOfCommand, BeforeWriting, CalmReads, CalmWrites, DoneTook, At
<1> QED
  BY <1>5, <1>6, <1>7 DEF HookInv

\* A record that verifies is one, and its file parses.
LEMMA VerifiedFact ==
    ASSUME HookInv, Verified
    PROVE  /\ file \in Texts /\ Good(file) /\ rec = Body(file)
           /\ \E e \in Slots : \E p \in ManagedPlaces(file[e]) : TRUE
<1>1. file \in {Absent, Garbage} \/ Good(file)
  BY DEF HookInv, GoodFile
<1>2. agent \in Agents /\ Slots # {}
  BY SlotsFact DEF HookInv, HookTypeOK
<1>3. file # Garbage /\ Present(Parsed(file)) /\ rec = Body(Parsed(file))
  BY DEF Verified, Readable, HashMatches
<1>4. Parsed(file) \in Texts
  BY <1>1, <1>3, EmptyFact DEF Parsed, Good
<1>5. \E e \in Slots : \E i \in DOMAIN Parsed(file)[e] : ManagedGroup(Parsed(file)[e][i])
  BY <1>2, <1>3 DEF Present
<1>6. PICK e \in Slots : \E p \in ManagedPlaces(Parsed(file)[e]) : TRUE
  <2>1. PICK e \in Slots : \E i \in DOMAIN Parsed(file)[e] : ManagedGroup(Parsed(file)[e][i])
    BY <1>5
  <2>2. PICK i \in DOMAIN Parsed(file)[e] : ManagedGroup(Parsed(file)[e][i])
    BY <2>1
  <2>3. PICK j \in DOMAIN Parsed(file)[e][i] : Managed(Parsed(file)[e][i][j])
    BY <2>2 DEF ManagedGroup
  <2>4. <<i, j>> \in ManagedPlaces(Parsed(file)[e])
    BY <1>4, <2>3, ManagedFact DEF Texts
  <2> QED
    BY <2>4
<1>7. file # Absent
  <2>1. SUFFICES ASSUME file = Absent PROVE FALSE
    OBVIOUS
  <2>2. Empty[e] \in Groups /\ Clean(Empty[e])
    BY EmptyFact DEF Texts, OnlyOwner
  <2> QED
    BY <1>6, <2>1, <2>2, CleanFact DEF Parsed
<1> QED
  BY <1>1, <1>3, <1>6, <1>7 DEF Parsed, Good

\* A command that starts has read the file as it is.
LEMMA StartHolds ==
    ASSUME HookInv, UNCHANGED <<agent, file, rec, saved, adopted>>,
           NEW op \in {"install", "uninstall"}, Start(op), Parses => Readable
    PROVE  HookInv'
<1>1. command' = [op |-> op, pc |-> "backup", read |-> file, source |-> Absent, calm |-> TRUE]
  BY DEF Start
<1>2. policy' = policy /\ Files' = Files /\ Parses' = Parses
  BY AgentStays
<1>3. /\ GoodFile(file)' /\ GoodFile(command.read)' /\ CalmWrites' /\ RecordOfRelease'
      /\ DoneTook'
  BY <1>1, MovesOn
<1>4. HookTypeOK'
  <2>1. HookTypeOK
    BY DEF HookInv
  <2>2. Absent \in Files /\ "backup" \in Steps
    BY DEF Files, Steps
  <2> QED
    BY <1>1, <1>2, <2>1, <2>2 DEF HookTypeOK
<1>5. StepOfCommand' /\ CalmReads'
  BY <1>1, <1>2 DEF StepOfCommand, CalmReads, At, Readable, BeforeWriting
<1> QED
  BY <1>3, <1>4, <1>5 DEF HookInv

\* One that has nothing to do, or cannot do it, ends at once.
LEMMA StopHolds ==
    ASSUME HookInv, UNCHANGED <<agent, file, rec, saved, adopted>>,
           NEW op \in {"install", "uninstall", "skip"}, NEW pc \in {"done", "failed", "forget"},
           Stop(op, pc), pc = "forget" => op = "uninstall",
           pc = "done" /\ op = "install" => Taken \/ (adopted /\ policy.skips = "verified")
    PROVE  HookInv'
<1>1. command' = [op |-> op, pc |-> pc, read |-> file, source |-> Absent, calm |-> TRUE]
  BY DEF Stop
<1>2. policy' = policy /\ Files' = Files /\ Parses' = Parses
  BY AgentStays
<1>3. GoodFile(file)' /\ GoodFile(command.read)' /\ CalmWrites' /\ RecordOfRelease'
  BY <1>1, MovesOn
<1>4. HookTypeOK'
  <2>1. HookTypeOK
    BY DEF HookInv
  <2>2. Absent \in Files /\ pc \in Steps
    BY DEF Files, Steps
  <2> QED
    BY <1>1, <1>2, <2>1, <2>2 DEF HookTypeOK
<1>5. StepOfCommand' /\ CalmReads'
  BY <1>1, <1>2 DEF StepOfCommand, CalmReads, At, BeforeWriting
<1>6. Taken => Taken'
  BY DEF Taken, Texts, AllNew, Body, Slots, policy
<1>7. DoneTook'
  BY <1>1, <1>2, <1>6 DEF DoneTook, At
<1> QED
  BY <1>3, <1>4, <1>5, <1>7 DEF HookInv

\* Hooks that an install finds in order are.
LEMMA NothingToDoTakes ==
    ASSUME HookInv, NothingToDo, ~(adopted /\ policy.skips = "verified")
    PROVE  Taken
<1>1. agent \in Agents
  BY DEF HookInv, HookTypeOK
<1>2. Verified
  BY DEF NothingToDo
<1>3. file \in Texts /\ Good(file) /\ rec = Body(file)
  BY <1>2, VerifiedFact
<1>4. CASE policy.skips = "same"
  <2>1. file = Installed(Empty)
    BY <1>4 DEF NothingToDo
  <2>2. AllNew(file)
    BY <1>1, <2>1, EmptyFact, InstalledFact
  <2> QED
    BY <1>1, <1>3, <2>2, AllNewFact DEF Taken
<1>5. CASE policy.skips = "verified"
  <2>1. /\ policy.needs = "some" /\ ~adopted
        /\ rec = [e \in Slots |-> ManagedHooks(file[e])]
    BY <1>1, <1>3, <1>5, PolicyFact DEF Body
  <2>2. PICK h \in HooksOf(file) : Managed(h) /\ h # "old"
    <3>1. "new" \in Versions(Parsed(file)) /\ Parsed(file) = file
      BY <1>3, <1>5, SlotsFact DEF NothingToDo, Parsed
    <3> QED
      BY <3>1 DEF Versions
  <2>3. PICK d \in Slots : \E i \in DOMAIN file[d] : \E j \in DOMAIN file[d][i] : h = file[d][i][j]
    BY <1>3, HooksOfFact
  <2>4. \A e \in Slots : file[e] \in Groups /\ Single(file[e])
    BY <1>3 DEF Texts, Good
  <2>5. rec[d] = <<h>>
    <3>1. PICK p \in ManagedPlaces(file[d]) : h = file[d][p[1]][p[2]]
      <4>1. PICK i \in DOMAIN file[d] : \E j \in DOMAIN file[d][i] : h = file[d][i][j]
        BY <2>3
      <4>2. PICK j \in DOMAIN file[d][i] : h = file[d][i][j]
        BY <4>1
      <4>3. <<i, j>> \in ManagedPlaces(file[d])
        BY <2>2, <2>4, <4>2, ManagedFact
      <4> QED
        BY <4>2, <4>3
    <3> QED
      BY <2>1, <2>4, <3>1, ManagedHooksFact
  <2>6. rec # NoRecord
    <3>1. rec \in [Slots -> Seq(Hooks)]
      <4>1. \A e \in Slots : ManagedHooks(file[e]) \in Seq(Hooks)
        BY <2>4, ManagedHooksTyped
      <4> QED
        BY <2>1, <4>1
    <3> QED
      BY <3>1, SlotsFact
  <2>7. \A e \in Slots : rec[e] = <<"new">>
    <3>1. RecordOfRelease
      BY DEF HookInv
    <3>2. <<h>> # <<>> /\ <<h>> # <<"old">>
      BY <2>2
    <3> QED
      BY <1>5, <2>1, <2>5, <2>6, <3>1, <3>2 DEF RecordOfRelease
  <2>8. ASSUME NEW e \in Slots PROVE Fresh(file[e])
    <3>1. ManagedHooks(file[e]) = <<"new">>
      BY <2>1, <2>7
    <3>2. ManagedPlaces(file[e]) # {}
      BY <2>4, <3>1, ManagedHooksFact
    <3>3. PICK p \in ManagedPlaces(file[e]) : TRUE
      BY <3>2
    <3>4. <<file[e][p[1]][p[2]]>> = <<"new">>
      BY <2>4, <3>1, <3>3, ManagedHooksFact
    <3> QED
      BY <2>4, <3>3, <3>4 DEF Fresh
  <2> QED
    BY <1>3, <2>6, <2>8 DEF Taken, AllNew
<1> QED
  BY <1>4, <1>5 DEF NothingToDo

LEMMA BeginInstallHolds ==
    ASSUME HookInv, BeginInstall PROVE HookInv'
<1>1. UNCHANGED <<agent, file, rec, saved, adopted>>
  BY DEF BeginInstall
<1>2. CASE NothingToDo /\ Stop("install", "done")
  BY <1>1, <1>2, NothingToDoTakes, StopHolds
<1>3. CASE Stop("install", "failed")
  BY <1>1, <1>3, StopHolds
<1>4. CASE (Parses => Readable) /\ Start("install")
  BY <1>1, <1>4, StartHolds
<1> QED
  BY <1>2, <1>3, <1>4 DEF BeginInstall

LEMMA BeginUninstallHolds ==
    ASSUME HookInv, BeginUninstall PROVE HookInv'
<1>1. UNCHANGED <<agent, file, rec, saved, adopted>>
  BY DEF BeginUninstall
<1>2. CASE Stop("uninstall", "failed")
  BY <1>1, <1>2, StopHolds
<1>3. CASE Stop("uninstall", "forget")
  BY <1>1, <1>3, StopHolds
<1>4. CASE (Parses => Readable) /\ Start("uninstall")
  BY <1>1, <1>4, StartHolds
<1> QED
  BY <1>2, <1>3, <1>4 DEF BeginUninstall

LEMMA BeginSystemUninstallHolds ==
    ASSUME HookInv, BeginSystemUninstall PROVE HookInv'
<1>1. \/ BeginUninstall
      \/ Stop("skip", "done") /\ UNCHANGED <<agent, file, rec, saved, adopted>>
  BY DEF BeginSystemUninstall
<1>2. CASE Stop("skip", "done") /\ UNCHANGED <<agent, file, rec, saved, adopted>>
  BY <1>2, StopHolds
<1> QED
  BY <1>1, <1>2, BeginUninstallHolds

\* What is adopted proves nothing of the release.
LEMMA AdoptHolds ==
    ASSUME HookInv, Adopt PROVE HookInv'
<1>1. /\ UNCHANGED <<agent, file, saved>> /\ adopted' = TRUE
      /\ command' = [op |-> "adopt", pc |-> "done", read |-> file, source |-> Absent, calm |-> TRUE]
  BY DEF Adopt, Stop
<1>2. policy' = policy /\ Slots' = Slots /\ Texts' = Texts /\ Files' = Files /\ Parses' = Parses
  BY <1>1, AgentStays
<1>3. GoodFile(file)'
  BY <1>1, <1>2 DEF HookInv, GoodFile, Good, OnlyOwner, OnlyOnibi
<1>4. GoodFile(command.read)'
  BY <1>1, <1>2 DEF HookInv, GoodFile, Good, OnlyOwner, OnlyOnibi
<1>5. HookTypeOK'
  <2>1. HookTypeOK
    BY DEF HookInv
  <2>2. Absent \in Files /\ "done" \in Steps
    BY DEF Files, Steps
  <2> QED
    BY <1>1, <1>2, <2>1, <2>2 DEF HookTypeOK
<1>6. StepOfCommand' /\ CalmReads' /\ CalmWrites' /\ RecordOfRelease' /\ DoneTook'
  BY <1>1 DEF StepOfCommand, CalmReads, CalmWrites, RecordOfRelease, DoneTook, At, BeforeWriting
<1> QED
  BY <1>3, <1>4, <1>5, <1>6 DEF HookInv

LEMMA FixHolds ==
    ASSUME HookInv, Fix PROVE HookInv'
BY BeginInstallHolds, AdoptHolds DEF Fix

\* A source that needs no copy, or has its row, backs the file up.
LEMMA BackupHolds ==
    ASSUME HookInv, Backup PROVE HookInv'
<1> DEFINE when == IF command.op = "install" THEN policy.saves ELSE policy.savesLast
           due == file # Absent /\ (when = "always" \/ ~Verified) /\ file \notin saved.rows
<1>1. UNCHANGED <<agent, file, rec, adopted>> /\ At("backup")
  BY DEF Backup
<1>2. policy' = policy /\ Files' = Files /\ Parses' = Parses /\ (Verified' <=> Verified)
  BY <1>1, AgentStays, VerifiedStays
<1>3. HookTypeOK /\ StepOfCommand /\ CalmReads
  BY DEF HookInv
<1>4. \/ /\ ~due /\ command' = [command EXCEPT !.pc = AfterBackup] /\ UNCHANGED saved
      \/ /\ file # Absent /\ command' = [command EXCEPT !.pc = "row", !.source = file] /\ UNCHANGED saved
      \/ /\ file # Absent /\ command' = [command EXCEPT !.pc = "fill", !.source = file]
         /\ saved' = [saved EXCEPT !.torn = @ \cup {file}]
  BY DEF Backup, Goto
<1>5. AfterBackup \in {"write", "remove"}
  BY DEF AfterBackup
<1>6. /\ command'.pc \in {"write", "remove", "row", "fill"} /\ command'.op = command.op
      /\ command'.read = command.read /\ command'.calm = command.calm
      /\ command'.pc \in {"row", "fill"} => command'.source = file
      /\ command'.pc \in {"write", "remove"} => command'.pc = AfterBackup /\ ~due /\ UNCHANGED saved
  BY <1>3, <1>4, <1>5 DEF HookTypeOK
<1>7. /\ GoodFile(file)' /\ GoodFile(command.read)' /\ CalmWrites' /\ RecordOfRelease'
      /\ DoneTook'
  BY <1>1, <1>6, MovesOn
<1>8. HookTypeOK'
  <2>1. {"write", "remove", "row", "fill"} \subseteq Steps
    BY DEF Steps
  <2>2. command' \in [op : {"none", "install", "uninstall", "skip", "adopt"},
                      pc : Steps, read : Files, source : Files, calm : BOOLEAN]
    BY <1>3, <1>4, <1>5, <2>1 DEF HookTypeOK
  <2>3. saved' \in [whole : SUBSET Files, torn : SUBSET Files, rows : SUBSET Files]
    <3>1. UNCHANGED saved \/ saved' = [saved EXCEPT !.torn = @ \cup {file}]
      BY <1>4
    <3>2. file \in Files /\ saved \in [whole : SUBSET Files, torn : SUBSET Files, rows : SUBSET Files]
      BY <1>3 DEF HookTypeOK
    <3> QED
      BY <3>1, <3>2
  <2> QED
    BY <1>1, <1>2, <1>3, <2>2, <2>3 DEF HookTypeOK
<1>9. StepOfCommand'
  BY <1>1, <1>2, <1>3, <1>6 DEF StepOfCommand, At, AfterBackup, BeforeWriting
<1>10. CalmReads'
  <2>1. SUFFICES ASSUME command.calm PROVE CalmReads'
    BY <1>6 DEF CalmReads
  <2>2. command.read = file
    BY <1>1, <1>3, <2>1 DEF CalmReads, At, BeforeWriting
  <2>3. ASSUME command'.pc \in {"write", "remove"} PROVE Backed'
    <3>1. file = Absent \/ file \in saved.rows \/ (when # "always" /\ Verified)
      BY <1>6, <2>3
    <3>2. saved' = saved
      BY <1>6, <2>3
    <3> QED
      BY <1>1, <1>2, <1>6, <3>1, <3>2 DEF Backed, When
  <2> QED
    BY <1>1, <1>6, <2>2, <2>3 DEF CalmReads, At
<1> QED
  BY <1>7, <1>8, <1>9, <1>10 DEF HookInv

LEMMA BackupFillHolds ==
    ASSUME HookInv, BackupFill PROVE HookInv'
<1>1. /\ UNCHANGED <<agent, file, rec, adopted>> /\ At("fill")
      /\ command' = [command EXCEPT !.pc = "row"]
      /\ saved' = [saved EXCEPT !.torn = @ \ {command.source}, !.whole = @ \cup {command.source}]
  BY DEF BackupFill, Goto
<1>2. policy' = policy /\ Files' = Files /\ Parses' = Parses
  BY <1>1, AgentStays
<1>3. HookTypeOK /\ StepOfCommand /\ CalmReads
  BY DEF HookInv
<1>4. /\ command'.pc = "row" /\ command'.op = command.op /\ command'.read = command.read
      /\ command'.calm = command.calm /\ command'.source = command.source
  BY <1>1, <1>3 DEF HookTypeOK
<1>5. /\ GoodFile(file)' /\ GoodFile(command.read)' /\ CalmWrites' /\ RecordOfRelease'
      /\ DoneTook'
  BY <1>1, <1>4, MovesOn
<1>6. HookTypeOK'
  BY <1>1, <1>2, <1>3 DEF HookTypeOK, Steps
<1>7. StepOfCommand' /\ CalmReads'
  BY <1>1, <1>2, <1>3, <1>4 DEF StepOfCommand, CalmReads, At, BeforeWriting
<1> QED
  BY <1>5, <1>6, <1>7 DEF HookInv

\* The row is of the file as it was read.
LEMMA BackupRowHolds ==
    ASSUME HookInv, BackupRow PROVE HookInv'
<1>1. /\ UNCHANGED <<agent, file, rec, adopted>> /\ At("row")
      /\ command' = [command EXCEPT !.pc = AfterBackup]
      /\ saved' = [saved EXCEPT !.rows = @ \cup {command.source}]
  BY DEF BackupRow, Goto
<1>2. policy' = policy /\ Files' = Files /\ Parses' = Parses
  BY <1>1, AgentStays
<1>3. HookTypeOK /\ StepOfCommand /\ CalmReads
  BY DEF HookInv
<1>4. /\ command'.pc = AfterBackup /\ command'.op = command.op /\ command'.read = command.read
      /\ command'.calm = command.calm /\ command'.source = command.source
      /\ AfterBackup \in {"write", "remove"}
  BY <1>1, <1>3 DEF HookTypeOK, AfterBackup
<1>5. /\ GoodFile(file)' /\ GoodFile(command.read)' /\ CalmWrites' /\ RecordOfRelease'
      /\ DoneTook'
  BY <1>1, <1>4, MovesOn
<1>6. HookTypeOK'
  <2>1. {"write", "remove"} \subseteq Steps
    BY DEF Steps
  <2> QED
    BY <1>1, <1>2, <1>3, <1>4, <2>1 DEF HookTypeOK
<1>7. StepOfCommand'
  BY <1>1, <1>2, <1>3, <1>4 DEF StepOfCommand, At, AfterBackup, BeforeWriting
<1>8. CalmReads'
  <2>1. SUFFICES ASSUME command.calm PROVE CalmReads'
    BY <1>4 DEF CalmReads
  <2>2. command.read = file /\ command.source = file
    BY <1>1, <1>3, <2>1 DEF CalmReads, At, BeforeWriting
  <2>3. file \in saved'.rows
    BY <1>1, <1>3, <2>2 DEF HookTypeOK
  <2> QED
    BY <1>1, <1>4, <2>2, <2>3 DEF CalmReads, At, Backed
<1> QED
  BY <1>5, <1>6, <1>7, <1>8 DEF HookInv

\* An install writes its own hooks next to what it keeps, an uninstall takes
\* Onibi's out.
LEMMA WriteHolds ==
    ASSUME HookInv, WriteFile PROVE HookInv'
<1> DEFINE c == IF Parses THEN Parsed(command.read) ELSE Empty
<1>1. /\ UNCHANGED <<agent, rec, saved, adopted>> /\ At("write")
      /\ \/ command.op = "install" /\ file' = Installed(c) /\ command' = [command EXCEPT !.pc = "record"]
         \/ command.op # "install" /\ file' = Cleaned(c) /\ command' = [command EXCEPT !.pc = "forget"]
  BY DEF WriteFile, Goto
<1>2. /\ policy' = policy /\ Slots' = Slots /\ Texts' = Texts /\ Files' = Files /\ Parses' = Parses
  BY <1>1, AgentStays
<1>3. HookTypeOK /\ StepOfCommand /\ GoodFile(command.read) /\ RecordOfRelease /\ agent \in Agents
  BY DEF HookInv, HookTypeOK
<1>4. c \in Texts
  <2>1. Parses => command.read # Garbage
    BY <1>1, <1>3 DEF StepOfCommand, BeforeWriting, At
  <2> QED
    BY <1>3, <2>1, ParsedFact, EmptyFact
<1> HIDE DEF c
<1>5. /\ Good(Installed(c)) /\ Good(Cleaned(c)) /\ Installed(c) \in Texts /\ AllNew(Installed(c))
      /\ policy.keeps = "nothing" => Installed(c) = Installed(Empty)
  BY <1>3, <1>4, InstalledFact, CleanedFact
<1>6. Good(file)'
  <2>1. \E f : f = file' /\ Good(f)
    BY <1>1, <1>5
  <2> QED
    BY <1>2, <2>1 DEF Good, OnlyOwner, OnlyOnibi
<1>7. GoodFile(file)' /\ GoodFile(command.read)'
  <2>1. command'.read = command.read
    BY <1>1, <1>3 DEF HookTypeOK
  <2>2. GoodFile(command.read)'
    BY <1>2, <1>3, <2>1 DEF GoodFile, Good, OnlyOwner, OnlyOnibi
  <2> QED
    BY <1>6, <2>2 DEF GoodFile
<1>8. /\ command'.pc \in {"record", "forget"} /\ command'.op = command.op
      /\ command'.calm = command.calm
      /\ command'.pc = "record" => command.op = "install" /\ file' = Installed(c)
      /\ command'.pc = "forget" => command.op # "install"
  BY <1>1, <1>3 DEF HookTypeOK
<1>9. HookTypeOK'
  <2>1. file' \in Files
    BY <1>1, <1>5 DEF Good, Files
  <2>2. {"record", "forget"} \subseteq Steps
    BY DEF Steps
  <2> QED
    BY <1>1, <1>2, <1>3, <2>1, <2>2 DEF HookTypeOK
<1>10. StepOfCommand' /\ CalmReads' /\ DoneTook'
  BY <1>1, <1>2, <1>3, <1>8 DEF StepOfCommand, CalmReads, DoneTook, At, BeforeWriting
<1>11. CalmWrites'
  <2>1. SUFFICES ASSUME command'.pc = "record" PROVE CalmWrites'
    BY DEF CalmWrites, At
  <2>2. file' \in Texts /\ AllNew(file') /\ (policy.needs = "body" => file' = Installed(Empty))
    BY <1>3, <1>5, <1>8, <2>1, PolicyFact
  <2>3. Installed(Empty)' = Installed(Empty)
    BY <1>2 DEF Installed, Cleaned, Empty
  <2> QED
    BY <1>2, <2>2, <2>3 DEF CalmWrites, AllNew
<1>12. RecordOfRelease'
  BY <1>1, <1>2, <1>3 DEF RecordOfRelease
<1> QED
  BY <1>7, <1>9, <1>10, <1>11, <1>12 DEF HookInv

\* A plugin that Onibi wrote goes as a whole.
LEMMA DeleteHolds ==
    ASSUME HookInv, Delete PROVE HookInv'
<1>1. /\ UNCHANGED <<agent, rec, saved, adopted>> /\ At("remove") /\ file' = Absent
      /\ command' = [command EXCEPT !.pc = "forget"]
  BY DEF Delete, Goto
<1>2. /\ policy' = policy /\ Slots' = Slots /\ Texts' = Texts /\ Files' = Files /\ Parses' = Parses
  BY <1>1, AgentStays
<1>3. HookTypeOK /\ StepOfCommand /\ GoodFile(command.read) /\ RecordOfRelease
  BY DEF HookInv
<1>4. /\ command'.pc = "forget" /\ command'.op = command.op /\ command'.calm = command.calm
      /\ command'.read = command.read
  BY <1>1, <1>3 DEF HookTypeOK
<1>5. GoodFile(file)' /\ GoodFile(command.read)'
  <2>1. GoodFile(command.read)'
    BY <1>2, <1>3, <1>4 DEF GoodFile, Good, OnlyOwner, OnlyOnibi
  <2> QED
    BY <1>1, <2>1 DEF GoodFile
<1>6. HookTypeOK'
  BY <1>1, <1>2, <1>3 DEF HookTypeOK, Steps, Files
<1>7. StepOfCommand' /\ CalmReads' /\ CalmWrites' /\ DoneTook'
  BY <1>1, <1>3, <1>4 DEF StepOfCommand, CalmReads, CalmWrites, DoneTook, At, BeforeWriting
<1>8. RecordOfRelease'
  BY <1>1, <1>2, <1>3 DEF RecordOfRelease
<1> QED
  BY <1>5, <1>6, <1>7, <1>8 DEF HookInv

\* The record is of what was written, or of what somebody made of it since.
LEMMA RecordHolds ==
    ASSUME HookInv, Record PROVE HookInv'
<1>1. /\ UNCHANGED <<agent, file, saved>> /\ At("record")
      /\ \/ /\ policy.needs = "body" /\ rec' = Installed(Empty) /\ adopted' = FALSE
            /\ command' = [command EXCEPT !.pc = "done"]
         \/ /\ policy.needs # "body" /\ UNCHANGED <<rec, adopted>>
            /\ ~Readable \/ ~Present(Parsed(file))
            /\ command' = [command EXCEPT !.pc = "failed"]
         \/ /\ policy.needs # "body" /\ Readable /\ rec' = Body(Parsed(file)) /\ adopted' = ~command.calm
            /\ command' = [command EXCEPT !.pc = "done"]
  BY DEF Record, Goto
<1>2. /\ policy' = policy /\ Slots' = Slots /\ Texts' = Texts /\ Files' = Files /\ Parses' = Parses
  BY <1>1, AgentStays
<1>3. /\ HookTypeOK /\ StepOfCommand /\ GoodFile(file) /\ GoodFile(command.read)
      /\ CalmWrites /\ RecordOfRelease /\ agent \in Agents
  BY DEF HookInv, HookTypeOK
<1>4. /\ command'.pc \in {"done", "failed"} /\ command'.op = command.op
      /\ command'.calm = command.calm /\ command'.read = command.read
      /\ command'.pc = "failed" => UNCHANGED <<rec, adopted>>
  BY <1>1, <1>3 DEF HookTypeOK
<1>5. GoodFile(file)'
  BY <1>1, <1>2, <1>3 DEF GoodFile, Good, OnlyOwner, OnlyOnibi
<1>6. GoodFile(command.read)'
  BY <1>2, <1>3, <1>4 DEF GoodFile, Good, OnlyOwner, OnlyOnibi
<1>7. HookTypeOK'
  BY <1>1, <1>2, <1>3 DEF HookTypeOK, Steps
<1>8. StepOfCommand' /\ CalmReads' /\ CalmWrites'
  BY <1>1, <1>3, <1>4 DEF StepOfCommand, CalmReads, CalmWrites, At, BeforeWriting
<1>9. ASSUME command.calm, command'.pc = "done"
      PROVE  /\ file \in Texts /\ AllNew(file) /\ rec' = Body(file) /\ rec' # NoRecord
             /\ policy.skips = "verified" => \A e \in Slots : rec'[e] = <<"new">>
  <2>1. file \in Texts /\ AllNew(file) /\ (policy.needs = "body" => file = Installed(Empty))
    BY <1>1, <1>3, <1>9 DEF CalmWrites
  <2>2. Parsed(file) = file
    BY <2>1, SlotsFact DEF Parsed
  <2>3. rec' = Body(file)
    <3>1. CASE policy.needs = "body"
      BY <1>1, <2>1, <3>1 DEF Body
    <3>2. CASE policy.needs # "body"
      <4>1. command'.pc # "failed"
        BY <1>9
      <4>2. rec' = Body(Parsed(file))
        BY <1>1, <1>3, <3>2, <4>1 DEF HookTypeOK
      <4> QED
        BY <2>2, <4>2
    <3> QED
      BY <3>1, <3>2
  <2>4. Body(file) # NoRecord /\ (policy.needs = "some" => Body(file) = [e \in Slots |-> <<"new">>])
    BY <1>3, <2>1, AllNewFact
  <2> QED
    BY <1>3, <2>1, <2>3, <2>4, PolicyFact
<1>10. RecordOfRelease'
  <2>1. CASE command'.pc = "failed"
    BY <1>2, <1>3, <1>4, <2>1 DEF RecordOfRelease
  <2>2. CASE command'.pc = "done" /\ command.calm
    BY <1>2, <1>9, <2>2 DEF RecordOfRelease
  <2>3. CASE command'.pc = "done" /\ ~command.calm
    <3>1. SUFFICES ASSUME policy.skips = "verified" PROVE adopted'
      BY <1>2 DEF RecordOfRelease
    <3>2. policy.needs # "body" /\ command'.pc # "failed"
      BY <1>3, <2>3, <3>1, PolicyFact
    <3> QED
      BY <1>1, <1>3, <2>3, <3>2 DEF HookTypeOK
  <2> QED
    BY <1>3, <1>4, <2>1, <2>2, <2>3
<1>11. DoneTook'
  <2>1. SUFFICES ASSUME command.calm, command'.pc = "done" PROVE Taken'
    BY <1>4 DEF DoneTook, At
  <2>2. Body(file)' = Body(file)
    BY <1>1, <1>2 DEF Body
  <2> QED
    BY <1>1, <1>2, <1>9, <2>1, <2>2 DEF Taken, AllNew
<1> QED
  BY <1>5, <1>6, <1>7, <1>8, <1>10, <1>11 DEF HookInv

LEMMA ForgetHolds ==
    ASSUME HookInv, Forget PROVE HookInv'
<1>1. /\ UNCHANGED <<agent, file, saved, adopted>> /\ At("forget") /\ rec' = NoRecord
      /\ command' = [command EXCEPT !.pc = "done"]
  BY DEF Forget, Goto
<1>2. policy' = policy /\ Slots' = Slots /\ Texts' = Texts /\ Files' = Files /\ Parses' = Parses
  BY <1>1, AgentStays
<1>3. HookTypeOK /\ StepOfCommand /\ GoodFile(file) /\ GoodFile(command.read)
  BY DEF HookInv
<1>4. /\ command'.pc = "done" /\ command'.op = "uninstall" /\ command'.calm = command.calm
      /\ command'.read = command.read
  BY <1>1, <1>3 DEF HookTypeOK, StepOfCommand
<1>5. GoodFile(file)'
  BY <1>1, <1>2, <1>3 DEF GoodFile, Good, OnlyOwner, OnlyOnibi
<1>6. GoodFile(command.read)'
  BY <1>2, <1>3, <1>4 DEF GoodFile, Good, OnlyOwner, OnlyOnibi
<1>7. HookTypeOK'
  BY <1>1, <1>2, <1>3 DEF HookTypeOK, Steps
<1>8. StepOfCommand' /\ CalmReads' /\ CalmWrites' /\ RecordOfRelease' /\ DoneTook'
  BY <1>1, <1>4 DEF StepOfCommand, CalmReads, CalmWrites, RecordOfRelease, DoneTook, At, BeforeWriting
<1> QED
  BY <1>5, <1>6, <1>7, <1>8 DEF HookInv

\* A command may end anywhere.
LEMMA KillHolds ==
    ASSUME HookInv, Kill PROVE HookInv'
<1>1. UNCHANGED <<agent, file, rec, saved, adopted>> /\ command' = [command EXCEPT !.pc = "failed"]
  BY DEF Kill, Goto
<1>2. policy' = policy /\ Files' = Files /\ Parses' = Parses
  BY <1>1, AgentStays
<1>3. HookTypeOK
  BY DEF HookInv
<1>4. command'.pc = "failed" /\ command'.read = command.read
  BY <1>1, <1>3 DEF HookTypeOK
<1>5. /\ GoodFile(file)' /\ GoodFile(command.read)' /\ CalmWrites' /\ RecordOfRelease'
      /\ DoneTook'
  BY <1>1, <1>4, MovesOn
<1>6. HookTypeOK'
  BY <1>1, <1>2, <1>3 DEF HookTypeOK, Steps
<1>7. StepOfCommand' /\ CalmReads'
  BY <1>4 DEF StepOfCommand, CalmReads, At, BeforeWriting
<1> QED
  BY <1>5, <1>6, <1>7 DEF HookInv

\* The user edits the file at any time, and the command under way is no longer alone.
LEMMA EditHolds ==
    ASSUME HookInv, Edit PROVE HookInv'
<1>1. /\ UNCHANGED <<agent, rec, saved, adopted>> /\ file' \in Edits(file)
      /\ command' = [command EXCEPT !.calm = FALSE]
  BY DEF Edit
<1>2. policy' = policy /\ Slots' = Slots /\ Texts' = Texts /\ Files' = Files /\ Parses' = Parses
  BY <1>1, AgentStays
<1>3. HookTypeOK /\ StepOfCommand /\ GoodFile(command.read) /\ RecordOfRelease
  BY DEF HookInv
<1>4. /\ command'.pc = command.pc /\ command'.op = command.op /\ command'.calm = FALSE
      /\ command'.read = command.read
  BY <1>1, <1>3 DEF HookTypeOK
<1>5. \E f : f = file' /\ GoodFile(f)
  BY <1>1, EditsFact DEF HookInv, HookTypeOK
<1>6. GoodFile(file)'
  BY <1>2, <1>5 DEF GoodFile, Good, OnlyOwner, OnlyOnibi
<1>7. GoodFile(command.read)'
  BY <1>2, <1>3, <1>4 DEF GoodFile, Good, OnlyOwner, OnlyOnibi
<1>8. HookTypeOK'
  <2>1. file' \in Files
    BY <1>5, GoodIsTyped
  <2> QED
    BY <1>1, <1>2, <1>3, <2>1 DEF HookTypeOK
<1>9. StepOfCommand' /\ CalmReads' /\ CalmWrites' /\ DoneTook'
  BY <1>2, <1>3, <1>4 DEF StepOfCommand, CalmReads, CalmWrites, DoneTook, At, BeforeWriting
<1>10. RecordOfRelease'
  BY <1>1, <1>2, <1>3 DEF RecordOfRelease
<1> QED
  BY <1>6, <1>7, <1>8, <1>9, <1>10 DEF HookInv

LEMMA NothingHolds ==
    ASSUME HookInv, UNCHANGED hookVars PROVE HookInv'
<1>1. UNCHANGED <<agent, file, rec, saved, command, adopted>>
  BY DEF hookVars
<1>2. /\ policy' = policy /\ Slots' = Slots /\ Texts' = Texts /\ Files' = Files /\ Parses' = Parses
      /\ (Verified' <=> Verified)
  BY <1>1, AgentStays, VerifiedStays
<1>3. GoodFile(file)' /\ GoodFile(command.read)'
  BY <1>1, <1>2 DEF HookInv, GoodFile, Good, OnlyOwner, OnlyOnibi
<1>4. HookTypeOK'
  BY <1>1, <1>2 DEF HookInv, HookTypeOK
<1>5. StepOfCommand'
  BY <1>1, <1>2 DEF HookInv, StepOfCommand, At
<1>6. CalmReads'
  BY <1>1, <1>2 DEF HookInv, CalmReads, Backed, When, At
<1>7. CalmWrites'
  <2>1. Installed(Empty)' = Installed(Empty)
    BY <1>2 DEF Installed, Cleaned, Empty
  <2> QED
    BY <1>1, <1>2, <2>1 DEF HookInv, CalmWrites, AllNew, At
<1>8. RecordOfRelease'
  BY <1>1, <1>2 DEF HookInv, RecordOfRelease
<1>9. DoneTook'
  <2>1. Taken => Taken'
    BY <1>1, <1>2 DEF Taken, AllNew, Body
  <2> QED
    BY <1>1, <1>2, <2>1 DEF HookInv, DoneTook, At
<1> QED
  BY <1>3, <1>4, <1>5, <1>6, <1>7, <1>8, <1>9 DEF HookInv

\* Every step keeps the invariant of the hook file.
LEMMA HookNextHolds == HookInv /\ [HookNext]_hookVars => HookInv'
<1> SUFFICES ASSUME HookInv, [HookNext]_hookVars PROVE HookInv'
  OBVIOUS
<1>1. CASE BeginInstall \/ BeginUninstall \/ BeginSystemUninstall \/ Fix
  BY <1>1, BeginInstallHolds, BeginUninstallHolds, BeginSystemUninstallHolds, FixHolds
<1>2. CASE Backup \/ BackupFill \/ BackupRow
  BY <1>2, BackupHolds, BackupFillHolds, BackupRowHolds
<1>3. CASE WriteFile \/ Record \/ Delete \/ Forget
  BY <1>3, WriteHolds, RecordHolds, DeleteHolds, ForgetHolds
<1>4. CASE Kill \/ Edit \/ UNCHANGED hookVars
  BY <1>4, KillHolds, EditHolds, NothingHolds
<1> QED
  BY <1>1, <1>2, <1>3, <1>4 DEF HookNext

\* One hook of Onibi on an event.
LEMMA OneHook == HookInv => OneHookPerEvent
<1> SUFFICES ASSUME HookInv, file \notin {Absent, Garbage}, NEW e \in Slots
             PROVE  Cardinality(ManagedPlaces(file[e])) <= 1
  BY DEF OneHookPerEvent
<1>1. Single(file[e])
  BY DEF HookInv, GoodFile, Good
<1>2. CASE ManagedPlaces(file[e]) = {}
  BY <1>2, FS_EmptySet
<1>3. ASSUME NEW p \in ManagedPlaces(file[e]) PROVE Cardinality(ManagedPlaces(file[e])) <= 1
  <2>1. ManagedPlaces(file[e]) = {p}
    BY <1>1 DEF Single
  <2>2. Cardinality(ManagedPlaces(file[e])) = 1
    BY <2>1, FS_Singleton
  <2> QED
    BY <2>2
<1> QED
  BY <1>2, <1>3

\* An install that took is one that inspect finds in order.
LEMMA InstallInOrder == HookInv => InstallTakes
<1> SUFFICES ASSUME HookInv, Taken, NEW info \in Statuses, NEW e \in Slots
             PROVE  DriftRow(info, e) = "ok"
  BY DEF InstallTakes, HookInv, DoneTook
<1>1. file \in Texts /\ AllNew(file) /\ rec # NoRecord /\ rec = Body(file) /\ agent \in Agents
  BY DEF Taken, HookInv, HookTypeOK
<1>2. Parsed(file) = file /\ Readable
  BY <1>1, SlotsFact DEF Parsed, Readable
<1>3. Present(file) /\ Versions(file) = {"new"} /\ ManagedHooks(file[e]) = <<"new">>
  BY <1>1, AllNewFact
<1>4. info.recorded /\ ~info.tampered /\ ~info.outdated
  <2>1. PICK v \in {"new"} :
           info = [installed |-> TRUE, recorded |-> rec # NoRecord,
                   tampered |-> rec # NoRecord /\ ~HashMatches, outdated |-> v = "old"]
    BY <1>2, <1>3 DEF Statuses
  <2>2. HashMatches
    BY <1>1, <1>2 DEF HashMatches
  <2> QED
    BY <1>1, <2>1, <2>2
<1>5. Head(<<"new">>) = "new" /\ <<"new">> # <<>>
  OBVIOUS
<1> QED
  BY <1>2, <1>3, <1>4, <1>5 DEF DriftRow

\* What a step of an undisturbed command takes away is in a backup, or Onibi's own.
LEMMA StepKeepsOwned ==
    ASSUME HookInv, WriteFile \/ Delete, command.calm, file \notin saved.torn
    PROVE  Owned(file) \subseteq Owned(file') \cup UNION {Owned(f) : f \in Restorable}
<1>1. /\ HookTypeOK /\ StepOfCommand /\ agent \in Agents /\ GoodFile(file)
      /\ Backed /\ command.read = file
  BY DEF HookInv, HookTypeOK, CalmReads, WriteFile, Delete, At, BeforeWriting
<1>2. CASE file = Absent
  <2>1. Owned(file) = {}
    BY <1>2, SlotsFact DEF Owned
  <2> QED
    BY <2>1
<1>3. CASE file \in saved.rows
  <2>1. Owned(file) \in {Owned(f) : f \in Restorable}
    BY <1>3 DEF Restorable
  <2>2. Owned(file) \subseteq UNION {Owned(f) : f \in Restorable}
    BY <2>1, Zenon
  <2> QED
    BY <2>2
<1>4. CASE When(command.op) # "always" /\ Verified
  <2>1. file \in Texts /\ Good(file)
    BY <1>4, VerifiedFact
  <2>2. policy.keeps \in {"hooks", "nothing"}
    BY <1>1, <1>4, PolicyFact DEF When
  <2>3. CASE policy.keeps = "hooks"
    <3>1. ~policy.removes /\ policy.keeps # "nothing"
      BY <1>1, <2>3, PolicyFact
    <3>2. Parsed(file) = file
      BY <2>1, SlotsFact DEF Parsed
    <3>3. ~Delete
      BY <1>1, <3>1 DEF Delete, StepOfCommand
    <3>4. file' \in {Installed(file), Cleaned(file)}
      BY <1>1, <3>1, <3>2, <3>3 DEF WriteFile, Parses
    <3> QED
      BY <1>1, <2>1, <2>3, <3>4, OwnedKept
  <2>4. CASE policy.keeps = "nothing"
    <3>1. OnlyOnibi(file)
      <4>1. PICK e \in Slots : \E p \in ManagedPlaces(file[e]) : TRUE
        BY <1>4, VerifiedFact
      <4>2. ~Clean(file[e])
        BY <2>1, <4>1, CleanFact DEF Texts
      <4> QED
        BY <2>1, <2>4, <4>2 DEF Good, OnlyOwner
    <3>2. \A h \in HooksOf(file) : Managed(h)
      BY <2>1, <3>1, HooksOfFact DEF OnlyOnibi
    <3>3. Owned(file) = {}
      BY <2>1, <3>2, SlotsFact DEF Owned, Managed
    <3> QED
      BY <3>3
  <2> QED
    BY <2>2, <2>3, <2>4
<1> QED
  BY <1>1, <1>2, <1>3, <1>4 DEF Backed

\* `onibi agent install`, --uninstall and doctor --fix, cut off anywhere and run
\* again, lose no hook of the user: what they take out is in a whole backup that the
\* store knows, unless the write of the backup of that very text was cut before.
THEOREM HooksOfTheOwnerAreKept == HookSpec => OwnerContentKept
<1>1. HookInv /\ [HookNext]_hookVars =>
         [(WriteFile \/ Delete) /\ command.calm /\ file \notin saved.torn =>
             Owned(file) \subseteq Owned(file') \cup UNION {Owned(f) : f \in Restorable}]_hookVars
  BY StepKeepsOwned
<1> QED
  BY <1>1, InitHolds, HookNextHolds, PTL DEF HookSpec, OwnerContentKept
-----------------------------------------------------------------------------
(* The call that the hook holds.  An answer of the daemon is the state of the
   row, or a cancellation, and while nothing cut the path it is the state of
   the row: the hook hands it on, and what the provider makes of it is what the
   contract promises. *)
Settled == {"approve", "edited", "deny", "expired"}
Torn == Out("torn", 0)

GateTypeOK ==
    /\ caller \in Providers /\ hook \in {"start", "ready", "waiting", "done"}
    /\ handler \in {"none", "reading", "waiting", "replied"}
    /\ reply \in Settled \cup {"cancelled"}
    /\ row \in Settled \cup {"none", "pending", "cancelled"}
    /\ daemon \in {"up", "stopping", "down"} /\ cut \in BOOLEAN
    /\ tool \in {"held", "ran", "ran edited", "ran merged", "blocked"}
    /\ input \in {"object", "missing"}

\* The handler starts without a row and answers with the row it has.
HandlerInv ==
    /\ hook \in {"start", "ready"} => handler = "none" /\ row = "none"
    /\ handler = "reading" => row = "none"
    /\ handler = "replied" => reply = "cancelled" \/ (reply = row /\ row \in Settled)

\* What the hook wrote is an answer, and the call met what it wrote.
OutputInv ==
    /\ \/ output \in {Silent, Torn, Printed(caller, "cancelled")}
       \/ row \in Settled /\ output = Printed(caller, row)
    /\ tool # "held" => hook = "done" /\ tool \in Effects(caller, input, output)

\* Nothing was lost on the way.
UncutInv ==
    ~cut =>
        /\ daemon # "stopping" /\ row # "cancelled"
        /\ hook = "waiting" => handler # "none"
        /\ hook = "done" => handler = "none"
        /\ handler = "waiting" => row # "none"
        /\ handler = "replied" => reply = row /\ row \in Settled
        /\ hook = "done" /\ row # "none" => row \in Settled /\ output = Printed(caller, row)

GateInv == GateTypeOK /\ HandlerInv /\ OutputInv /\ UncutInv

\* What an edit comes to.
EditEffect(a, arg) ==
    CASE a = "goose" -> "blocked"
      [] a = "pi" -> IF arg = "object" THEN "ran merged" ELSE "blocked"
      [] OTHER -> "ran edited"

\* What the contract promises, provider by provider.
LEMMA PromisedFact ==
    ASSUME NEW a \in Providers, NEW arg
    PROVE  /\ Promised(a, arg)["approve"] = "ran"
           /\ Promised(a, arg)["edited"] = EditEffect(a, arg)
           /\ Promised(a, arg)["deny"] = "blocked" /\ Promised(a, arg)["expired"] = "blocked"
<1>1. CASE a = "goose"
  BY <1>1 DEF Promised, Contract, EditEffect
<1>3. CASE a = "pi"
  BY <1>3 DEF Promised, Contract, EditEffect
<1>2. CASE a \notin {"goose", "pi"}
  BY <1>2 DEF Promised, Contract, EditEffect, GeminiContract, CopilotContract, OpenCodeContract, AmpContract
<1> QED
  BY <1>1, <1>2, <1>3

\* No decision at all.
Nought == ""

LEMMA NoughtFact == Silent = Out(Nought, 0) /\ Out("", 2) = Out(Nought, 2)
                    /\ Nought \notin {"deny", "expired", "edit", "edited", "torn"}
<1>1. Nought \notin {"deny", "expired", "edit", "edited", "torn"}
  BY Zenon DEF Nought
<1> QED
  BY <1>1 DEF Nought, Silent

\* What onibi-notify writes for each of them.
LEMMA WrittenFact ==
    ASSUME NEW a \in Providers, NEW arg
    PROVE  /\ a \in {"pi", "opencode", "amp"} => \A d : Printed(a, d) = Out(d, 0)
           /\ a \in {"claude", "codex", "gemini", "copilot", "goose"} =>
                 /\ Printed(a, "approve") \in {Out("allow", 0), Silent}
                 /\ Printed(a, "edited") = (IF a = "goose" THEN Out(Nought, 2) ELSE Out("edit", 0))
                 /\ Printed(a, "deny") \in {Out("deny", 0), Out("deny", 2), Out(Nought, 2)}
                 /\ Printed(a, "expired") \in {Out("deny", 0), Out("deny", 2), Out(Nought, 2)}
                 /\ Printed(a, "cancelled") = Silent
<1>1. CASE a \in {"claude", "codex"}
  BY <1>1 DEF Printed, HookSpecificResponse
<1>2. CASE a = "gemini"
  BY <1>2 DEF Printed, GeminiResponse
<1>3. CASE a = "copilot"
  BY <1>3 DEF Printed, CopilotResponse
<1>4. CASE a = "goose"
  BY <1>4 DEF Printed, GooseResponse, Nought
<1>5. CASE a \in {"pi", "opencode", "amp"}
  BY <1>5 DEF Printed
<1> QED
  BY <1>1, <1>2, <1>3, <1>4, <1>5 DEF Providers

\* What the providers and plugins make of it.
PluginEffect(a, arg, what) ==
    LET effects == Effects(a, arg, Out(what, 0)) IN
    /\ what \in {"deny", "expired"} => effects = {"blocked"}
    /\ what = "edited" => effects = {EditEffect(a, arg)}
    /\ what \notin {"deny", "expired", "edited", "torn"} => effects = {"ran"}
    /\ what = "torn" => effects \subseteq {"ran", "blocked"}

HookEffect(a, arg, what) ==
    /\ Effects(a, arg, Out(what, 2)) = {"blocked"}
    /\ what = "deny" => Effects(a, arg, Out(what, 0)) = {"blocked"}
    /\ what = "edit" => Effects(a, arg, Out(what, 0)) = {"ran edited"}
    /\ what \notin {"deny", "edit"} => Effects(a, arg, Out(what, 0)) = {"ran"}

LEMMA EffectOfPlugins ==
    ASSUME NEW a \in {"pi", "opencode", "amp"}, NEW arg, NEW what
    PROVE  PluginEffect(a, arg, what)
<1>1. Out(what, 0).stdout = what
  BY DEF Out
<1>2. CASE a = "pi"
  BY <1>1, <1>2 DEF Effects, PiExtension, EditEffect, PluginEffect
<1>3. CASE a = "opencode"
  BY <1>1, <1>3 DEF Effects, OpenCodePlugin, EditEffect, PluginEffect
<1>4. CASE a = "amp"
  BY <1>1, <1>4 DEF Effects, AmpPlugin, EditEffect, PluginEffect
<1> QED
  BY <1>2, <1>3, <1>4

LEMMA EffectOfHooks ==
    ASSUME NEW a \in {"claude", "codex", "gemini", "copilot", "goose"}, NEW arg, NEW what
    PROVE  HookEffect(a, arg, what)
<1>1. \A code : Out(what, code).stdout = what /\ Out(what, code).code = code
  BY DEF Out
<1>2. \A code : Effects(a, arg, Out(what, code)) = ProviderHook(Out(what, code))
  BY DEF Effects
<1>3. Effects(a, arg, Out(what, 2)) = {"blocked"}
  BY <1>1, <1>2 DEF ProviderHook
<1>4. 0 # 2
  OBVIOUS
<1>5. Effects(a, arg, Out(what, 0)) =
          IF what = "deny" THEN {"blocked"} ELSE IF what = "edit" THEN {"ran edited"} ELSE {"ran"}
  BY <1>1, <1>2, <1>4, Zenon DEF ProviderHook
<1> QED
  BY <1>3, <1>5 DEF HookEffect

\* An answer has the effect its decision is promised, and no answer has none.
LEMMA EffectsFact ==
    ASSUME NEW a \in Providers, NEW arg
    PROVE  /\ \A d \in Settled : Effects(a, arg, Printed(a, d)) = {Promised(a, arg)[d]}
           /\ \A o \in {Silent, Torn, Printed(a, "cancelled")} :
                 {"ran edited", "ran merged"} \cap Effects(a, arg, o) = {} /\ ("blocked" \in Effects(a, arg, o) => o.stdout = "torn")
<1>3. a \in {"pi", "opencode", "amp"} => \A what : PluginEffect(a, arg, what)
  BY EffectOfPlugins
<1>4. a \in {"claude", "codex", "gemini", "copilot", "goose"} => \A what : HookEffect(a, arg, what)
  <2> SUFFICES ASSUME a \in {"claude", "codex", "gemini", "copilot", "goose"}, NEW what
               PROVE  HookEffect(a, arg, what)
    BY Zenon
  <2> QED
    BY EffectOfHooks
<1>1. ASSUME NEW d \in Settled PROVE Effects(a, arg, Printed(a, d)) = {Promised(a, arg)[d]}
  <2>1. CASE a \in {"pi", "opencode", "amp"}
    <3>1. Printed(a, d) = Out(d, 0) /\ a # "goose"
      BY <2>1, WrittenFact
    <3>2. /\ Effects(a, arg, Out("approve", 0)) = {"ran"} /\ Effects(a, arg, Out("edited", 0)) = {EditEffect(a, arg)}
          /\ Effects(a, arg, Out("deny", 0)) = {"blocked"} /\ Effects(a, arg, Out("expired", 0)) = {"blocked"}
      BY <2>1, <1>3, Zenon DEF PluginEffect
    <3>3. CASE d = "approve"
      BY <3>1, <3>2, <3>3, PromisedFact
    <3>4. CASE d = "edited"
      BY <3>1, <3>2, <3>4, PromisedFact
    <3>5. CASE d = "deny"
      BY <3>1, <3>2, <3>5, PromisedFact
    <3>6. CASE d = "expired"
      BY <3>1, <3>2, <3>6, PromisedFact
    <3> QED
      BY <3>3, <3>4, <3>5, <3>6 DEF Settled
  <2>2. CASE a \in {"claude", "codex", "gemini", "copilot", "goose"}
    <3>1. CASE d = "approve"
      <4>1. Printed(a, d) \in {Out("allow", 0), Out(Nought, 0)}
        BY <2>2, <3>1, WrittenFact, NoughtFact
      <4>2. Effects(a, arg, Out("allow", 0)) = {"ran"} /\ Effects(a, arg, Out(Nought, 0)) = {"ran"}
        <5>1. "allow" \notin {"deny", "edit"} /\ Nought \notin {"deny", "edit"}
          BY NoughtFact
        <5> QED
          BY <2>2, <5>1, <1>4, Zenon DEF HookEffect
      <4> QED
        BY <3>1, <4>1, <4>2, PromisedFact
    <3>2. CASE d = "edited"
      <4>1. Effects(a, arg, Out(Nought, 2)) = {"blocked"} /\ Effects(a, arg, Out("edit", 0)) = {"ran edited"}
        BY <2>2, <1>4, Zenon DEF HookEffect
      <4>2. a = "goose" => EditEffect(a, arg) = "blocked"
        BY DEF EditEffect
      <4>3. a # "goose" => EditEffect(a, arg) = "ran edited"
        BY <2>2 DEF EditEffect
      <4> QED
        BY <2>2, <3>2, <4>1, <4>2, <4>3, WrittenFact, PromisedFact
    <3>3. CASE d \in {"deny", "expired"}
      <4>1. Printed(a, d) \in {Out("deny", 0), Out("deny", 2), Out(Nought, 2)}
        BY <2>2, <3>3, WrittenFact
      <4>2. /\ Effects(a, arg, Out("deny", 0)) = {"blocked"} /\ Effects(a, arg, Out("deny", 2)) = {"blocked"}
            /\ Effects(a, arg, Out(Nought, 2)) = {"blocked"}
        BY <2>2, <1>4, Zenon DEF HookEffect
      <4> QED
        BY <3>3, <4>1, <4>2, PromisedFact
    <3> QED
      BY <3>1, <3>2, <3>3 DEF Settled
  <2> QED
    BY <2>1, <2>2 DEF Providers
<1>2. ASSUME NEW o \in {Silent, Torn, Printed(a, "cancelled")}
      PROVE  {"ran edited", "ran merged"} \cap Effects(a, arg, o) = {} /\ ("blocked" \in Effects(a, arg, o) => o.stdout = "torn")
  <2>1. \/ o \in {Out(Nought, 0), Out("torn", 0)}
        \/ a \in {"pi", "opencode", "amp"} /\ o = Out("cancelled", 0)
    BY WrittenFact, NoughtFact DEF Torn, Providers
  <2>2. CASE o = Out("torn", 0)
    <3>1. o.stdout = "torn"
      BY <2>2 DEF Out
    <3>2. CASE a \in {"pi", "opencode", "amp"}
      <4>1. Effects(a, arg, o) \subseteq {"ran", "blocked"}
        BY <2>2, <3>2, <1>3, Zenon DEF PluginEffect
      <4> QED
        BY <3>1, <4>1
    <3>3. CASE a \in {"claude", "codex", "gemini", "copilot", "goose"}
      <4>1. "torn" \notin {"deny", "edit"}
        OBVIOUS
      <4>2. Effects(a, arg, o) = {"ran"}
        BY <2>2, <3>3, <4>1, <1>4, Zenon DEF HookEffect
      <4> QED
        BY <4>2
    <3> QED
      BY <3>2, <3>3 DEF Providers
  <2>3. CASE o = Out(Nought, 0)
    <3>1. a \in {"pi", "opencode", "amp"} => Effects(a, arg, o) = {"ran"}
      BY <2>3, NoughtFact, <1>3, Zenon DEF PluginEffect
    <3>2. a \in {"claude", "codex", "gemini", "copilot", "goose"} => Effects(a, arg, o) = {"ran"}
      BY <2>3, NoughtFact, <1>4, Zenon DEF HookEffect
    <3> QED
      BY <3>1, <3>2 DEF Providers
  <2>4. CASE a \in {"pi", "opencode", "amp"} /\ o = Out("cancelled", 0)
    <3>1. "cancelled" \notin {"deny", "expired", "edited", "torn"}
      OBVIOUS
    <3>2. Effects(a, arg, o) = {"ran"}
      BY <2>4, <3>1, <1>3, Zenon DEF PluginEffect
    <3> QED
      BY <3>2
  <2> QED
    BY <2>1, <2>2, <2>3, <2>4
<1> QED
  BY <1>1, <1>2

LEMMA GateInitHolds == GateInit => GateInv
BY DEF GateInit, GateInv, GateTypeOK, HandlerInv, OutputInv, UncutInv, Settled

\* Every step keeps the invariant of the call.
LEMMA GateNextHolds == GateInv /\ [GateNext]_gateVars => GateInv'
<1> SUFFICES ASSUME GateInv, [GateNext]_gateVars PROVE GateInv'
  OBVIOUS
<1>1. CASE Main
  BY <1>1 DEF Main, Exit, GateInv, GateTypeOK, HandlerInv, OutputInv, UncutInv
<1>2. CASE RunWait
  BY <1>2 DEF RunWait, Exit, GateInv, GateTypeOK, HandlerInv, OutputInv, UncutInv
<1>3. CASE Handle
  BY <1>3 DEF Handle, Reply, GateInv, GateTypeOK, HandlerInv, OutputInv, UncutInv, Settled
<1>4. CASE Decide
  BY <1>4 DEF Decide, GateInv, GateTypeOK, HandlerInv, OutputInv, UncutInv, Settled
<1>5. CASE Answer
  <2>1. reply' = IF row \in Settled THEN row ELSE "cancelled"
    BY <1>5 DEF Answer, Reply, ResponseForDecision, Settled
  <2> QED
    BY <1>5, <2>1 DEF Answer, Reply, GateInv, GateTypeOK, HandlerInv, OutputInv, UncutInv
<1>6. CASE AnswerShutdown
  BY <1>6 DEF AnswerShutdown, Reply, GateInv, GateTypeOK, HandlerInv, OutputInv, UncutInv, Settled
<1>7. CASE TakeReply
  BY <1>7 DEF TakeReply, Exit, GateInv, GateTypeOK, HandlerInv, OutputInv, UncutInv
<1>8. CASE HungUp
  BY <1>8 DEF HungUp, Exit, GateInv, GateTypeOK, HandlerInv, OutputInv, UncutInv
<1>9. CASE TimeOut
  BY <1>9 DEF TimeOut, Exit, GateInv, GateTypeOK, HandlerInv, OutputInv, UncutInv
<1>10. CASE ToolRuns
  <2>1. tool' \in {"ran", "ran edited", "ran merged", "blocked"}
    BY <1>10 DEF ToolRuns, Effects, PiExtension, OpenCodePlugin, AmpPlugin, ProviderHook
  <2>2. UNCHANGED <<caller, input, hook, output, row>> /\ hook = "done"
    BY <1>10 DEF ToolRuns
  <2>3. OutputInv'
    BY <1>10, <2>2 DEF ToolRuns, GateInv, OutputInv
  <2> QED
    BY <1>10, <2>1, <2>2, <2>3 DEF ToolRuns, GateInv, GateTypeOK, HandlerInv, UncutInv
<1>11. CASE StopDaemon
  BY <1>11 DEF StopDaemon, GateInv, GateTypeOK, HandlerInv, OutputInv, UncutInv
<1>12. CASE EndDaemon
  <2>1. /\ UNCHANGED <<caller, input, hook, output, reply, row, tool>>
        /\ cut' = TRUE /\ daemon' = "down" /\ handler' \in {handler, "none"}
    BY <1>12 DEF EndDaemon
  <2>2. OutputInv'
    BY <2>1 DEF GateInv, OutputInv
  <2> QED
    BY <2>1, <2>2 DEF GateInv, GateTypeOK, HandlerInv, UncutInv
<1>13. CASE BootDaemon
  BY <1>13 DEF BootDaemon, GateInv, GateTypeOK, HandlerInv, OutputInv, UncutInv
<1>14. CASE KillHook
  <2>1. /\ UNCHANGED <<caller, input, handler, reply, row, daemon, tool>> /\ tool = "held"
        /\ cut' = TRUE /\ hook' = "done" /\ output' \in {Silent, Torn}
    BY <1>14 DEF KillHook, Exit, Torn, GateInv, OutputInv
  <2>2. OutputInv'
    BY <2>1 DEF OutputInv
  <2> QED
    BY <2>1, <2>2 DEF GateInv, GateTypeOK, HandlerInv, UncutInv
<1>15. CASE UNCHANGED gateVars
  <2>1. OutputInv'
    BY <1>15 DEF gateVars, GateInv, OutputInv
  <2>2. GateTypeOK'
    <3>1. (caller \in Providers)' /\ (hook \in {"start", "ready", "waiting", "done"})'
      BY <1>15, Zenon DEF gateVars, GateInv, GateTypeOK
    <3>2. (handler \in {"none", "reading", "waiting", "replied"})' /\ (reply \in Settled \cup {"cancelled"})'
      BY <1>15, Zenon DEF gateVars, GateInv, GateTypeOK
    <3>3. (row \in Settled \cup {"none", "pending", "cancelled"})' /\ (daemon \in {"up", "stopping", "down"})'
      BY <1>15, Zenon DEF gateVars, GateInv, GateTypeOK
    <3>4. (cut \in BOOLEAN)' /\ (input \in {"object", "missing"})'
      BY <1>15, Zenon DEF gateVars, GateInv, GateTypeOK
    <3>5. (tool \in {"held", "ran", "ran edited", "ran merged", "blocked"})'
      BY <1>15, Zenon DEF gateVars, GateInv, GateTypeOK
    <3> QED
      BY <3>1, <3>2, <3>3, <3>4, <3>5 DEF GateTypeOK
  <2>5. HandlerInv'
    BY <1>15, Zenon DEF gateVars, GateInv, HandlerInv
  <2>3. Printed(caller, row)' = Printed(caller, row)
    BY <1>15 DEF gateVars
  <2>4. UncutInv'
    BY <1>15, <2>3 DEF gateVars, GateInv, UncutInv
  <2> QED
    BY <2>1, <2>2, <2>4, <2>5 DEF GateInv
<1> QED
  BY <1>1, <1>2, <1>3, <1>4, <1>5, <1>6, <1>7, <1>8, <1>9, <1>10, <1>11, <1>12, <1>13, <1>14,
     <1>15 DEF GateNext

\* The call met the decision, and was not touched without one.
LEMMA GateKeepsContract == GateInv => ContractHolds
<1> SUFFICES ASSUME GateInv, tool # "held" PROVE ContractHolds
  BY DEF ContractHolds
<1>1. /\ caller \in Providers /\ hook = "done" /\ tool \in Effects(caller, input, output)
      /\ \/ output \in {Silent, Torn, Printed(caller, "cancelled")}
         \/ row \in Settled /\ output = Printed(caller, row)
      /\ row # "none" /\ ~cut => row \in Settled /\ output = Printed(caller, row)
  BY DEF GateInv, GateTypeOK, OutputInv, UncutInv
<1>2. ASSUME row \in Settled, output = Printed(caller, row)
      PROVE  /\ tool = Promised(caller, input)[row] /\ row # "pending"
             /\ tool \in {"ran edited", "ran merged"} => row = "edited"
             /\ tool = "blocked" =>
                   \/ row \in {"deny", "expired"}
                   \/ row = "edited" /\ (caller = "goose" \/ (caller = "pi" /\ input = "missing"))
  <2>1. Effects(caller, input, Printed(caller, row)) = {Promised(caller, input)[row]}
    BY <1>1, <1>2, EffectsFact
  <2>2. tool = Promised(caller, input)[row]
    BY <1>1, <1>2, <2>1
  <2> QED
    BY <1>1, <1>2, <2>2, PromisedFact DEF Settled, EditEffect, GateInv, GateTypeOK
<1>3. ASSUME output \in {Silent, Torn, Printed(caller, "cancelled")}
      PROVE  tool \notin {"ran edited", "ran merged"} /\ (tool = "blocked" => output.stdout = "torn")
  BY <1>1, <1>3, EffectsFact
<1> QED
  BY <1>1, <1>2, <1>3 DEF ContractHolds

\* A provider adapter, whatever is run, edited and cut off: one hook per event,
\* installs that inspect finds in order, and calls that meet their decisions.
THEOREM AdaptersKeepContract == HookSpec /\ GateSpec => []AdapterSafe
<1>1. HookInv => OneHookPerEvent /\ InstallTakes
  BY OneHook, InstallInOrder
<1>2. HookSpec => []HookInv
  BY InitHolds, HookNextHolds, PTL DEF HookSpec
<1>3. GateSpec => []GateInv
  BY GateInitHolds, GateNextHolds, PTL DEF GateSpec
<1>4. OneHookPerEvent /\ InstallTakes /\ ContractHolds => AdapterSafe
  BY DEF AdapterSafe
<1> QED
  BY <1>1, <1>2, <1>3, <1>4, GateKeepsContract, PTL
=============================================================================
