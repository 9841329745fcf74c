---------------------------- MODULE ServiceProofs ----------------------------
(***************************************************************************)
(* What the service tells of a device, where it puts it and what the       *)
(* device models API answers, for any messages, places, strengths,         *)
(* calibration, models, pages and batches: all nine promises of Service.   *)
(*                                                                         *)
(* The code's loops are folds here.  What a fold over a finite set returns *)
(* is found by induction over its subsets (SubsetInduction), kept as a set *)
(* of sets so that the provers can use it; a loop over a list is a fold    *)
(* over its indices from the last one (Rounds).                            *)
(*                                                                         *)
(* An estimate needs no history: only that a gateway is a known place and  *)
(* signal (GatewaysKnown).  A listing does: between two requests of one    *)
(* listing RequestsInv keeps what was read so far, and Sorted gives each   *)
(* request the same list, whatever order the map is walked in.             *)
(*                                                                         *)
(* What is told of a device needs neither its bytes nor its readings: each *)
(* loop over a profile's definitions keeps some of them in order           *)
(* (ReadingsAreNamed), and ToldInv carries that from step to step.  The    *)
(* position in a message is read twice; FixInv follows it from the one     *)
(* reading to the other.                                                   *)
(*                                                                         *)
(* What becomes of a message is followed in three invariants: RoutedInv    *)
(* (where a message of each kind may be), PublishedInv (what is published  *)
(* of an uplink is what its profile makes of it) and ApiInv.  What a       *)
(* message is comes in as a hypothesis about the message alone.  Of one    *)
(* cut short the decoder's walk is the beginning of its walk over the      *)
(* whole message (CutIsWalked).                                            *)
(***************************************************************************)
EXTENDS Service, FiniteSetTheorems, SequenceTheorems, WellFoundedInduction, TLAPS

-----------------------------------------------------------------------------
\* Folds over a finite set.

\* Every set of naturals has a least element.
LEMMA Least ==
    ASSUME NEW T \in SUBSET Nat, T # {}
    PROVE  \E n \in T : \A m \in T : n <= m
  <1>1. IsWellFoundedOn(OpToRel(<, Nat), Nat)
    BY NatLessThanWellFounded
  <1>2. PICK n \in T : \A m \in T : ~(<<m, n>> \in OpToRel(<, Nat))
    BY <1>1, WFMin
  <1>3. \A m \in T : m < n => <<m, n>> \in OpToRel(<, Nat)
    BY DEF OpToRel
  <1>4. \A m \in T : ~(m < n)
    BY <1>2, <1>3, Zenon
  <1>5. n \in Nat /\ \A m \in T : m \in Nat
    OBVIOUS
  <1> QED
    BY <1>4, <1>5

\* c[t] is the element that a fold over the set t takes first.
Chooses(c, D) == \A t \in SUBSET D : t # {} => c[t] \in t

\* What holds of {} and passes from a set without its first element to the set.
Inductive(Q, c, D) == {} \in Q /\ \A t \in SUBSET D : t # {} /\ t \ {c[t]} \in Q => t \in Q

\* What holds of {}, and of a set if it holds of it without its first element.
LEMMA SubsetInduction ==
    ASSUME NEW D, IsFiniteSet(D), NEW c, Chooses(c, D), NEW Q, Inductive(Q, c, D)
    PROVE  SUBSET D \subseteq Q
  <1> SUFFICES ASSUME ~(SUBSET D \subseteq Q) PROVE FALSE
    OBVIOUS
  <1> DEFINE T == {Cardinality(t) : t \in (SUBSET D) \ Q}
  <1>1. \A t \in SUBSET D : IsFiniteSet(t) /\ Cardinality(t) \in Nat
    BY FS_Subset, FS_CardinalityType
  <1>2. T \in SUBSET Nat /\ T # {}
    BY <1>1
  <1>3. PICK n \in T : \A m \in T : n <= m
    BY <1>2, Least
  <1>4. PICK t \in (SUBSET D) \ Q : n = Cardinality(t)
    OBVIOUS
  <1>5. t # {} /\ c[t] \in t
    BY <1>4 DEF Chooses, Inductive
  <1>6. Cardinality(t \ {c[t]}) = n - 1 /\ t \ {c[t]} \in SUBSET D
    BY <1>1, <1>4, <1>5, FS_RemoveElement
  <1>7. t \ {c[t]} \in Q
    <2>1. n \in Nat
      BY <1>1, <1>4
    <2> QED
      BY <1>3, <1>6, <2>1
  <1> QED
    BY <1>4, <1>5, <1>7 DEF Inductive

\* iter[t] is what folding G over t gives, starting from base with the elements in the order of c.
FoldsTo(iter, D, c, V, base, G) ==
    /\ iter \in [SUBSET D -> V]
    /\ \A t \in SUBSET D : iter[t] = IF t = {} THEN base ELSE G[c[t]][iter[t \ {c[t]}]]

\* The function by which a fold is defined exists.
LEMMA FoldsExist ==
    ASSUME NEW D, IsFiniteSet(D), NEW c, Chooses(c, D), NEW V, NEW base \in V,
           NEW G \in [D -> [V -> V]]
    PROVE  \E iter : FoldsTo(iter, D, c, V, base, G)
  <1> DEFINE Next1(iter) == [t \in SUBSET D |-> IF t = {} THEN base
                                               ELSE G[c[t]][iter[t \ {c[t]}]]]
             Good(iter, k) == \A t \in SUBSET D : Cardinality(t) <= k => iter[t] = Next1(iter)[t]
             Short == {k \in Nat : ~\E iter \in [SUBSET D -> V] : Good(iter, k)}
  <1>1. \A t \in SUBSET D : IsFiniteSet(t) /\ Cardinality(t) \in Nat
    BY FS_Subset, FS_CardinalityType
  <1>2. ASSUME NEW iter \in [SUBSET D -> V] PROVE Next1(iter) \in [SUBSET D -> V]
    <2>1. \A t \in SUBSET D : t # {} => c[t] \in D /\ t \ {c[t]} \in SUBSET D
      BY DEF Chooses
    <2> QED
      BY <1>2, <2>1
  <1>3. Short = {}
    <2> SUFFICES ASSUME Short # {} PROVE FALSE
      OBVIOUS
    <2>1. PICK k \in Short : \A m \in Short : k <= m
      <3>1. Short \in SUBSET Nat
        OBVIOUS
      <3> HIDE DEF Short
      <3> QED
        BY <3>1, Least
    <2>2. k # 0
      <3>1. ASSUME k = 0 PROVE \E iter \in [SUBSET D -> V] : Good(iter, k)
        <4>1. PICK iter \in [SUBSET D -> V] : iter = [t \in SUBSET D |-> base]
          OBVIOUS
        <4>2. ASSUME NEW t \in SUBSET D, Cardinality(t) <= 0 PROVE iter[t] = Next1(iter)[t]
          <5>1. t = {}
            BY <1>1, <4>2, FS_EmptySet
          <5> QED
            BY <4>1, <5>1
        <4> QED
          BY <3>1, <4>2
      <3> QED
        BY <3>1
    <2>3. k - 1 \in Nat /\ k - 1 \notin Short
      <3>1. k \in Nat
        BY <2>1
      <3> HIDE DEF Short
      <3> QED
        BY <2>1, <2>2, <3>1
    <2>4. PICK iter \in [SUBSET D -> V] : Good(iter, k - 1)
      BY <2>3
    <2>5. ASSUME NEW t \in SUBSET D, Cardinality(t) <= k
          PROVE  Next1(iter)[t] = Next1(Next1(iter))[t]
      <3>1. CASE t = {}
        BY <3>1
      <3>2. CASE t # {}
        <4>1. PICK s \in SUBSET D : s = t \ {c[t]}
          OBVIOUS
        <4>2. Cardinality(s) <= k - 1
          <5>1. Cardinality(s) = Cardinality(t) - 1
            BY <1>1, <3>2, <4>1, FS_RemoveElement DEF Chooses
          <5> QED
            BY <1>1, <2>3, <2>5, <5>1
        <4>3. iter[s] = Next1(iter)[s]
          BY <2>4, <4>2
        <4> QED
          BY <3>2, <4>1, <4>3
      <3> QED
        BY <3>1, <3>2
    <2> QED
      BY <1>2, <2>4, <2>5
  <1>4. Cardinality(D) \in Nat /\ \A t \in SUBSET D : Cardinality(t) <= Cardinality(D)
    BY FS_Subset, FS_CardinalityType
  <1>5. PICK iter \in [SUBSET D -> V] : Good(iter, Cardinality(D))
    BY <1>3, <1>4
  <1>6. iter = Next1(iter)
    BY <1>2, <1>4, <1>5
  <1> QED
    BY <1>5, <1>6 DEF FoldsTo

-----------------------------------------------------------------------------
\* Extremes of a set, and the gateways.

\* Every finite set of integers that is not empty has a greatest and a least element.
LEMMA Extremes ==
    ASSUME NEW S \in SUBSET Int, IsFiniteSet(S), S # {}
    PROVE  /\ Max(S) \in S /\ \A x \in S : Max(S) >= x
           /\ Min(S) \in S /\ \A x \in S : Min(S) <= x
  <1> DEFINE Bounded == {t \in SUBSET S : t = {} \/ \E hi, lo \in t : \A x \in t : lo <= x /\ x <= hi}
  <1>1. PICK c : c = [t \in SUBSET S |-> CHOOSE x \in t : TRUE]
    OBVIOUS
  <1>2. Chooses(c, S)
    BY <1>1 DEF Chooses
  <1>3. ASSUME NEW t \in SUBSET S, t # {}, t \ {c[t]} \in Bounded PROVE t \in Bounded
    <2>1. PICK a \in t : a = c[t]
      BY <1>2, <1>3 DEF Chooses
    <2>2. CASE t \ {a} = {}
      <3>1. \A x \in t : a <= x /\ x <= a
        BY <2>2
      <3> QED
        BY <3>1
    <2>3. CASE t \ {a} # {}
      <3>1. PICK hi, lo \in t : \A x \in t \ {a} : lo <= x /\ x <= hi
        BY <1>3, <2>1, <2>3
      <3>2. PICK h, l \in t : h \in {hi, a} /\ l \in {lo, a} /\ h >= hi /\ h >= a /\ l <= lo /\ l <= a
        OBVIOUS
      <3>3. \A x \in t : l <= x /\ x <= h
        BY <3>1, <3>2
      <3> QED
        BY <3>3
    <2> QED
      BY <2>2, <2>3
  <1>4. {} \in Bounded
    OBVIOUS
  <1>5. SUBSET S \subseteq Bounded
    <2>1. PICK Q : Q = Bounded
      OBVIOUS
    <2>2. Inductive(Q, c, S)
      BY <1>3, <1>4, <2>1 DEF Inductive
    <2>3. SUBSET S \subseteq Q
      BY <1>2, <2>2, SubsetInduction
    <2> QED
      BY <2>1, <2>3
  <1>6. \E hi, lo \in S : \A x \in S : lo <= x /\ x <= hi
    BY <1>5
  <1> QED
    BY <1>6 DEF Max, Min

\* What a gateway says when it hears the device.
Hearings == [x : Places, rssi : Signals]
GatewaysKnown == gateways \in Seq(Hearings)

\* Products keep the order, and the sign of a difference of squares.
LEMMA Products ==
    /\ \A a, b, c \in Nat : a <= b => c * a <= c * b /\ a * c <= b * c
    /\ \A a, b \in Nat : a * b \in Nat
    /\ \A a, b \in Int : a * b \in Int
  OBVIOUS

\* Every radius is a distance, and every gateway a known place and signal.
LEMMA RadiiKnown ==
    ASSUME NEW gws \in Seq(Hearings)
    PROVE  /\ minExpansionNeeded(gws) \in Nat
           /\ \A n \in DOMAIN gws : /\ expandRadii(gws)[n] \in Nat
                                    /\ gws[n].x \in Int /\ gws[n].rssi \in Signals
                                    /\ findDistance[gws[n].rssi] \in Nat \ {0}
                                    /\ Strength[gws[n].rssi] \in Nat \ {0}
  <1>1. \A n \in DOMAIN gws : /\ gws[n].x \in Int /\ gws[n].rssi \in Signals /\ gws[n].rssi \in Int
                              /\ findDistance[gws[n].rssi] \in Nat \ {0}
                              /\ Strength[gws[n].rssi] \in Nat \ {0}
    <2>1. \A g \in Hearings : g.x \in Int /\ g.rssi \in Signals /\ g.rssi \in Int
      BY SignalAssumption DEF Hearings
    <2>2. \A signal \in Signals : /\ findDistance[signal] \in Nat \ {0}
                                  /\ Strength[signal] \in Nat \ {0}
      BY SignalAssumption
    <2>3. \A n \in DOMAIN gws : gws[n] \in Hearings
      OBVIOUS
    <2> QED
      BY <2>1, <2>2, <2>3
  <1>2. minExpansionNeeded(gws) \in Nat
    <2> DEFINE sum(p) == findDistance[gws[p[1]].rssi] + findDistance[gws[p[2]].rssi]
               gap(p) == Apart(gws[p[1]], gws[p[2]])
               far == {q \in Pairs(gws) : gap(q) > sum(q)}
               needed == {(gap(p) * 1100) \div sum(p) : p \in far}
    <2>1. \A p \in Pairs(gws) : gap(p) \in Nat /\ sum(p) \in Nat \ {0}
      <3>1. ASSUME NEW n \in DOMAIN gws, NEW m \in DOMAIN gws
            PROVE  /\ Apart(gws[n], gws[m]) \in Nat
                   /\ findDistance[gws[n].rssi] + findDistance[gws[m].rssi] \in Nat \ {0}
        <4>1. gws[n].x \in Int /\ gws[m].x \in Int
          BY <1>1
        <4>2. findDistance[gws[n].rssi] \in Nat \ {0} /\ findDistance[gws[m].rssi] \in Nat \ {0}
          BY <1>1
        <4>3. Apart(gws[n], gws[m]) \in Nat
          BY <4>1 DEF Apart, Size
        <4>4. findDistance[gws[n].rssi] + findDistance[gws[m].rssi] \in Nat \ {0}
          BY <4>2
        <4> QED
          BY <4>3, <4>4
      <3>2. \A p \in Pairs(gws) : p[1] \in DOMAIN gws /\ p[2] \in DOMAIN gws
        BY DEF Pairs
      <3> QED
        BY <3>1, <3>2
    <2>2. needed \in SUBSET Nat
      <3>1. \A a \in Nat, b \in Nat \ {0} : (a * 1100) \div b \in Nat
        OBVIOUS
      <3>2. far \subseteq Pairs(gws)
        OBVIOUS
      <3> HIDE DEF sum, gap, far
      <3> QED
        BY <2>1, <3>1, <3>2
    <2>3. IsFiniteSet(needed)
      <3>1. IsFiniteSet(DOMAIN gws)
        BY FS_Interval
      <3>2. IsFiniteSet(far)
        BY <3>1, FS_Product, FS_Subset DEF Pairs
      <3>3. PICK f : f = [p \in far |-> (gap(p) * 1100) \div sum(p)]
        OBVIOUS
      <3> HIDE DEF far, gap, sum
      <3>4. needed = {f[p] : p \in far}
        BY <3>3
      <3>5. IsFiniteSet({f[p] : p \in far})
        <4>1. f \in Surjection(far, {f[p] : p \in far})
          BY <3>3 DEF Surjection
        <4> QED
          BY <3>2, <4>1, FS_Surjection
      <3> QED
        BY <3>4, <3>5
    <2>4. expansions(gws) \in SUBSET Nat /\ IsFiniteSet(expansions(gws))
      BY <2>2, <2>3 DEF expansions
    <2>5. Max({1000} \cup expansions(gws)) \in Nat
      <3>1. PICK T : T = expansions(gws) \cup {1000}
        OBVIOUS
      <3>2. IsFiniteSet(T) /\ T \in SUBSET Nat /\ T \in SUBSET Int /\ T # {}
        BY <2>4, <3>1, FS_AddElement
      <3>3. Max(T) \in T
        BY <3>2, Extremes
      <3>4. T = {1000} \cup expansions(gws)
        BY <3>1
      <3> QED
        BY <3>2, <3>3, <3>4
    <2>6. ASSUME NEW m \in Nat PROVE Min({3000, m}) \in Nat
      <3>1. PICK x \in {3000, m} : \A y \in {3000, m} : x <= y
        <4>1. 3000 <= m \/ m <= 3000
          OBVIOUS
        <4> QED
          BY <4>1
      <3>2. Min({3000, m}) \in {3000, m}
        BY <3>1 DEF Min
      <3> QED
        BY <3>2
    <2>7. PICK m \in Nat : m = Max({1000} \cup expansions(gws))
      BY <2>5
    <2>8. minExpansionNeeded(gws) = Min({3000, m})
      BY <2>7 DEF minExpansionNeeded
    <2> QED
      BY <2>6, <2>8
  <1>3. \A signal \in Int : adaptiveFactor(signal) \in Nat
    BY DEF adaptiveFactor
  <1>4. \A a, b, k \in Nat : (a * ((k * b) \div 1000)) \div 1000 \in Nat
    OBVIOUS
  <1>5. \A n \in DOMAIN gws : expandRadii(gws)[n] \in Nat
    <2>1. PICK k \in Nat : k = minExpansionNeeded(gws)
      BY <1>2
    <2>2. ASSUME NEW n \in DOMAIN gws PROVE expandRadii(gws)[n] \in Nat
      <3>1. PICK a \in Nat, b \in Nat : a = findDistance[gws[n].rssi] /\ b = adaptiveFactor(gws[n].rssi)
        BY <1>1, <1>3
      <3>2. expandRadii(gws)[n] = (a * ((k * b) \div 1000)) \div 1000
        BY <2>1, <3>1 DEF expandRadii
      <3> QED
        BY <1>4, <3>2
    <2> QED
      BY <2>2
  <1> QED
    BY <1>1, <1>2, <1>5

-----------------------------------------------------------------------------
\* Loops over a list.

\* Induction up to a number.
LEMMA UpTo ==
    ASSUME NEW N \in Nat, NEW Q, 0 \in Q, \A i \in 0 .. N - 1 : i \in Q => i + 1 \in Q
    PROVE  0 .. N \subseteq Q
  <1> SUFFICES ASSUME ~(0 .. N \subseteq Q) PROVE FALSE
    OBVIOUS
  <1>1. PICK T : T = (0 .. N) \ Q
    OBVIOUS
  <1>2. T \in SUBSET Nat /\ T # {}
    BY <1>1
  <1>3. PICK n \in T : \A m \in T : n <= m
    BY <1>2, Least
  <1>4. n \in 0 .. N /\ n \notin Q /\ n # 0
    BY <1>1
  <1>5. n - 1 \in 0 .. N - 1 /\ n - 1 \in Q
    <2>1. n - 1 \in 0 .. N - 1
      BY <1>4
    <2>2. n - 1 \notin T
      BY <1>3, <1>4
    <2> QED
      BY <1>1, <1>4, <2>1, <2>2
  <1> QED
    BY <1>4, <1>5

\* What a loop over a sequence has after so many rounds.
Rounds(f, N, V, base, G) ==
    /\ f \in [0 .. N -> V] /\ f[0] = base
    /\ \A i \in 0 .. N - 1 : f[i + 1] = G[i + 1][f[i]]

\* The last index of a part of a list.
LastOf(s) == [t \in SUBSET DOMAIN s |-> Max(t)]

\* The last index of a list comes off first.
LEMMA LastIsMax ==
    ASSUME NEW X, NEW s \in Seq(X)
    PROVE  /\ Chooses(LastOf(s), DOMAIN s)
           /\ \A i \in DOMAIN s : 1 .. i \in SUBSET DOMAIN s /\ LastOf(s)[1 .. i] = i
                                  /\ (1 .. i) \ {i} = 1 .. i - 1
  <1>1. DOMAIN s = 1 .. Len(s) /\ Len(s) \in Nat /\ IsFiniteSet(DOMAIN s)
    BY FS_Interval
  <1>2. ASSUME NEW t \in SUBSET DOMAIN s, t # {} PROVE Max(t) \in t /\ \A x \in t : Max(t) >= x
    <2>1. t \in SUBSET Int /\ IsFiniteSet(t)
      BY <1>1, FS_Subset
    <2> QED
      BY <1>2, <2>1, Extremes
  <1>3. ASSUME NEW i \in DOMAIN s
        PROVE  1 .. i \in SUBSET DOMAIN s /\ LastOf(s)[1 .. i] = i /\ (1 .. i) \ {i} = 1 .. i - 1
    <2>1. i \in Int /\ 1 <= i /\ i <= Len(s)
      BY <1>1
    <2>2. 1 .. i \in SUBSET DOMAIN s /\ 1 .. i # {} /\ i \in 1 .. i
      BY <1>1, <2>1
    <2>3. PICK m \in 1 .. i : m = Max(1 .. i) /\ m >= i
      BY <1>2, <2>2
    <2>4. Max(1 .. i) = i
      BY <2>1, <2>3
    <2>5. (1 .. i) \ {i} = 1 .. i - 1
      BY <2>1
    <2> QED
      BY <2>2, <2>4, <2>5 DEF LastOf
  <1>4. Chooses(LastOf(s), DOMAIN s)
    BY <1>2 DEF Chooses, LastOf
  <1> QED
    BY <1>3, <1>4

\* A fold over the indices of a list goes round by round.
LEMMA RoundsOf ==
    ASSUME NEW X, NEW s \in Seq(X), NEW V, NEW base \in V, NEW G, NEW iter,
           FoldsTo(iter, DOMAIN s, LastOf(s), V, base, G)
    PROVE  \E f : Rounds(f, Len(s), V, base, G) /\ f[Len(s)] = iter[DOMAIN s]
  <1>1. DOMAIN s = 1 .. Len(s) /\ Len(s) \in Nat
    OBVIOUS
  <1>2. PICK N \in Nat : N = Len(s)
    BY <1>1
  <1>3. PICK f : f = [i \in 0 .. N |-> iter[1 .. i]]
    OBVIOUS
  <1>4. ASSUME NEW i \in 0 .. N PROVE 1 .. i \in SUBSET DOMAIN s /\ iter[1 .. i] \in V
    BY <1>1, <1>2 DEF FoldsTo
  <1>5. f \in [0 .. N -> V]
    BY <1>3, <1>4
  <1>6. f[0] = base
    <2>1. 1 .. 0 = {} /\ 0 \in 0 .. N
      BY <1>2
    <2> QED
      BY <1>3, <2>1 DEF FoldsTo
  <1>7. ASSUME NEW i \in 0 .. N - 1 PROVE f[i + 1] = G[i + 1][f[i]]
    <2>1. PICK j \in DOMAIN s : j = i + 1
      BY <1>1, <1>2
    <2>2. 1 .. j \in SUBSET DOMAIN s /\ LastOf(s)[1 .. j] = j /\ (1 .. j) \ {j} = 1 .. i /\ 1 .. j # {}
      <3>1. j - 1 = i /\ j \in 1 .. j
        BY <1>1, <2>1
      <3> QED
        BY <2>1, <3>1, LastIsMax
    <2>3. iter[1 .. j] = G[j][iter[1 .. i]]
      BY <2>2 DEF FoldsTo
    <2>4. f[j] = iter[1 .. j] /\ f[i] = iter[1 .. i]
      BY <1>1, <1>2, <1>3, <2>1
    <2> QED
      BY <2>1, <2>3, <2>4
  <1>8. f[N] = iter[DOMAIN s]
    BY <1>1, <1>2, <1>3
  <1> QED
    BY <1>2, <1>5, <1>6, <1>7, <1>8 DEF Rounds

-----------------------------------------------------------------------------
\* What a loop keeps.

\* A function that is defined as a fold is one.
LEMMA IsAFold ==
    ASSUME NEW D, IsFiniteSet(D), NEW c, Chooses(c, D), NEW V, NEW base \in V,
           NEW G \in [D -> [V -> V]],
           NEW it, it = [t \in SUBSET D |-> it[t]], it[{}] = base,
           \A t \in SUBSET D : t # {} /\ it[t \ {c[t]}] \in V => it[t] = G[c[t]][it[t \ {c[t]}]]
    PROVE  FoldsTo(it, D, c, V, base, G)
  <1>1. PICK Q : Q = {t \in SUBSET D : it[t] \in V}
    OBVIOUS
  <1>2. ASSUME NEW t \in SUBSET D, t # {}
        PROVE  c[t] \in D /\ t \ {c[t]} \in SUBSET D
    BY <1>2 DEF Chooses
  <1>3. ASSUME NEW t \in SUBSET D, t # {}, t \ {c[t]} \in Q PROVE t \in Q
    <2>1. PICK v \in V : v = it[t \ {c[t]}]
      BY <1>1, <1>3
    <2>2. it[t] = G[c[t]][v]
      BY <1>3, <2>1
    <2>3. G[c[t]][v] \in V
      BY <1>2, <1>3
    <2> QED
      BY <1>1, <2>2, <2>3
  <1>4. Inductive(Q, c, D)
    BY <1>1, <1>3 DEF Inductive
  <1>5. \A t \in SUBSET D : it[t] \in V
    BY <1>1, <1>4, SubsetInduction
  <1> QED
    BY <1>2, <1>5 DEF FoldsTo

\* Appending adds one element, and repeats none if it is new.
LEMMA AppendedIs ==
    ASSUME NEW X, NEW v \in Seq(X), NEW x \in X
    PROVE  /\ ToSet(Append(v, x)) = ToSet(v) \cup {x}
           /\ IsInjective(v) /\ x \notin ToSet(v) => IsInjective(Append(v, x))
  <1>1. PICK w : w = Append(v, x)
    OBVIOUS
  <1>2. PICK n \in Nat : n = Len(v)
    OBVIOUS
  <1>3. DOMAIN v = 1 .. n /\ DOMAIN w = (1 .. n) \cup {n + 1} /\ w[n + 1] = x
    BY <1>1, <1>2
  <1>4. \A k \in 1 .. n : w[k] = v[k]
    BY <1>1, <1>2
  <1>5. ToSet(w) = ToSet(v) \cup {x}
    BY <1>3, <1>4 DEF ToSet
  <1>6. ASSUME IsInjective(v), x \notin ToSet(v) PROVE IsInjective(w)
    BY <1>3, <1>4, <1>6 DEF IsInjective, ToSet
  <1> QED
    BY <1>1, <1>5, <1>6

\* f[i] is what is kept of the first i.
KeptOf(f, s, S, X) ==
    /\ f \in [0 .. Len(s) -> Seq(X)]
    /\ f[0] = <<>> /\ f[Len(s)] = Filtered(s, S)
    /\ \A i \in DOMAIN s : f[i] = IF s[i] \in S THEN Append(f[i - 1], s[i]) ELSE f[i - 1]

\* Filtering goes round by round (getDeviceModels).
LEMMA FilteredRounds ==
    ASSUME NEW X, NEW s \in Seq(X), NEW S
    PROVE  \E f : KeptOf(f, s, S, X)
  <1> DEFINE D == DOMAIN s
             Eq(iter) == iter = [t \in SUBSET D |->
                            IF t = {} THEN <<>>
                            ELSE IF s[Max(t)] \in S
                                 THEN Append(iter[t \ {Max(t)}], s[Max(t)])
                                 ELSE iter[t \ {Max(t)}]]
             It == CHOOSE iter : Eq(iter)
  <1>1. Filtered(s, S) = It[D]
    BY DEF Filtered, FoldLeft, MapThenFoldSet
  <1>2. D = 1 .. Len(s) /\ IsFiniteSet(D) /\ Len(s) \in Nat /\ \A i \in D : s[i] \in X
    BY FS_Interval
  <1>3. PICK c : c = LastOf(s)
    OBVIOUS
  <1>4. Chooses(c, D) /\ \A t \in SUBSET D : c[t] = Max(t)
    BY <1>3, LastIsMax DEF LastOf
  <1>5. PICK V : V = Seq(X)
    OBVIOUS
  <1>6. PICK G : G = [i \in D |-> [v \in V |-> IF s[i] \in S THEN Append(v, s[i]) ELSE v]]
    OBVIOUS
  <1>7. G \in [D -> [V -> V]] /\ <<>> \in V
    BY <1>2, <1>5, <1>6
  <1>8. \E iter : Eq(iter)
    <2>1. PICK iter : FoldsTo(iter, D, c, V, <<>>, G)
      BY <1>2, <1>4, <1>7, FoldsExist
    <2>2. ASSUME NEW t \in SUBSET D
          PROVE  iter[t] = IF t = {} THEN <<>>
                           ELSE IF s[Max(t)] \in S
                                THEN Append(iter[t \ {Max(t)}], s[Max(t)])
                                ELSE iter[t \ {Max(t)}]
      <3>1. CASE t = {}
        BY <2>1, <3>1 DEF FoldsTo
      <3>2. CASE t # {}
        <4>1. c[t] = Max(t) /\ Max(t) \in D /\ t \ {Max(t)} \in SUBSET D
          BY <1>4, <3>2 DEF Chooses
        <4>2. iter[t \ {Max(t)}] \in V /\ iter[t] = G[Max(t)][iter[t \ {Max(t)}]]
          BY <2>1, <3>2, <4>1 DEF FoldsTo
        <4> QED
          BY <1>6, <3>2, <4>1, <4>2
      <3> QED
        BY <3>1, <3>2
    <2>3. iter = [t \in SUBSET D |-> iter[t]]
      BY <2>1 DEF FoldsTo
    <2> QED
      BY <2>2, <2>3
  <1>9. PICK it : it = It
    OBVIOUS
  <1>10. Eq(it)
    BY <1>8, <1>9
  <1>11. FoldsTo(it, D, c, V, <<>>, G)
    <2>1. it = [t \in SUBSET D |-> it[t]]
      BY <1>10
    <2>2. it[{}] = <<>>
      BY <1>10
    <2>3. ASSUME NEW t \in SUBSET D, t # {}, it[t \ {c[t]}] \in V
          PROVE  it[t] = G[c[t]][it[t \ {c[t]}]]
      <3>1. c[t] = Max(t) /\ Max(t) \in D
        BY <1>4, <2>3 DEF Chooses
      <3>2. it[t] = IF s[Max(t)] \in S THEN Append(it[t \ {Max(t)}], s[Max(t)])
                    ELSE it[t \ {Max(t)}]
        BY <1>10, <2>3
      <3> QED
        BY <1>6, <2>3, <3>1, <3>2
    <2> HIDE DEF Eq, D, It
    <2> QED
      BY <1>2, <1>4, <1>7, <2>1, <2>2, <2>3, IsAFold
  <1>12. PICK f : Rounds(f, Len(s), V, <<>>, G) /\ f[Len(s)] = it[D]
    BY <1>3, <1>7, <1>11, RoundsOf
  <1>13. PICK N \in Nat : N = Len(s)
    BY <1>2
  <1>14. f \in [0 .. N -> V] /\ f[0] = <<>> /\ f[N] = Filtered(s, S)
    <2>1. f \in [0 .. N -> V] /\ f[0] = <<>>
      BY <1>12, <1>13 DEF Rounds
    <2> QED
      BY <2>1, <1>1, <1>9, <1>12, <1>13
  <1>15. ASSUME NEW i \in D PROVE f[i] = IF s[i] \in S THEN Append(f[i - 1], s[i]) ELSE f[i - 1]
    <2>1. PICK k \in 0 .. N - 1 : k = i - 1
      BY <1>2, <1>13
    <2>2. PICK v \in V : v = f[k]
      BY <1>14
    <2>3. f[k + 1] = G[k + 1][v]
      BY <1>12, <1>13, <2>2 DEF Rounds
    <2>4. k + 1 = i
      BY <1>2, <1>13, <2>1
    <2> QED
      BY <1>6, <2>1, <2>2, <2>3, <2>4
  <1> HIDE DEF Eq, It
  <1> QED
    BY <1>5, <1>13, <1>14, <1>15 DEF KeptOf

\* Filtering keeps what matches and adds nothing.
LEMMA FilteredIs ==
    ASSUME NEW X, NEW s \in Seq(X), NEW S
    PROVE  Filtered(s, S) \in Seq(X) /\ ToSet(Filtered(s, S)) = ToSet(s) \cap S
  <1>0. PICK f : KeptOf(f, s, S, X)
    BY FilteredRounds
  <1>1. /\ f \in [0 .. Len(s) -> Seq(X)] /\ f[0] = <<>> /\ f[Len(s)] = Filtered(s, S)
        /\ \A i \in DOMAIN s : f[i] = IF s[i] \in S THEN Append(f[i - 1], s[i]) ELSE f[i - 1]
    BY <1>0 DEF KeptOf
  <1>2. PICK N \in Nat : N = Len(s)
    OBVIOUS
  <1>3. DOMAIN s = 1 .. N /\ \A i \in 1 .. N : s[i] \in X
    BY <1>2
  <1>4. PICK Q : Q = {i \in 0 .. N : ToSet(f[i]) = {s[j] : j \in 1 .. i} \cap S}
    OBVIOUS
  <1>5. 0 \in Q
    BY <1>1, <1>2, <1>4 DEF ToSet
  <1>6. ASSUME NEW i \in 0 .. N - 1, i \in Q PROVE i + 1 \in Q
    <2>1. PICK j \in 1 .. N : j = i + 1 /\ j - 1 = i
      OBVIOUS
    <2>2. PICK v \in Seq(X) : v = f[i]
      BY <1>1, <1>2, SMTT(30)
    <2>3. f[j] = IF s[j] \in S THEN Append(v, s[j]) ELSE v
      BY <1>1, <1>3, <2>1, <2>2
    <2>4. {s[k] : k \in 1 .. j} = {s[k] : k \in 1 .. i} \cup {s[j]}
      <3>1. 1 .. j = (1 .. i) \cup {j}
        BY <2>1
      <3> QED
        BY <3>1
    <2>5. ToSet(Append(v, s[j])) = ToSet(v) \cup {s[j]}
      BY <1>3, AppendedIs
    <2>6. ToSet(v) = {s[k] : k \in 1 .. i} \cap S
      BY <1>4, <1>6, <2>2
    <2>7. j \in 0 .. N
      OBVIOUS
    <2> QED
      BY <1>4, <2>1, <2>3, <2>4, <2>5, <2>6, <2>7
  <1>7. N \in Q
    <2>1. \A i \in 0 .. N - 1 : i \in Q => i + 1 \in Q
      BY <1>6
    <2>2. 0 .. N \subseteq Q
      BY <1>5, <2>1, UpTo
    <2> QED
      BY <2>2
  <1>8. {s[j] : j \in 1 .. N} = ToSet(s)
    BY <1>3 DEF ToSet
  <1> QED
    BY <1>1, <1>2, <1>4, <1>7, <1>8

\* What is listed once is kept at most once.
LEMMA FilteredOnce ==
    ASSUME NEW X, NEW s \in Seq(X), NEW S, IsInjective(s)
    PROVE  IsInjective(Filtered(s, S))
  <1>0. PICK f : KeptOf(f, s, S, X)
    BY FilteredRounds
  <1>1. /\ f \in [0 .. Len(s) -> Seq(X)] /\ f[0] = <<>> /\ f[Len(s)] = Filtered(s, S)
        /\ \A i \in DOMAIN s : f[i] = IF s[i] \in S THEN Append(f[i - 1], s[i]) ELSE f[i - 1]
    BY <1>0 DEF KeptOf
  <1>2. PICK N \in Nat : N = Len(s)
    OBVIOUS
  <1>3. DOMAIN s = 1 .. N /\ \A i \in 1 .. N : s[i] \in X
    BY <1>2
  <1>4. PICK Q : Q = {i \in 0 .. N : IsInjective(f[i]) /\ ToSet(f[i]) \subseteq {s[j] : j \in 1 .. i}}
    OBVIOUS
  <1>5. 0 \in Q
    BY <1>1, <1>2, <1>4 DEF ToSet, IsInjective
  <1>6. ASSUME NEW i \in 0 .. N - 1, i \in Q PROVE i + 1 \in Q
    <2>1. PICK j \in 1 .. N : j = i + 1 /\ j - 1 = i
      OBVIOUS
    <2>2. PICK v \in Seq(X) : v = f[i]
      BY <1>1, <1>2, SMTT(30)
    <2>3. f[j] = IF s[j] \in S THEN Append(v, s[j]) ELSE v
      BY <1>1, <1>3, <2>1, <2>2
    <2>4. IsInjective(v) /\ ToSet(v) \subseteq {s[k] : k \in 1 .. i}
      BY <1>4, <1>6, <2>2
    <2>5. s[j] \notin ToSet(v)
      <3>1. \A k \in 1 .. i : s[k] # s[j]
        BY <1>3, <2>1 DEF IsInjective
      <3> QED
        BY <2>4, <3>1
    <2>6. /\ ToSet(Append(v, s[j])) = ToSet(v) \cup {s[j]}
          /\ IsInjective(Append(v, s[j]))
      BY <1>3, <2>4, <2>5, AppendedIs
    <2>7. {s[k] : k \in 1 .. i} \subseteq {s[k] : k \in 1 .. j} /\ s[j] \in {s[k] : k \in 1 .. j}
      BY <2>1
    <2>8. j \in 0 .. N
      OBVIOUS
    <2> QED
      BY <1>4, <2>1, <2>3, <2>4, <2>6, <2>7, <2>8
  <1>7. N \in Q
    <2>1. \A i \in 0 .. N - 1 : i \in Q => i + 1 \in Q
      BY <1>6
    <2>2. 0 .. N \subseteq Q
      BY <1>5, <2>1, UpTo
    <2> QED
      BY <2>2
  <1> QED
    BY <1>1, <1>2, <1>4, <1>7

-----------------------------------------------------------------------------
\* Batches.

\* The first place of a member of a sequence.
LEMMA IndexFirstIs ==
    ASSUME NEW s \in Seq(Nat), NEW j \in DOMAIN s
    PROVE  LET k == IndexFirst(s, s[j]) IN k \in DOMAIN s /\ k <= j /\ s[k] = s[j]
  <1>1. PICK T : T = {n \in DOMAIN s : s[n] = s[j]}
    OBVIOUS
  <1>2. T \in SUBSET Int /\ IsFiniteSet(T) /\ j \in T
    <2>1. DOMAIN s = 1 .. Len(s) /\ Len(s) \in Nat /\ IsFiniteSet(DOMAIN s)
      BY FS_Interval
    <2>2. IsFiniteSet(T)
      BY <1>1, <2>1, FS_Subset
    <2> QED
      BY <1>1, <2>1, <2>2
  <1>3. Min(T) \in T /\ Min(T) <= j
    BY <1>2, Extremes
  <1> QED
    BY <1>1, <1>3 DEF IndexFirst

\* What has been collected of the first n ids asked for.
OrderedTo(out, ids, n) ==
    /\ ToSet(out) = {ids[j] : j \in 1 .. n} \cap Models
    /\ IsInjective(out)
    /\ \A k, m \in DOMAIN out : k < m => IndexFirst(ids, out[k]) < IndexFirst(ids, out[m])

\* Each model that exists once, in the order of its first id.
InOrderAsked(out, ids) ==
    /\ ToSet(out) = ToSet(ids) \cap Models
    /\ IsInjective(out)
    /\ \A m, n \in DOMAIN out : m < n => IndexFirst(ids, out[m]) < IndexFirst(ids, out[n])

\* A batch gives each model that exists once, in the order asked (GetDeviceModelsByIDs).
LEMMA BatchIs ==
    ASSUME NEW s \in Seq(Nat)
    PROVE  InOrderAsked(GetDeviceModelsByIDs(s), s)
  <1> DEFINE D == DOMAIN s
             Eq(iter) == iter = [t \in SUBSET D |->
                            IF t = {} THEN <<>>
                            ELSE IF s[Max(t)] \in Models \ ToSet(iter[t \ {Max(t)}])
                                 THEN Append(iter[t \ {Max(t)}], s[Max(t)])
                                 ELSE iter[t \ {Max(t)}]]
             It == CHOOSE iter : Eq(iter)
  <1>1. GetDeviceModelsByIDs(s) = It[D]
    BY DEF GetDeviceModelsByIDs, FoldLeft, MapThenFoldSet
  <1>2. D = 1 .. Len(s) /\ IsFiniteSet(D) /\ Len(s) \in Nat /\ \A i \in D : s[i] \in Nat
    BY FS_Interval
  <1>3. PICK c : c = LastOf(s)
    OBVIOUS
  <1>4. Chooses(c, D) /\ \A t \in SUBSET D : c[t] = Max(t)
    BY <1>3, LastIsMax DEF LastOf
  <1>5. PICK V : V = Seq(Nat)
    OBVIOUS
  <1>6. PICK G : G = [i \in D |-> [v \in V |-> IF s[i] \in Models \ ToSet(v) THEN Append(v, s[i]) ELSE v]]
    OBVIOUS
  <1>7. G \in [D -> [V -> V]] /\ <<>> \in V
    BY <1>2, <1>5, <1>6
  <1>8. \E iter : Eq(iter)
    <2>1. PICK iter : FoldsTo(iter, D, c, V, <<>>, G)
      BY <1>2, <1>4, <1>7, FoldsExist
    <2>2. ASSUME NEW t \in SUBSET D
          PROVE  iter[t] = IF t = {} THEN <<>>
                           ELSE IF s[Max(t)] \in Models \ ToSet(iter[t \ {Max(t)}])
                                THEN Append(iter[t \ {Max(t)}], s[Max(t)])
                                ELSE iter[t \ {Max(t)}]
      <3>1. CASE t = {}
        BY <2>1, <3>1 DEF FoldsTo
      <3>2. CASE t # {}
        <4>1. c[t] = Max(t) /\ Max(t) \in D /\ t \ {Max(t)} \in SUBSET D
          BY <1>4, <3>2 DEF Chooses
        <4>2. iter[t \ {Max(t)}] \in V /\ iter[t] = G[Max(t)][iter[t \ {Max(t)}]]
          BY <2>1, <3>2, <4>1 DEF FoldsTo
        <4> QED
          BY <1>6, <3>2, <4>1, <4>2
      <3> QED
        BY <3>1, <3>2
    <2>3. iter = [t \in SUBSET D |-> iter[t]]
      BY <2>1 DEF FoldsTo
    <2> QED
      BY <2>2, <2>3, ZenonT(60)
  <1>9. PICK it : it = It
    OBVIOUS
  <1>10. Eq(it)
    BY <1>8, <1>9
  <1>11. FoldsTo(it, D, c, V, <<>>, G)
    <2>1. it = [t \in SUBSET D |-> it[t]]
      BY <1>10
    <2>2. it[{}] = <<>>
      BY <1>10
    <2>3. ASSUME NEW t \in SUBSET D, t # {}, it[t \ {c[t]}] \in V
          PROVE  it[t] = G[c[t]][it[t \ {c[t]}]]
      <3>1. c[t] = Max(t) /\ Max(t) \in D
        BY <1>4, <2>3 DEF Chooses
      <3>2. it[t] = IF s[Max(t)] \in Models \ ToSet(it[t \ {Max(t)}])
                    THEN Append(it[t \ {Max(t)}], s[Max(t)])
                    ELSE it[t \ {Max(t)}]
        BY <1>10, <2>3
      <3> QED
        BY <1>6, <2>3, <3>1, <3>2
    <2> HIDE DEF Eq, D, It
    <2> QED
      BY <1>2, <1>4, <1>7, <2>1, <2>2, <2>3, IsAFold
  <1>12. PICK f : Rounds(f, Len(s), V, <<>>, G) /\ f[Len(s)] = it[D]
    BY <1>3, <1>7, <1>11, RoundsOf
  <1>13. PICK N \in Nat : N = Len(s)
    BY <1>2
  <1>14. PICK Q : Q = {i \in 0 .. N : OrderedTo(f[i], s, i)}
    OBVIOUS
  <1>15. 0 \in Q
    BY <1>12, <1>13, <1>14 DEF Rounds, OrderedTo, ToSet, IsInjective
  <1>16. ASSUME NEW i \in 0 .. N - 1, i \in Q PROVE i + 1 \in Q
    <2>1. PICK j \in D : j = i + 1
      BY <1>2, <1>13
    <2>2. PICK v \in V : v = f[i]
      BY <1>12, <1>13, SMTT(30) DEF Rounds
    <2>3. f[j] = IF s[j] \in Models \ ToSet(v) THEN Append(v, s[j]) ELSE v
      BY <1>6, <1>12, <1>13, <2>1, <2>2 DEF Rounds
    <2>4. {s[k] : k \in 1 .. j} = {s[k] : k \in 1 .. i} \cup {s[j]}
      <3>1. 1 .. j = (1 .. i) \cup {j}
        BY <1>13, <2>1
      <3> QED
        BY <3>1
    <2>5. v \in Seq(Nat) /\ s[j] \in Nat /\ OrderedTo(v, s, i)
      BY <1>2, <1>5, <1>14, <1>16, <2>2
    <2>6. CASE s[j] \notin Models \ ToSet(v)
      <3>1. OrderedTo(v, s, j)
        BY <1>13, <2>1, <2>4, <2>5, <2>6 DEF OrderedTo
      <3> QED
        BY <1>13, <1>14, <2>1, <2>3, <2>6, <3>1
    <2>7. CASE s[j] \in Models \ ToSet(v)
      <3>1. PICK u : u = Append(v, s[j])
        OBVIOUS
      <3>2. /\ u \in Seq(Nat) /\ DOMAIN u = DOMAIN v \cup {Len(v) + 1}
            /\ u[Len(v) + 1] = s[j] /\ \A m \in DOMAIN v : u[m] = v[m] /\ m < Len(v) + 1
        BY <2>5, <3>1
      <3>3. ToSet(u) = {s[k] : k \in 1 .. j} \cap Models
        <4>1. ToSet(u) = ToSet(v) \cup {s[j]}
          BY <3>2 DEF ToSet
        <4> QED
          BY <2>4, <2>5, <2>7, <4>1 DEF OrderedTo
      <3>4. IsInjective(u)
        BY <2>5, <2>7, <3>2 DEF OrderedTo, IsInjective, ToSet
      <3>5. IndexFirst(s, s[j]) = j
        <4>1. s[j] \notin {s[k] : k \in 1 .. i}
          BY <2>5, <2>7 DEF OrderedTo
        <4>2. \A k \in D : s[k] = s[j] => k >= j
          BY <1>2, <1>13, <2>1, <4>1
        <4>3. IndexFirst(s, s[j]) \in D /\ IndexFirst(s, s[j]) <= j /\ s[IndexFirst(s, s[j])] = s[j]
          BY IndexFirstIs
        <4> QED
          BY <1>2, <4>2, <4>3
      <3>6. \A m \in DOMAIN v : IndexFirst(s, v[m]) <= i /\ IndexFirst(s, v[m]) \in Nat
        <4> SUFFICES ASSUME NEW m \in DOMAIN v
                     PROVE  IndexFirst(s, v[m]) <= i /\ IndexFirst(s, v[m]) \in Nat
          OBVIOUS
        <4>1. v[m] \in {s[k] : k \in 1 .. i}
          BY <2>5 DEF OrderedTo, ToSet
        <4>2. PICK k \in 1 .. i : v[m] = s[k]
          BY <4>1
        <4>3. k \in D /\ k <= i
          BY <1>2, <1>13, <4>2
        <4>4. IndexFirst(s, s[k]) \in D /\ IndexFirst(s, s[k]) <= k
          BY <4>3, IndexFirstIs
        <4> QED
          BY <1>2, <1>13, <4>2, <4>3, <4>4
      <3>7. ASSUME NEW m \in DOMAIN u, NEW n \in DOMAIN u, m < n
            PROVE  IndexFirst(s, u[m]) < IndexFirst(s, u[n])
        <4>1. m \in DOMAIN v
          BY <2>5, <3>2, <3>7
        <4>2. CASE n \in DOMAIN v
          BY <2>5, <3>2, <3>7, <4>1, <4>2 DEF OrderedTo
        <4>3. CASE n = Len(v) + 1
          BY <1>13, <2>1, <3>2, <3>5, <3>6, <4>1, <4>3
        <4> QED
          BY <3>2, <4>2, <4>3
      <3>8. OrderedTo(u, s, j)
        BY <3>3, <3>4, <3>7 DEF OrderedTo
      <3> QED
        <4>1. f[j] = u
          BY <2>3, <2>7, <3>1
        <4>2. j \in 0 .. N
          BY <1>13, <2>1
        <4> QED
          BY <1>14, <2>1, <3>8, <4>1, <4>2
    <2> QED
      BY <2>6, <2>7
  <1>17. N \in Q
    <2>1. \A i \in 0 .. N - 1 : i \in Q => i + 1 \in Q
      BY <1>16
    <2>2. 0 .. N \subseteq Q
      BY <1>15, <2>1, UpTo
    <2>3. N \in 0 .. N
      OBVIOUS
    <2> QED
      BY <2>2, <2>3
  <1>18. f[N] \in V /\ f[N] = GetDeviceModelsByIDs(s)
    BY <1>1, <1>9, <1>12, <1>13 DEF Rounds
  <1>19. {s[j] : j \in 1 .. N} = ToSet(s)
    BY <1>2, <1>13 DEF ToSet
  <1> HIDE DEF D, Eq, It
  <1> QED
    BY <1>5, <1>14, <1>17, <1>18, <1>19 DEF OrderedTo, InOrderAsked

-----------------------------------------------------------------------------
\* One order for every request.

\* In increasing order.
Increasing(s) == \A m, n \in DOMAIN s : m < n => s[m] < s[n]

\* An enumeration without repetition misses nothing.
LEMMA EnumerationsCover ==
    ASSUME NEW S, IsFiniteSet(S), NEW s \in [1 .. Cardinality(S) -> S], IsInjective(s)
    PROVE  s \in Seq(S) /\ ToSet(s) = S
  <1>1. Cardinality(S) \in Nat
    BY FS_CardinalityType
  <1>2. s \in Injection(1 .. Cardinality(S), S)
    BY DEF Injection
  <1>3. Cardinality(1 .. Cardinality(S)) = Cardinality(S)
    BY <1>1, FS_Interval
  <1>4. s \in Surjection(1 .. Cardinality(S), S)
    BY <1>2, <1>3, FS_Injection
  <1>5. ToSet(s) = S
    BY <1>4 DEF Surjection, ToSet
  <1> QED
    BY <1>1, <1>5

\* Every set of ranks can be listed in order.
LEMMA CanBeSorted ==
    ASSUME NEW S \in SUBSET Nat, IsFiniteSet(S)
    PROVE  \E s \in SetToSeqs(S) : Increasing(s)
  <1>1. PICK c : c = [t \in SUBSET S |-> Max(t)]
    OBVIOUS
  <1>2. ASSUME NEW t \in SUBSET S, t # {}
        PROVE  c[t] \in t /\ \A x \in t : c[t] >= x
    <2>1. IsFiniteSet(t)
      BY FS_Subset
    <2>2. t \in SUBSET Int
      OBVIOUS
    <2> QED
      BY <1>1, <1>2, <2>1, <2>2, Extremes
  <1>3. Chooses(c, S)
    BY <1>2 DEF Chooses
  <1>4. PICK Q : Q = {t \in SUBSET S : \E s \in SetToSeqs(t) : Increasing(s)}
    OBVIOUS
  <1>5. {} \in Q
    <2>1. <<>> \in [1 .. 0 -> {}]
      OBVIOUS
    <2>2. Cardinality({}) = 0
      BY FS_EmptySet
    <2>3. <<>> \in SetToSeqs({}) /\ Increasing(<<>>)
      BY <2>1, <2>2 DEF SetToSeqs, Increasing
    <2> QED
      BY <1>4, <2>3
  <1>6. ASSUME NEW t \in SUBSET S, t # {}, t \ {c[t]} \in Q PROVE t \in Q
    <2>1. PICK a \in t, u \in SUBSET S : a = c[t] /\ u = t \ {a}
      BY <1>2, <1>6
    <2>2. PICK s \in SetToSeqs(u) : Increasing(s)
      BY <1>4, <1>6, <2>1
    <2>3. PICK k \in Nat : k = Cardinality(u) /\ Cardinality(t) = k + 1
      <3>1. IsFiniteSet(t) /\ IsFiniteSet(u)
        BY FS_Subset
      <3>2. Cardinality(u) = Cardinality(t) - 1 /\ Cardinality(t) \in Nat /\ Cardinality(u) \in Nat
        BY <2>1, <3>1, FS_RemoveElement, FS_CardinalityType
      <3> QED
        BY <3>2
    <2>4. s \in [1 .. k -> u] /\ \A i, j \in 1 .. k : i # j => s[i] # s[j]
      BY <2>2, <2>3 DEF SetToSeqs
    <2>5. PICK r : r = [i \in 1 .. k + 1 |-> IF i = k + 1 THEN a ELSE s[i]]
      OBVIOUS
    <2>6. r[k + 1] = a /\ \A i \in 1 .. k : r[i] = s[i] /\ r[i] \in u
      BY <2>4, <2>5
    <2>7. \A i \in 1 .. k + 1 : i = k + 1 \/ i \in 1 .. k
      OBVIOUS
    <2>8. r \in [1 .. k + 1 -> t]
      BY <2>1, <2>5, <2>6, <2>7
    <2>9. \A i, j \in 1 .. k + 1 : i # j => r[i] # r[j]
      BY <2>1, <2>4, <2>6, <2>7
    <2>10. \A x \in u : x < a
      <3>1. \A x \in u : x \in Nat /\ x # a /\ a \in Nat /\ a >= x
        BY <1>2, <2>1
      <3> QED
        BY <3>1
    <2>11. Increasing(r)
      <3> SUFFICES ASSUME NEW i \in 1 .. k + 1, NEW j \in 1 .. k + 1, i < j
                   PROVE  r[i] < r[j]
        BY <2>5 DEF Increasing
      <3>1. i \in 1 .. k
        OBVIOUS
      <3>2. CASE j = k + 1
        BY <2>6, <2>10, <3>1, <3>2
      <3>3. CASE j \in 1 .. k
        BY <2>2, <2>4, <2>6, <3>1, <3>3 DEF Increasing
      <3> QED
        BY <2>7, <3>2, <3>3
    <2>12. r \in SetToSeqs(t)
      BY <2>3, <2>8, <2>9 DEF SetToSeqs
    <2> QED
      BY <1>4, <2>11, <2>12
  <1>7. Inductive(Q, c, S)
    BY <1>5, <1>6 DEF Inductive
  <1>8. S \in Q
    BY <1>3, <1>7, SubsetInduction
  <1> QED
    BY <1>4, <1>8

\* Sorting gives each model once, in increasing order.
LEMMA SortedIs ==
    ASSUME NEW s, ToSet(s) \in SUBSET Nat, IsFiniteSet(ToSet(s))
    PROVE  /\ Sorted(s) \in Seq(Nat) /\ ToSet(Sorted(s)) = ToSet(s)
           /\ IsInjective(Sorted(s)) /\ Increasing(Sorted(s))
  <1>1. PICK S \in SUBSET Nat : S = ToSet(s)
    OBVIOUS
  <1>2. PICK t : t = Sorted(s)
    OBVIOUS
  <1>3. t \in SetToSeqs(S) /\ Increasing(t)
    BY <1>1, <1>2, CanBeSorted DEF Sorted, Increasing
  <1>4. t \in [1 .. Cardinality(S) -> S] /\ IsInjective(t)
    BY <1>3 DEF SetToSeqs, IsInjective
  <1>5. t \in Seq(S) /\ ToSet(t) = S
    BY <1>1, <1>4, EnumerationsCover
  <1>6. t \in Seq(Nat)
    BY <1>1, <1>5, SeqMonotonic
  <1> QED
    BY <1>1, <1>2, <1>3, <1>4, <1>5, <1>6

\* A listing of a set names all of it and nothing else.
LEMMA SetToSeqIs ==
    ASSUME NEW S, IsFiniteSet(S)
    PROVE  SetToSeq(S) \in Seq(S) /\ ToSet(SetToSeq(S)) = S
  <1>1. \E f \in [1 .. Cardinality(S) -> S] : IsInjective(f)
    BY FS_CardinalityType DEF ExistsBijection, Bijection, Injection
  <1>2. PICK f : f = SetToSeq(S)
    OBVIOUS
  <1>3. f \in [1 .. Cardinality(S) -> S] /\ IsInjective(f)
    BY <1>1, <1>2 DEF SetToSeq
  <1> QED
    BY <1>2, <1>3, EnumerationsCover

-----------------------------------------------------------------------------
\* Pages.

\* The pages, and the whole list that they are pages of.
Page == [limit : Nat \ {0}, offset : Nat]
AllOf(found) == Sorted(SetToSeq(found))

\* What has been read of a list when the next page is p.
ReadTo(all, from, p) ==
    /\ from.offset <= p.offset /\ (p.offset = from.offset \/ p.offset < Len(all))
    /\ seen = SubSeq(all, from.offset + 1, p.offset)

\* A listing under way, or answered in full.
Listing(found, from) ==
    /\ asked = [kind |-> "list", found |-> found, from |-> from]
    /\ \/ next = <<>> /\ seen = SubSeq(AllOf(found), from.offset + 1, Len(AllOf(found)))
       \/ \E p \in Page : next = <<p>> /\ ReadTo(AllOf(found), from, p)

\* A batch that was asked for.
Asking(ids) ==
    /\ asked = [kind |-> "batch", ids |-> ids]
    /\ next = <<>> /\ seen = GetDeviceModelsByIDs(ids)

\* What is known between the requests (Idle, ListModels, NextRequest, GetBatch).
RequestsInv ==
    \/ asked = NoRequest /\ next = <<>> /\ seen = <<>>
    \/ \E found \in SUBSET Models, from \in Page : Listing(found, from)
    \/ \E ids \in Batches : Asking(ids)

\* The smaller of two lengths.
LEMMA SmallerOfTwo ==
    ASSUME NEW a \in Nat, NEW b \in Nat
    PROVE  Min({a, b}) = IF a <= b THEN a ELSE b
  <1>1. PICK m \in {a, b} : m = (IF a <= b THEN a ELSE b)
    OBVIOUS
  <1>2. \A y \in {a, b} : m <= y
    BY <1>1
  <1>3. \A x \in {a, b} : (\A y \in {a, b} : x <= y) => x = m
    BY <1>1
  <1>4. Min({a, b}) \in {a, b} /\ \A y \in {a, b} : Min({a, b}) <= y
    BY <1>2 DEF Min
  <1> QED
    BY <1>1, <1>3, <1>4

\* The models that match are the same on every request, in whichever order they
\* are listed.
LEMMA SameOnEveryRequest ==
    ASSUME NEW listing \in SetToSeqs(Models), NEW found \in SUBSET Models
    PROVE  /\ Sorted(Filtered(listing, found)) = AllOf(found)
           /\ AllOf(found) \in Seq(Nat) /\ Increasing(AllOf(found))
           /\ ToSet(AllOf(found)) = found
  <1>1. IsFiniteSet(Models) /\ Models \subseteq Nat /\ IsFiniteSet(found)
    BY ModelsAssumption, FS_Subset
  <1>2. listing \in [1 .. Cardinality(Models) -> Models] /\ IsInjective(listing)
    BY DEF SetToSeqs, IsInjective
  <1>3. listing \in Seq(Models) /\ ToSet(listing) = Models
    BY <1>1, <1>2, EnumerationsCover
  <1>4. ToSet(Filtered(listing, found)) = found
    <2>1. ToSet(Filtered(listing, found)) = ToSet(listing) \cap found
      BY <1>3, FilteredIs
    <2> QED
      BY <1>3, <2>1
  <1>5. ToSet(SetToSeq(found)) = found
    BY <1>1, SetToSeqIs
  <1>6. Sorted(Filtered(listing, found)) = Sorted(SetToSeq(found))
    BY <1>4, <1>5 DEF Sorted
  <1> QED
    BY <1>1, <1>5, <1>6, SortedIs DEF AllOf

\* A page takes up where the last one ended.
LEMMA PageFollows ==
    ASSUME NEW all \in Seq(Nat), NEW from \in Page, NEW p \in Page, ReadTo(all, from, p),
           NEW slice, slice = SlicePage(Len(all), p)
    PROVE  LET rest == SubSeq(all, slice.start + 1, slice.end)
               q == p.offset + p.limit
           IN  seen \o rest = SubSeq(all, from.offset + 1, IF q < Len(all) THEN q ELSE Len(all))
  <1>1. PICK N \in Nat : N = Len(all)
    OBVIOUS
  <1>2. PICK f \in Nat, o \in Nat, l \in Nat \ {0} : f = from.offset /\ o = p.offset /\ l = p.limit
    BY DEF Page
  <1>3. f <= o /\ (o = f \/ o < N) /\ seen = SubSeq(all, f + 1, o)
    BY <1>1, <1>2 DEF ReadTo
  <1>4. PICK e \in Nat : e = (IF o + l < N THEN o + l ELSE N)
    BY <1>2
  <1>5. slice.start = (IF o <= N THEN o ELSE N) /\ slice.end = e
    <2>1. slice.start = Min({o, N}) /\ slice.end = Min({o + l, N})
      BY <1>1, <1>2 DEF SlicePage
    <2>2. o + l \in Nat
      BY <1>2
    <2>3. /\ Min({o, N}) = IF o <= N THEN o ELSE N
          /\ Min({o + l, N}) = IF o + l <= N THEN o + l ELSE N
      BY <2>2, SmallerOfTwo
    <2>4. (IF o + l <= N THEN o + l ELSE N) = e
      BY <1>4, <2>2
    <2> QED
      BY <2>1, <2>3, <2>4
  <1>6. CASE o < N
    <2>1. o <= e /\ e <= N /\ slice.start = o
      BY <1>2, <1>4, <1>5, <1>6
    <2>2. f + 1 \in 1 .. N + 1 /\ o \in (f + 1) - 1 .. N /\ e \in o .. N
      BY <1>3, <1>6, <2>1
    <2>3. SubSeq(all, f + 1, o) \o SubSeq(all, o + 1, e) = SubSeq(all, f + 1, e)
      BY <1>1, <2>2, ConcatAdjacentSubSeq
    <2> QED
      BY <1>1, <1>2, <1>3, <1>4, <1>5, <2>1, <2>3
  <1>7. CASE o >= N
    <2>1. o = f /\ e = N /\ slice.start = N
      BY <1>2, <1>3, <1>4, <1>5, <1>7
    <2>2. SubSeq(all, f + 1, o) = <<>> /\ SubSeq(all, N + 1, N) = <<>> /\ SubSeq(all, f + 1, N) = <<>>
      <3>1. o < f + 1 /\ N < N + 1 /\ N < f + 1
        BY <1>7, <2>1
      <3> QED
        BY <3>1, SubSeqEmpty
    <2>3. <<>> \o <<>> = <<>>
      OBVIOUS
    <2> QED
      BY <1>1, <1>2, <1>3, <1>4, <1>5, <2>1, <2>2, <2>3
  <1>8. o < N \/ o >= N
    OBVIOUS
  <1> QED
    BY <1>6, <1>7, <1>8

\* Every request and answer keeps what is known of a listing (ApiNext).
LEMMA PagesStep ==
    ASSUME RequestsInv, ApiNext
    PROVE  RequestsInv'
  <1>1. CASE ListModels
    <2>1. PICK limit \in Limits, offset \in Offsets, found \in SUBSET Models :
             /\ asked' = [kind |-> "list", found |-> found,
                          from |-> ParsePagination(limit, offset)]
             /\ next' = <<ParsePagination(limit, offset)>>
      BY <1>1 DEF ListModels
    <2>2. PICK p : p = ParsePagination(limit, offset)
      OBVIOUS
    <2>3. p \in Page
      <3>1. limit \in Int /\ offset \in Int
        BY ModelsAssumption
      <3> QED
        BY <2>2, <3>1 DEF ParsePagination, Page
    <2>4. seen' = <<>> /\ asked = NoRequest
      <3>1. asked = NoRequest => seen = <<>>
        <4>1. ASSUME NEW found2 \in SUBSET Models, NEW from \in Page, Listing(found2, from)
              PROVE  asked # NoRequest
          <5>1. asked.kind = "list" /\ NoRequest.kind = "none"
            BY <4>1 DEF Listing, NoRequest
          <5> QED
            BY <5>1
        <4>2. ASSUME NEW ids \in Batches, Asking(ids) PROVE asked # NoRequest
          <5>1. asked.kind = "batch" /\ NoRequest.kind = "none"
            BY <4>2 DEF Asking, NoRequest
          <5> QED
            BY <5>1
        <4> QED
          BY <4>1, <4>2 DEF RequestsInv
      <3> QED
        BY <1>1, <3>1 DEF ListModels
    <2>5. SubSeq(AllOf(found), p.offset + 1, p.offset) = <<>>
      <3>1. p.offset \in Nat /\ p.offset < p.offset + 1
        BY <2>3 DEF Page
      <3> QED
        BY <3>1, SubSeqEmpty
    <2>6. ReadTo(AllOf(found), p, p)'
      <3>1. p.offset \in Nat
        BY <2>3 DEF Page
      <3> QED
        BY <2>4, <2>5, <3>1 DEF ReadTo
    <2>7. Listing(found, p)'
      BY <2>1, <2>2, <2>3, <2>6 DEF Listing
    <2> QED
      BY <2>3, <2>7 DEF RequestsInv
  <1>2. CASE GetPage
    <2>1. PICK listing \in SetToSeqs(Models) :
             /\ next # <<>>
             /\ seen' = seen \o getDeviceModels(listing, asked.found, next[1]).results
             /\ next' = getDeviceModels(listing, asked.found, next[1]).next
             /\ asked' = asked
      BY <1>2 DEF GetPage
    <2>2. PICK found \in SUBSET Models, from \in Page : Listing(found, from)
      BY <2>1 DEF RequestsInv, Asking
    <2>3. PICK p \in Page : next = <<p>> /\ ReadTo(AllOf(found), from, p)
      BY <2>1, <2>2 DEF Listing
    <2>4. PICK all \in Seq(Nat) : all = AllOf(found) /\ all = Sorted(Filtered(listing, found))
      BY SameOnEveryRequest
    <2>5. PICK slice : slice = SlicePage(Len(all), p)
      OBVIOUS
    <2>6. /\ seen' = seen \o SubSeq(all, slice.start + 1, slice.end)
          /\ next' = Paginate(Len(all), p)
      BY <2>1, <2>2, <2>3, <2>4, <2>5 DEF Listing, getDeviceModels
    <2>7. PICK q : q = p.offset + p.limit
      OBVIOUS
    <2>8. p.offset \in Nat /\ p.limit \in Nat \ {0} /\ q \in Nat /\ Len(all) \in Nat
          /\ from.offset \in Nat /\ from.offset <= p.offset
      BY <2>3, <2>7 DEF Page, ReadTo
    <2>9. seen' = SubSeq(all, from.offset + 1, IF q < Len(all) THEN q ELSE Len(all))
      BY <2>3, <2>4, <2>5, <2>6, <2>7, PageFollows
    <2>10. CASE q < Len(all)
      <3>1. PICK r : r = [p EXCEPT !.offset = q]
        OBVIOUS
      <3>2. r \in Page /\ r.offset = q
        BY <2>8, <3>1 DEF Page
      <3>3. next' = <<r>>
        BY <2>6, <2>7, <2>10, <3>1 DEF Paginate
      <3>4. ReadTo(AllOf(found), from, r)'
        <4>1. seen' = SubSeq(all, from.offset + 1, q)
          BY <2>9, <2>10
        <4>2. from.offset <= r.offset /\ r.offset < Len(all)
          BY <2>7, <2>8, <2>10, <3>2
        <4> QED
          BY <2>4, <3>2, <4>1, <4>2 DEF ReadTo
      <3>5. Listing(found, from)'
        BY <2>1, <2>2, <3>2, <3>3, <3>4 DEF Listing
      <3> QED
        BY <3>5 DEF RequestsInv
    <2>11. CASE ~(q < Len(all))
      <3>1. next' = <<>>
        BY <2>6, <2>7, <2>11 DEF Paginate
      <3>2. seen' = SubSeq(AllOf(found), from.offset + 1, Len(AllOf(found)))
        BY <2>4, <2>9, <2>11
      <3>3. Listing(found, from)'
        BY <2>1, <2>2, <3>1, <3>2 DEF Listing
      <3> QED
        BY <3>3 DEF RequestsInv
    <2> QED
      BY <2>10, <2>11
  <1>3. CASE PostBatch
    <2>1. PICK ids \in Batches : /\ asked' = [kind |-> "batch", ids |-> ids]
                                 /\ seen' = GetDeviceModelsByIDs(ids) /\ next' = next
      BY <1>3 DEF PostBatch
    <2>2. next = <<>>
      BY <1>3 DEF PostBatch, RequestsInv, Listing, Asking, NoRequest
    <2>3. Asking(ids)'
      BY <2>1, <2>2 DEF Asking
    <2> QED
      BY <2>3 DEF RequestsInv
  <1>4. CASE NextRequest
    BY <1>4 DEF NextRequest, RequestsInv
  <1> QED
    BY <1>1, <1>2, <1>3, <1>4 DEF ApiNext

\* An answered listing or batch is complete.
LEMMA RequestsAnswered ==
    ASSUME RequestsInv
    PROVE  PagesCoverModels
  <1> SUFFICES ASSUME Answered PROVE PagesCoverModels
    BY DEF PagesCoverModels
  <1>1. ASSUME NEW found \in SUBSET Models, NEW from \in Page, Listing(found, from)
        PROVE  PagesCoverModels
    BY <1>1 DEF Listing, PagesCoverModels, Answered, AllOf
  <1>2. ASSUME NEW ids \in Batches, Asking(ids)
        PROVE  PagesCoverModels
    <2>1. ids \in Seq(Nat)
      BY ModelsAssumption
    <2>2. InOrderAsked(seen, ids) /\ asked.kind = "batch" /\ asked.ids = ids
      BY <1>2, <2>1, BatchIs DEF Asking
    <2> QED
      BY <2>2 DEF PagesCoverModels, InOrderAsked
  <1> QED
    BY <1>1, <1>2 DEF RequestsInv, Answered

\* Following the links from page to page gives every matching model from the offset
\* on exactly once, in order, however the map is listed for each request; a batch
\* gives each model that exists once, in the order asked (getDeviceModels,
\* GetDeviceModelsByIDs, SlicePage, Paginate).
THEOREM PagesStayComplete == Spec => []PagesCoverModels
  <1>1. Init => RequestsInv
    BY DEF Init, Idle, RequestsInv
  <1>2. RequestsInv /\ [Next]_<<vars, apiVars, gateways>> => RequestsInv'
    <2>1. ASSUME RequestsInv, UNCHANGED apiVars PROVE RequestsInv'
      BY <2>1 DEF apiVars, RequestsInv, Listing, Asking, ReadTo
    <2> QED
      BY <2>1, PagesStep DEF Next, Consume, Serve, Locate, ApiIdle
  <1>3. RequestsInv => PagesCoverModels
    BY RequestsAnswered
  <1> QED
    BY <1>1, <1>2, <1>3, PTL DEF Spec

-----------------------------------------------------------------------------
\* Sums.

\* The element that SumFunction takes first.
Taking(D) == [t \in SUBSET D |-> CHOOSE x \in t : TRUE]
Sums(s, w, D) ==
    /\ s \in [SUBSET D -> Int]
    /\ \A t \in SUBSET D : s[t] = IF t = {} THEN 0 ELSE w[Taking(D)[t]] + s[t \ {Taking(D)[t]}]

\* A sum is a sum over all parts of the domain.
LEMMA TotalSums ==
    ASSUME NEW D, IsFiniteSet(D), NEW w \in [D -> Int]
    PROVE  Chooses(Taking(D), D) /\ \E s : Sums(s, w, D) /\ SumFunction(w) = s[D]
  <1> DEFINE Eq(iter) == iter = [t \in SUBSET D |->
                            IF t = {} THEN 0
                            ELSE w[CHOOSE x \in t : TRUE] + iter[t \ {CHOOSE x \in t : TRUE}]]
             It == CHOOSE iter : Eq(iter)
  <1>1. SumFunction(w) = It[D]
    <2>1. DOMAIN w = D
      OBVIOUS
    <2> QED
      BY <2>1 DEF SumFunction, SumFunctionOnSet, FoldFunctionOnSet, MapThenFoldSet
  <1>2. Chooses(Taking(D), D)
    BY DEF Chooses, Taking
  <1>3. \E iter : Eq(iter)
    <2>1. PICK V : V = Int
      OBVIOUS
    <2>2. PICK G : G = [n \in D |-> [v \in V |-> w[n] + v]]
      OBVIOUS
    <2> G \in [D -> [V -> V]] /\ 0 \in V
      BY <2>1, <2>2
    <2>3. PICK iter : FoldsTo(iter, D, Taking(D), V, 0, G)
      BY <1>2, FoldsExist
    <2>4. ASSUME NEW t \in SUBSET D
          PROVE  iter[t] = IF t = {} THEN 0
                           ELSE w[CHOOSE x \in t : TRUE] + iter[t \ {CHOOSE x \in t : TRUE}]
      <3>1. CASE t = {}
        BY <2>3, <3>1 DEF FoldsTo
      <3>2. CASE t # {}
        <4>1. PICK a \in D : a = CHOOSE x \in t : TRUE
          BY <3>2
        <4>2. Taking(D)[t] = a /\ t \ {a} \in SUBSET D
          BY <4>1 DEF Taking
        <4>3. iter[t \ {a}] \in Int
          BY <2>1, <2>3, <4>2 DEF FoldsTo
        <4>4. iter[t] = G[a][iter[t \ {a}]]
          BY <2>3, <3>2, <4>2 DEF FoldsTo
        <4> QED
          BY <2>1, <2>2, <3>2, <4>1, <4>3, <4>4
      <3> QED
        BY <3>1, <3>2
    <2>5. iter = [t \in SUBSET D |-> iter[t]]
      BY <2>3 DEF FoldsTo
    <2>6. Eq(iter)
      <3>1. PICK F : F = [t \in SUBSET D |->
                            IF t = {} THEN 0
                            ELSE w[CHOOSE x \in t : TRUE] + iter[t \ {CHOOSE x \in t : TRUE}]]
        OBVIOUS
      <3>2. \A t \in SUBSET D : F[t] = iter[t]
        BY <2>4, <3>1
      <3>3. F = iter
        BY <2>5, <3>1, <3>2
      <3> QED
        BY <3>1, <3>3
    <2> QED
      BY <2>6
  <1>4. PICK s : s = It
    OBVIOUS
  <1>5. Eq(s)
    BY <1>3, <1>4
  <1> DEFINE Whole == {t \in SUBSET D : s[t] \in Int}
  <1>6. ASSUME NEW t \in SUBSET D
        PROVE  s[t] = IF t = {} THEN 0 ELSE w[Taking(D)[t]] + s[t \ {Taking(D)[t]}]
    BY <1>5, <1>6 DEF Taking
  <1>7. SUBSET D \subseteq Whole
    <2>1. PICK Q : Q = Whole
      OBVIOUS
    <2>2. ASSUME NEW t \in SUBSET D, t # {}, t \ {Taking(D)[t]} \in Q PROVE t \in Q
      <3>1. PICK a \in D : a = Taking(D)[t]
        BY <1>2, <2>2 DEF Chooses
      <3>2. s[t] = w[a] + s[t \ {a}]
        BY <1>6, <2>2, <3>1
      <3>3. s[t \ {a}] \in Int
        BY <2>1, <2>2, <3>1
      <3> QED
        BY <2>1, <3>2, <3>3
    <2>3. {} \in Q
      <3>1. s[{}] = 0
        BY <1>6
      <3> QED
        BY <2>1, <3>1
    <2>4. Inductive(Q, Taking(D), D)
      BY <2>2, <2>3 DEF Inductive
    <2> QED
      BY <1>2, <2>1, <2>4, SubsetInduction
  <1>8. DOMAIN s = SUBSET D
    BY <1>5
  <1>9. s \in [SUBSET D -> Int]
    <2>1. s = [t \in SUBSET D |-> s[t]]
      BY <1>5
    <2> QED
      BY <1>7, <2>1
  <1> HIDE DEF Eq, It
  <1> QED
    BY <1>1, <1>2, <1>4, <1>6, <1>9 DEF Sums

-----------------------------------------------------------------------------
\* Means and circles that meet.

\* A weighted mean lies between the least and the greatest value.
LEMMA MeanBetween ==
    ASSUME NEW D, IsFiniteSet(D), NEW w \in [D -> Nat], NEW x \in [D -> Int],
           NEW lo \in Int, NEW hi \in Int, \A n \in D : lo <= x[n] /\ x[n] <= hi
    PROVE  LET num == SumFunction([n \in D |-> x[n] * w[n]])
               den == SumFunction([n \in D |-> w[n]])
           IN  num \in Int /\ den \in Nat /\ lo * den <= num /\ num <= hi * den
  <1>1. PICK p : p = [n \in D |-> x[n] * w[n]]
    OBVIOUS
  <1>2. PICK v : v = [n \in D |-> w[n]]
    OBVIOUS
  <1>3. ASSUME NEW n \in D PROVE /\ p[n] \in Int /\ v[n] \in Nat
                                 /\ lo * v[n] <= p[n] /\ p[n] <= hi * v[n]
    <2>1. PICK a \in Int : a = x[n] /\ lo <= a /\ a <= hi
      OBVIOUS
    <2>2. PICK b \in Nat : b = w[n]
      OBVIOUS
    <2>3. p[n] = a * b /\ v[n] = b
      BY <1>1, <1>2, <2>1, <2>2
    <2>4. lo * b <= a * b /\ a * b <= hi * b
      <3>1. (a - lo) * b >= 0 /\ (hi - a) * b >= 0
        BY <2>1
      <3> QED
        BY <3>1
    <2> QED
      BY <2>3, <2>4
  <1>4. p \in [D -> Int] /\ v \in [D -> Int]
    BY <1>1, <1>2, <1>3
  <1>5. PICK c : c = Taking(D)
    OBVIOUS
  <1>6. PICK s : Sums(s, p, D) /\ SumFunction(p) = s[D]
    BY <1>4, TotalSums
  <1>7. PICK d : Sums(d, v, D) /\ SumFunction(v) = d[D]
    BY <1>4, TotalSums
  <1>8. Chooses(c, D)
    BY <1>4, <1>5, TotalSums
  <1> DEFINE Mean == {t \in SUBSET D : s[t] \in Int /\ d[t] \in Nat
                                       /\ lo * d[t] <= s[t] /\ s[t] <= hi * d[t]}
  <1>9. PICK Q : Q = Mean
    OBVIOUS
  <1>10. {} \in Q
    <2>1. s[{}] = 0 /\ d[{}] = 0
      BY <1>6, <1>7 DEF Sums
    <2> QED
      BY <1>9, <2>1
  <1>11. ASSUME NEW t \in SUBSET D, t # {}, t \ {c[t]} \in Q PROVE t \in Q
    <2>1. PICK a \in D, u \in SUBSET D : a = c[t] /\ u = t \ {a}
      BY <1>8, <1>11 DEF Chooses
    <2>2. s[t] = p[a] + s[u] /\ d[t] = v[a] + d[u]
      BY <1>5, <1>6, <1>7, <1>11, <2>1 DEF Sums
    <2>3. s[u] \in Int /\ d[u] \in Nat /\ lo * d[u] <= s[u] /\ s[u] <= hi * d[u]
      BY <1>9, <1>11, <2>1
    <2>4. \A k \in Int, e, f \in Nat : k * (e + f) = k * e + k * f
      OBVIOUS
    <2>5. lo * d[t] <= s[t] /\ s[t] <= hi * d[t] /\ s[t] \in Int /\ d[t] \in Nat
      BY <1>3, <2>2, <2>3, <2>4
    <2> QED
      BY <1>9, <2>5
  <1>12. D \in Q
    <2>1. Inductive(Q, c, D)
      BY <1>10, <1>11 DEF Inductive
    <2> QED
      BY <1>8, <2>1, SubsetInduction
  <1> QED
    BY <1>1, <1>2, <1>6, <1>7, <1>9, <1>12

\* A circle that cannot do without the other meets it no further away than its
\* radius, and on the side of the smaller one.
LEMMA Meeting ==
    ASSUME NEW d \in Nat, NEW r1 \in Nat, NEW r2 \in Nat, Intersect(d, r1, r2),
           NEW p \in Int, p = r1 * r1 - r2 * r2 + d * d,
           NEW q \in Int, q = r1 * r1 - r2 * r2 - d * d
    PROVE  /\ Size(p) <= 2 * r1 * d /\ Size(q) <= 2 * r2 * d
           /\ r1 <= r2 => Size(p) <= Size(q)
           /\ r2 <= r1 => Size(q) <= Size(p)
  <1>1. d <= r1 + r2 /\ r1 <= d + r2 /\ r2 <= d + r1
    BY DEF Intersect, Size
  <1>2. /\ (d - r1) * (d - r1) <= r2 * r2 /\ (d + r1) * (d + r1) >= r2 * r2
        /\ (d - r2) * (d - r2) <= r1 * r1 /\ (d + r2) * (d + r2) >= r1 * r1
    <2>1. \A a, b \in Int : -b <= a /\ a <= b => a * a <= b * b
      <3>1. ASSUME NEW a \in Int, NEW b \in Int, -b <= a, a <= b PROVE a * a <= b * b
        <4>1. (b - a) * (b + a) >= 0
          BY <3>1
        <4>2. (b - a) * (b + a) = b * b - a * a
          OBVIOUS
        <4> QED
          BY <4>1, <4>2
      <3> QED
        BY <3>1
    <2>2. (d - r1) * (d - r1) <= r2 * r2
      BY <1>1, <2>1
    <2>3. (d - r2) * (d - r2) <= r1 * r1
      BY <1>1, <2>1
    <2>4. (d + r1) * (d + r1) >= r2 * r2
      BY <1>1, <2>1
    <2>5. (d + r2) * (d + r2) >= r1 * r1
      BY <1>1, <2>1
    <2> QED
      BY <2>2, <2>3, <2>4, <2>5
  <1>3. /\ (d - r1) * (d - r1) = p + r2 * r2 - 2 * r1 * d
        /\ (d + r1) * (d + r1) = p + r2 * r2 + 2 * r1 * d
        /\ (d - r2) * (d - r2) = r1 * r1 - q - 2 * r2 * d
        /\ (d + r2) * (d + r2) = r1 * r1 - q + 2 * r2 * d
    OBVIOUS
  <1>4. Size(p) <= 2 * r1 * d /\ Size(q) <= 2 * r2 * d
    BY <1>2, <1>3 DEF Size
  <1>5. r1 <= r2 => r1 * r1 <= r2 * r2
    OBVIOUS
  <1>6. r2 <= r1 => r2 * r2 <= r1 * r1
    OBVIOUS
  <1>7. d * d >= 0
    OBVIOUS
  <1>8. p = q + 2 * (d * d)
    OBVIOUS
  <1> QED
    BY <1>4, <1>5, <1>6, <1>7, <1>8 DEF Size

-----------------------------------------------------------------------------
\* The centroid.

\* The distance to a multiple of a step.
LEMMA Distances ==
    \A e, p \in Int, d \in Nat : d = e \/ d = -e => Size(e * p) = d * Size(p)
  <1> SUFFICES ASSUME NEW e \in Int, NEW p \in Int, NEW d \in Nat, d = e \/ d = -e
               PROVE  Size(e * p) = d * Size(p)
    OBVIOUS
  <1>1. CASE p >= 0
    <2>1. d * p >= 0
      BY <1>1
    <2> QED
      BY <1>1, <2>1 DEF Size
  <1>2. CASE p < 0
    <2>1. d * (-p) >= 0 /\ d * (-p) = -(d * p)
      BY <1>2
    <2> QED
      BY <1>2, <2>1 DEF Size
  <1> QED
    BY <1>1, <1>2

\* How far the centroid of two circles that meet is from their centres.
LEMMA CentroidReach ==
    ASSUME NEW x1 \in Int, NEW x2 \in Int, NEW r1 \in Nat, NEW r2 \in Nat,
           Intersect(Size(x1 - x2), r1, r2),
           NEW c, c = Centroid(x1, r1, x2, r2)
    PROVE  /\ c.den \in Nat /\ Off(c, x1) <= r1 * c.den /\ Off(c, x2) <= r2 * c.den
           /\ r1 <= r2 => Off(c, x1) <= Off(c, x2)
           /\ r2 <= r1 => Off(c, x2) <= Off(c, x1)
  <1>1. PICK d \in Nat : d = Size(x2 - x1) /\ d = Size(x1 - x2)
    BY DEF Size
  <1>2. CASE d = 0
    <2>1. x1 = x2
      BY <1>1, <1>2 DEF Size
    <2>2. c.num = x1 /\ c.den = 1
      BY <1>1, <1>2 DEF Centroid
    <2>3. Off(c, x1) = 0 /\ Off(c, x2) = 0
      BY <2>1, <2>2 DEF Off, Size
    <2> QED
      BY <2>2, <2>3
  <1>3. CASE d # 0
    <2>1. PICK p \in Int, q \in Int, e \in Int :
             p = r1 * r1 - r2 * r2 + d * d /\ q = r1 * r1 - r2 * r2 - d * d /\ e = x2 - x1
      OBVIOUS
    <2>2. c.num = 2 * d * d * x1 + e * p /\ c.den = 2 * d * d
      BY <1>1, <1>3, <2>1 DEF Centroid
    <2>3. d = e \/ d = -e
      BY <1>1, <2>1 DEF Size
    <2>4. Off(c, x1) = d * Size(p)
      <3>1. c.num - x1 * c.den = e * p
        BY <2>2
      <3> QED
        BY <2>3, <3>1, Distances DEF Off
    <2>5. Off(c, x2) = d * Size(q)
      <3>1. c.num - x2 * c.den = e * p - 2 * d * d * e
        BY <2>1, <2>2
      <3>2. d * d = e * e
        BY <2>3
      <3>3. c.num - x2 * c.den = e * q
        <4>1. p - 2 * d * d = q
          BY <2>1
        <4>2. e * p - 2 * d * d * e = e * (p - 2 * d * d)
          OBVIOUS
        <4> QED
          BY <3>1, <4>1, <4>2
      <3> QED
        BY <2>3, <3>3, Distances DEF Off
    <2>6. /\ Size(p) <= 2 * r1 * d /\ Size(q) <= 2 * r2 * d
          /\ r1 <= r2 => Size(p) <= Size(q)
          /\ r2 <= r1 => Size(q) <= Size(p)
      BY <1>1, <2>1, Meeting
    <2>7. PICK a \in Nat, b \in Nat : a = Size(p) /\ b = Size(q)
      BY DEF Size
    <2>8. \A m, n \in Nat : m <= n => d * m <= d * n
      OBVIOUS
    <2>9. d * a <= d * (2 * r1 * d) /\ d * b <= d * (2 * r2 * d)
      BY <2>6, <2>7, <2>8
    <2>10. d * (2 * r1 * d) = r1 * (2 * d * d) /\ d * (2 * r2 * d) = r2 * (2 * d * d)
      OBVIOUS
    <2>11. 2 * d * d \in Nat
      OBVIOUS
    <2> QED
      BY <2>2, <2>4, <2>5, <2>6, <2>7, <2>8, <2>9, <2>10, <2>11
  <1> QED
    BY <1>2, <1>3

-----------------------------------------------------------------------------
\* Every estimate is within reach.

\* What an estimate is made of: one gateway, all of them or two that meet.
Single(point, gws) == Len(gws) = 1 /\ point = [num |-> gws[1].x, den |-> 1]
Mean(point, gws) == Len(gws) > 1 /\ point = Weighted(gws)
Meets(point, gws, n, m) ==
    LET r == expandRadii(gws)
    IN  /\ n < m /\ Intersect(Apart(gws[n], gws[m]), r[n], r[m])
        /\ point = Centroid(gws[n].x, r[n], gws[m].x, r[m])

\* An estimate is the only gateway, the weighted mean, or where two circles meet.
LEMMA EstimatesAre ==
    ASSUME NEW gws \in Seq(Hearings), gws # <<>>, NEW point \in Estimates(gws)
    PROVE  \/ Single(point, gws) \/ Mean(point, gws)
           \/ \E n, m \in DOMAIN gws : Meets(point, gws, n, m)
  <1>0. PICK r : r = expandRadii(gws)
    OBVIOUS
  <1>1. Len(gws) = 1 \/ Len(gws) > 1
    <2>1. PICK k \in Nat : k = Len(gws)
      OBVIOUS
    <2>2. k # 0
      BY <2>1
    <2>3. k = 1 \/ k > 1
      BY ONLY k \in Nat, <2>2
    <2> QED
      BY <2>1, <2>3
  <1>2. \A p \in Zones(gws) : /\ p[1] \in DOMAIN gws /\ p[2] \in DOMAIN gws /\ p[1] < p[2]
                              /\ Intersect(Apart(gws[p[1]], gws[p[2]]), r[p[1]], r[p[2]])
    BY <1>0 DEF Zones, Pairs
  <1>3. CASE Len(gws) = 1
    BY <1>3 DEF Estimates, Single
  <1>4. CASE Len(gws) # 1
    <2>1. \/ point = Weighted(gws)
          \/ \E p \in Zones(gws) : point = Centroid(gws[p[1]].x, r[p[1]], gws[p[2]].x, r[p[2]])
      BY <1>0, <1>4 DEF Estimates
    <2>2. Len(gws) > 1
      BY <1>1, <1>4
    <2>3. ASSUME NEW p \in Zones(gws),
                 point = Centroid(gws[p[1]].x, r[p[1]], gws[p[2]].x, r[p[2]])
          PROVE  \E n, m \in DOMAIN gws : Meets(point, gws, n, m)
      <3>1. PICK n \in DOMAIN gws, m \in DOMAIN gws : n = p[1] /\ m = p[2]
        BY <1>2
      <3> QED
        BY <1>0, <1>2, <2>3, <3>1 DEF Meets
    <2> QED
      BY <2>1, <2>2, <2>3 DEF Mean
  <1> QED
    BY <1>3, <1>4

\* There are finitely many gateways.
LEMMA GatewayDomain ==
    ASSUME NEW gws \in Seq(Hearings)
    PROVE  DOMAIN gws = 1 .. Len(gws) /\ Len(gws) \in Nat /\ IsFiniteSet(DOMAIN gws)
  BY FS_Interval

\* Every estimate of known gateways is inside two circles or among the gateways.
LEMMA ReachIsKept ==
    ASSUME GatewaysKnown
    PROVE  EstimateWithinReach
  <1> DEFINE r == expandRadii(gateways)
             inside(point, n) == Off(point, gateways[n].x) <= r[n] * point.den
             between(point) == \E n, m \in DOMAIN gateways :
                 /\ gateways[n].x * point.den <= point.num
                 /\ point.num <= gateways[m].x * point.den
  <1> SUFFICES ASSUME gateways # <<>>, NEW point \in Estimates(gateways)
               PROVE  between(point) \/ Cardinality({n \in DOMAIN gateways : inside(point, n)}) >= 2
    BY DEF EstimateWithinReach
  <1>1. /\ gateways \in Seq(Hearings) /\ DOMAIN gateways = 1 .. Len(gateways)
        /\ Len(gateways) \in Nat /\ IsFiniteSet(DOMAIN gateways)
    BY GatewayDomain DEF GatewaysKnown
  <1>2. \A n \in DOMAIN gateways : /\ r[n] \in Nat /\ gateways[n].x \in Int
                                   /\ Strength[gateways[n].rssi] \in Nat \ {0}
    BY <1>1, RadiiKnown
  <1>3. CASE Single(point, gateways)
    <2>1. 1 \in DOMAIN gateways /\ gateways[1].x \in Int
      BY <1>1, <1>2, <1>3 DEF Single
    <2>2. gateways[1].x * point.den <= point.num /\ point.num <= gateways[1].x * point.den
      BY <1>3, <2>1 DEF Single
    <2> QED
      BY <2>1, <2>2
  <1>4. CASE Mean(point, gateways)
    <2>1. PICK D : D = DOMAIN gateways
      OBVIOUS
    <2>2. PICK x : x = [n \in D |-> gateways[n].x]
      OBVIOUS
    <2>3. PICK w : w = [n \in D |-> Strength[gateways[n].rssi]]
      OBVIOUS
    <2>4. IsFiniteSet(D) /\ x \in [D -> Int] /\ w \in [D -> Nat] /\ 1 \in D
      BY <1>1, <1>2, <1>4, <2>1, <2>2, <2>3 DEF Mean
    <2>5. PICK X : X = {x[n] : n \in D}
      OBVIOUS
    <2>6. X \in SUBSET Int /\ X # {} /\ IsFiniteSet(X)
      <3>1. x \in Surjection(D, X)
        BY <2>2, <2>5 DEF Surjection
      <3>2. X \in SUBSET Int /\ X # {}
        BY <2>4, <2>5
      <3> QED
        BY <2>4, <3>1, <3>2, FS_Surjection
    <2>7. PICK lo \in X, hi \in X : \A n \in D : lo <= x[n] /\ x[n] <= hi
      <3>1. /\ Max(X) \in X /\ \A a \in X : Max(X) >= a
            /\ Min(X) \in X /\ \A a \in X : Min(X) <= a
        BY <2>6, Extremes
      <3>2. PICK lo \in X, hi \in X : lo = Min(X) /\ hi = Max(X)
        BY <3>1
      <3>3. \A n \in D : x[n] \in X /\ x[n] \in Int
        BY <2>4, <2>5
      <3>4. lo \in Int /\ hi \in Int
        BY <2>6
      <3>5. \A n \in D : lo <= x[n] /\ x[n] <= hi
        BY <3>1, <3>2, <3>3, <3>4
      <3> QED
        BY <3>5
    <2>8. /\ point.num = SumFunction([n \in D |-> x[n] * w[n]])
          /\ point.den = SumFunction([n \in D |-> w[n]])
      <3>1. [n \in D |-> gateways[n].x * Strength[gateways[n].rssi]] = [n \in D |-> x[n] * w[n]]
        BY <2>2, <2>3
      <3>2. [n \in D |-> Strength[gateways[n].rssi]] = [n \in D |-> w[n]]
        BY <2>3
      <3> QED
        BY <1>4, <2>1, <3>1, <3>2 DEF Weighted, Mean
    <2>9. lo * point.den <= point.num /\ point.num <= hi * point.den
      BY <2>4, <2>6, <2>7, <2>8, MeanBetween, ZenonT(60)
    <2>10. PICK n \in D, m \in D : lo = gateways[n].x /\ hi = gateways[m].x
      BY <2>2, <2>5, <2>7
    <2> QED
      BY <2>1, <2>9, <2>10
  <1>5. ASSUME NEW n \in DOMAIN gateways, NEW m \in DOMAIN gateways, Meets(point, gateways, n, m)
        PROVE  Cardinality({k \in DOMAIN gateways : inside(point, k)}) >= 2
    <2>1. PICK x1 \in Int, x2 \in Int, r1 \in Nat, r2 \in Nat :
             x1 = gateways[n].x /\ x2 = gateways[m].x /\ r1 = r[n] /\ r2 = r[m]
      BY <1>2
    <2>2. Intersect(Size(x1 - x2), r1, r2) /\ point = Centroid(x1, r1, x2, r2)
      BY <1>5, <2>1 DEF Meets, Apart
    <2>3. Off(point, x1) <= r1 * point.den /\ Off(point, x2) <= r2 * point.den
      BY <2>2, CentroidReach
    <2>4. inside(point, n) /\ inside(point, m)
      BY <2>1, <2>3
    <2>5. PICK A : A = {k \in DOMAIN gateways : inside(point, k)}
      OBVIOUS
    <2>6. n \in A /\ m \in A \ {n} /\ IsFiniteSet(A)
      <3>1. A \subseteq DOMAIN gateways
        BY <2>5
      <3>2. n # m
        BY <1>1, <1>5 DEF Meets
      <3>3. IsFiniteSet(A)
        BY <1>1, <3>1, FS_Subset
      <3> QED
        BY <2>4, <2>5, <3>2, <3>3
    <2>7. Cardinality(A) >= 2
      <3>1. IsFiniteSet(A \ {n}) /\ Cardinality(A \ {n}) = Cardinality(A) - 1
        BY <2>6, FS_RemoveElement
      <3>2. Cardinality(A \ {n}) # 0
        BY <2>6, <3>1, FS_EmptySet
      <3>3. Cardinality(A) \in Nat /\ Cardinality(A \ {n}) \in Nat
        BY <2>6, <3>1, FS_CardinalityType
      <3> QED
        BY <3>1, <3>2, <3>3
    <2> QED
      BY <2>5, <2>7
  <1> HIDE DEF inside, between, r
  <1>6. \/ Single(point, gateways) \/ Mean(point, gateways)
        \/ \E n, m \in DOMAIN gateways : Meets(point, gateways, n, m)
    BY <1>1, EstimatesAre
  <1> QED
    BY <1>3, <1>4, <1>5, <1>6

-----------------------------------------------------------------------------
\* The stronger gateway is not the further one.

\* The radius of the stronger of two gateways is not the greater one.
LEMMA StrongerIsSmaller ==
    ASSUME SignalsInDBm, NEW gws \in Seq(Hearings), NEW n \in DOMAIN gws, NEW m \in DOMAIN gws,
           gws[n].rssi > gws[m].rssi
    PROVE  /\ expandRadii(gws)[n] <= expandRadii(gws)[m]
           /\ Strength[gws[m].rssi] <= Strength[gws[n].rssi]
  <1>1. PICK strong \in Signals, weak \in Signals : strong = gws[n].rssi /\ weak = gws[m].rssi
    BY RadiiKnown
  <1>2. weak \in Int /\ strong \in Int /\ weak < strong /\ strong < 70
    BY <1>1, SignalAssumption DEF SignalsInDBm
  <1>3. PICK k \in Nat : k = minExpansionNeeded(gws)
    BY RadiiKnown
  <1>4. PICK a \in Nat, b \in Nat : a = findDistance[strong] /\ b = findDistance[weak]
    BY SignalAssumption
  <1>5. PICK f \in Nat, g \in Nat : f = adaptiveFactor(strong) /\ g = adaptiveFactor(weak) /\ f <= g
    BY <1>2 DEF adaptiveFactor, Size
  <1>6. a <= b /\ Strength[weak] <= Strength[strong]
    BY <1>2, <1>4, SignalAssumption
  <1>7. /\ expandRadii(gws)[n] = (a * ((k * f) \div 1000)) \div 1000
        /\ expandRadii(gws)[m] = (b * ((k * g) \div 1000)) \div 1000
    BY <1>1, <1>3, <1>4, <1>5 DEF expandRadii
  <1>8. PICK u \in Nat, v \in Nat : u = (k * f) \div 1000 /\ v = (k * g) \div 1000 /\ u <= v
    <2>1. k * f \in Nat /\ k * g \in Nat /\ k * f <= k * g
      BY <1>5, Products
    <2> QED
      BY <2>1
  <1>9. (a * u) \div 1000 <= (b * v) \div 1000
    <2>1. a * u <= a * v /\ a * v <= b * v /\ a * u \in Nat /\ a * v \in Nat /\ b * v \in Nat
      BY <1>6, <1>8, Products
    <2> QED
      BY <2>1
  <1> QED
    BY <1>1, <1>6, <1>7, <1>8, <1>9

\* The sum of two.
LEMMA SumOfTwo ==
    ASSUME NEW w \in [{1, 2} -> Int]
    PROVE  SumFunction(w) = w[1] + w[2]
  <1>1. PICK D : D = {1, 2}
    OBVIOUS
  <1>2. IsFiniteSet(D)
    <2>1. D = {1} \cup {2}
      BY <1>1
    <2> QED
      BY <2>1, FS_Singleton, FS_AddElement
  <1>3. PICK s : Sums(s, w, D) /\ SumFunction(w) = s[D]
    BY <1>1, <1>2, TotalSums
  <1>4. PICK c : c = Taking(D)
    OBVIOUS
  <1>5. Chooses(c, D)
    BY <1>1, <1>2, <1>4, TotalSums
  <1>6. s[{}] = 0 /\ \A t \in SUBSET D : t # {} => s[t] = w[c[t]] + s[t \ {c[t]}]
    BY <1>3, <1>4 DEF Sums
  <1>7. \A a \in D : s[{a}] = w[a]
    <2> SUFFICES ASSUME NEW a \in D PROVE s[{a}] = w[a]
      OBVIOUS
    <2>1. {a} \in SUBSET D /\ c[{a}] = a
      BY <1>5 DEF Chooses
    <2>2. {a} \ {a} = {}
      OBVIOUS
    <2>3. s[{a}] = w[a] + s[{}]
      BY <1>6, <2>1, <2>2
    <2>4. w[a] \in Int
      BY <1>1
    <2> QED
      BY <1>6, <2>3, <2>4
  <1>8. D \in SUBSET D /\ c[D] \in D /\ D # {}
    BY <1>1, <1>5 DEF Chooses
  <1>9. s[D] = w[c[D]] + s[D \ {c[D]}]
    BY <1>6, <1>8
  <1>10. w[1] \in Int /\ w[2] \in Int
    OBVIOUS
  <1>11. CASE c[D] = 1
    <2>1. D \ {c[D]} = {2}
      BY <1>1, <1>11
    <2> QED
      BY <1>1, <1>3, <1>7, <1>9, <1>10, <1>11, <2>1
  <1>12. CASE c[D] = 2
    <2>1. D \ {c[D]} = {1}
      BY <1>1, <1>12
    <2> QED
      <3>1. s[D] = w[2] + w[1]
        BY <1>1, <1>7, <1>9, <1>12, <2>1
      <3>2. w[2] + w[1] = w[1] + w[2]
        BY <1>10
      <3> QED
        BY <1>3, <3>1, <3>2
  <1> QED
    BY <1>1, <1>8, <1>11, <1>12

\* Every estimate of two known gateways is no further from the stronger one.
LEMMA StrongerIsNearer ==
    ASSUME SignalsInDBm, GatewaysKnown
    PROVE  StrongerGatewayIsNearer
  <1> SUFFICES ASSUME Len(gateways) = 2, NEW n \in {1, 2}, NEW m \in {1, 2},
                      NEW point \in Estimates(gateways),
                      gateways[n].rssi > gateways[m].rssi
               PROVE  Off(point, gateways[n].x) <= Off(point, gateways[m].x)
    BY DEF StrongerGatewayIsNearer
  <1>1. gateways \in Seq(Hearings) /\ DOMAIN gateways = {1, 2} /\ gateways # <<>>
    <2>1. gateways \in Seq(Hearings) /\ DOMAIN gateways = 1 .. 2
      BY GatewayDomain DEF GatewaysKnown
    <2>2. 1 .. 2 = {1, 2} /\ gateways # <<>>
      OBVIOUS
    <2> QED
      BY <2>1, <2>2
  <1>2. n # m
    <2>1. gateways[n].rssi \in Int
      BY <1>1, RadiiKnown, SignalAssumption
    <2> QED
      BY <2>1
  <1>3. PICK r : r = expandRadii(gateways)
    OBVIOUS
  <1>4. r[n] <= r[m] /\ Strength[gateways[m].rssi] <= Strength[gateways[n].rssi]
    BY <1>1, <1>3, StrongerIsSmaller
  <1>5. PICK x \in [{1, 2} -> Int] : x = [k \in {1, 2} |-> gateways[k].x]
    BY <1>1, RadiiKnown
  <1>6. PICK w \in [{1, 2} -> Nat] : w = [k \in {1, 2} |-> Strength[gateways[k].rssi]]
    BY <1>1, RadiiKnown
  <1>7. PICK R \in [{1, 2} -> Nat] : R = [k \in {1, 2} |-> r[k]]
    BY <1>1, <1>3, RadiiKnown
  <1>8. CASE Mean(point, gateways)
    <2>1. PICK p : p = [k \in {1, 2} |-> gateways[k].x * Strength[gateways[k].rssi]]
      OBVIOUS
    <2>2. p = [k \in {1, 2} |-> x[k] * w[k]]
      BY <1>5, <1>6, <2>1
    <2>3. p \in [{1, 2} -> Int]
      BY <2>2
    <2>4. point.num = x[1] * w[1] + x[2] * w[2] /\ point.den = w[1] + w[2]
      <3>1. point = [num |-> SumFunction(p), den |-> SumFunction(w)]
        BY <1>1, <1>6, <1>8, <2>1 DEF Mean, Weighted
      <3>2. w \in [{1, 2} -> Int]
        OBVIOUS
      <3> QED
        BY <2>2, <2>3, <3>1, <3>2, SumOfTwo
    <2>5. PICK x1 \in Int, x2 \in Int, s1 \in Nat, s2 \in Nat :
             x1 = x[n] /\ x2 = x[m] /\ s1 = w[n] /\ s2 = w[m] /\ s2 <= s1
      BY <1>4, <1>6
    <2>6. point.num = x1 * s1 + x2 * s2 /\ point.den = s1 + s2
      BY <1>2, <2>4, <2>5
    <2>7. PICK e \in Int : e = x2 - x1
      OBVIOUS
    <2>8. point.num - x1 * point.den = e * s2 /\ point.num - x2 * point.den = -(e * s1)
      BY <2>6, <2>7
    <2>9. Size(e * s2) <= Size(-(e * s1))
      <3>1. CASE e >= 0
        <4>1. e * s2 >= 0 /\ e * s2 <= e * s1
          BY <2>5, <3>1
        <4> QED
          BY <4>1 DEF Size
      <3>2. CASE e < 0
        <4>1. e * s2 <= 0 /\ e * s1 <= e * s2
          BY <2>5, <3>2
        <4> QED
          BY <4>1 DEF Size
      <3> QED
        BY <3>1, <3>2
    <2>10. gateways[n].x = x1 /\ gateways[m].x = x2
      BY <1>5, <2>5
    <2> QED
      BY <2>8, <2>9, <2>10 DEF Off
  <1>9. CASE Meets(point, gateways, 1, 2)
    <2>1. PICK x1 \in Int, x2 \in Int, r1 \in Nat, r2 \in Nat :
             x1 = gateways[1].x /\ x2 = gateways[2].x /\ r1 = r[1] /\ r2 = r[2]
      BY <1>1, <1>3, RadiiKnown
    <2>2. Intersect(Size(x1 - x2), r1, r2) /\ point = Centroid(x1, r1, x2, r2)
      BY <1>3, <1>9, <2>1 DEF Meets, Apart
    <2>3. /\ r1 <= r2 => Off(point, x1) <= Off(point, x2)
          /\ r2 <= r1 => Off(point, x2) <= Off(point, x1)
      BY <2>2, CentroidReach
    <2> QED
      BY <1>2, <1>4, <2>1, <2>3
  <1>10. ~Single(point, gateways)
    BY DEF Single
  <1>11. \A a, b \in DOMAIN gateways : Meets(point, gateways, a, b) => a = 1 /\ b = 2
    BY <1>1 DEF Meets
  <1> QED
    BY <1>1, <1>8, <1>9, <1>10, <1>11, EstimatesAre

\* A gateway that is heard is a known place and signal (Hear).
LEMMA GatewaysStayKnown == Spec => []GatewaysKnown
  <1>1. Init => GatewaysKnown
    BY DEF Init, Silence, GatewaysKnown
  <1>2. GatewaysKnown /\ [Next]_<<vars, apiVars, gateways>> => GatewaysKnown'
    <2>1. ASSUME GatewaysKnown, Hear PROVE GatewaysKnown'
      <3>1. PICK x \in Places, rssi \in Signals : gateways' = Append(gateways, [x |-> x, rssi |-> rssi])
        BY <2>1 DEF Hear
      <3>2. [x |-> x, rssi |-> rssi] \in Hearings
        BY DEF Hearings
      <3> QED
        BY <2>1, <3>1, <3>2 DEF GatewaysKnown
    <2>2. ASSUME GatewaysKnown, Forget PROVE GatewaysKnown'
      BY <2>2 DEF Forget, GatewaysKnown
    <2>3. ASSUME GatewaysKnown, UNCHANGED gateways PROVE GatewaysKnown'
      BY <2>3 DEF GatewaysKnown
    <2> QED
      BY <2>1, <2>2, <2>3 DEF Next, Consume, Serve, Locate
  <1> QED
    BY <1>1, <1>2, PTL DEF Spec

\* Trilateration puts a device inside two circles or among the gateways
\* (two, three, expandRadii and the fallback), for any places, distances and
\* strengths and any number of gateways.
THEOREM EstimatesStayWithinReach == Spec => []EstimateWithinReach
  <1>1. GatewaysKnown => EstimateWithinReach
    BY ReachIsKept
  <1> QED
    BY <1>1, GatewaysStayKnown, PTL

\* Of two gateways the one that hears the device better is not the one further
\* from where it is put.
THEOREM StrongerStaysNearer == ASSUME SignalsInDBm PROVE Spec => []StrongerGatewayIsNearer
  <1>1. GatewaysKnown => StrongerGatewayIsNearer
    BY SignalsInDBm, StrongerIsNearer
  <1> QED
    BY <1>1, GatewaysStayKnown, PTL

-----------------------------------------------------------------------------
\* Entities.

\* A profile names each of its entities once, and the location by itself.
NamedOnce(profile) ==
    /\ profile.keys \in Seq(ToSet(profile.keys)) /\ IsInjective(profile.keys)
    /\ "location" \notin ToSet(profile.keys)
    /\ profile.location \in {"reported", "computed", "none"}

\* Every profile does.
LEMMA KeysAreNamedOnce == \A model \in DOMAIN Registry : NamedOnce(Registry[model])
  <1>1. NamedOnce(Abeeway)
    BY DEF NamedOnce, Abeeway, Profile, IsInjective, ToSet
  <1>2. NamedOnce(R718N17)
    BY DEF NamedOnce, R718N17, Profile, IsInjective, ToSet
  <1>3. NamedOnce(R809AG)
    BY DEF NamedOnce, R809AG, Profile, IsInjective, ToSet
  <1>4. NamedOnce(LCC01LB)
    BY DEF NamedOnce, LCC01LB, Profile, IsInjective, ToSet
  <1>5. NamedOnce(LSN50v2)
    BY DEF NamedOnce, LSN50v2, Profile, IsInjective, ToSet
  <1>6. NamedOnce(SEN0313)
    BY DEF NamedOnce, SEN0313, Profile, IsInjective, ToSet
  <1>7. NamedOnce(AM307)
    BY DEF NamedOnce, AM307, Profile, IsInjective, ToSet
  <1>8. NamedOnce(Cubicmeter)
    BY DEF NamedOnce, Cubicmeter, Profile, IsInjective, ToSet
  <1>9. NamedOnce(CT101)
    BY DEF NamedOnce, CT101, Profile, IsInjective, ToSet
  <1>10. NamedOnce(HT)
    BY DEF NamedOnce, HT, Profile, IsInjective, ToSet
  <1>11. NamedOnce(RAK2270)
    BY DEF NamedOnce, RAK2270, Profile, IsInjective, ToSet
  <1>12. NamedOnce(RAK4630)
    BY DEF NamedOnce, RAK4630, Profile, IsInjective, ToSet
  <1>13. NamedOnce(RAK7200)
    BY DEF NamedOnce, RAK7200, Profile, IsInjective, ToSet
  <1>14. NamedOnce(T1000)
    BY DEF NamedOnce, T1000, Profile, IsInjective, ToSet
  <1>15. NamedOnce(T1000E)
    BY DEF NamedOnce, T1000E, Profile, IsInjective, ToSet
  <1>16. NamedOnce(TBeam)
    BY DEF NamedOnce, TBeam, Profile, IsInjective, ToSet
  <1>17. NamedOnce(WLBV1)
    BY DEF NamedOnce, WLBV1, Profile, IsInjective, ToSet
  <1>18. NamedOnce(YabbyEdge)
    BY DEF NamedOnce, YabbyEdge, Profile, IsInjective, ToSet
  <1>19. NamedOnce(G62)
    BY DEF NamedOnce, G62, Profile, IsInjective, ToSet
  <1> QED
    BY <1>1, <1>2, <1>3, <1>4, <1>5, <1>6, <1>7, <1>8, <1>9, <1>10, <1>11, <1>12, <1>13, <1>14, <1>15, <1>16, <1>17, <1>18, <1>19 DEF Registry

\* Entities whose names differ are as many as their names.
LEMMA NamesAreAsMany ==
    ASSUME NEW X, NEW out \in Seq(X), NEW names, IsInjective(names),
           DOMAIN names = DOMAIN out, \A n \in DOMAIN out : names[n] = out[n].key
    PROVE  Cardinality({out[n].key : n \in DOMAIN out}) = Len(out)
  <1>1. PICK N \in Nat : N = Len(out)
    OBVIOUS
  <1>2. DOMAIN out = 1 .. N
    BY <1>1
  <1>3. IsFiniteSet(1 .. N) /\ Cardinality(1 .. N) = N
    <2>1. PICK a \in Int : a = 1
      OBVIOUS
    <2>2. IsFiniteSet(a .. N) /\ Cardinality(a .. N) = IF a > N THEN 0 ELSE N - a + 1
      BY FS_Interval
    <2> QED
      BY <2>1, <2>2
  <1>4. PICK T : T = {out[n].key : n \in DOMAIN out}
    OBVIOUS
  <1>5. PICK f : f = [n \in 1 .. N |-> names[n]]
    OBVIOUS
  <1>6. f \in Injection(1 .. N, T)
    <2>1. \A n \in 1 .. N : names[n] \in T
      BY <1>2, <1>4
    <2> QED
      BY <1>2, <1>5, <2>1 DEF Injection, IsInjective
  <1>7. f \in Surjection(1 .. N, T)
    BY <1>2, <1>4, <1>5, <1>6 DEF Surjection, Injection
  <1>8. Cardinality(T) = Cardinality(1 .. N)
    BY <1>3, <1>6, <1>7, FS_Surjection
  <1> QED
    BY <1>1, <1>3, <1>4, <1>8

\* The location is told by the profiles that have one, and by itself.
LEMMA LocationIsNamed ==
    ASSUME NEW how, NEW decoded, NEW device, NEW loc, loc = LocationEntity(how, decoded, device)
    PROVE  \/ loc = <<>>
           \/ how \in {"reported", "computed"} /\ \E state : loc = <<Entity("location", state)>>
  BY DEF LocationEntity

\* The readings told are those that the profile names, in its order.
LEMMA ReadingsAreNamed ==
    ASSUME NEW keys, keys \in Seq(ToSet(keys)), NEW readings, IsInjective(keys)
    PROVE  LET ents == BuildEntitiesFromState(keys, readings)
               present == Filtered(keys, DOMAIN readings)
           IN  /\ present \in Seq(ToSet(keys)) /\ IsInjective(present)
               /\ ToSet(present) \subseteq ToSet(keys)
               /\ ents = [n \in DOMAIN present |-> ents[n]]
               /\ \A n \in DOMAIN present : ents[n].key = present[n]
  <1>1. PICK present : present = Filtered(keys, DOMAIN readings)
    OBVIOUS
  <1>2. BuildEntitiesFromState(keys, readings) =
          [n \in DOMAIN present |-> Entity(present[n], AlarmState(present[n], readings[present[n]]))]
    BY <1>1 DEF BuildEntitiesFromState, Filtered
  <1>3. /\ present \in Seq(ToSet(keys)) /\ IsInjective(present)
        /\ ToSet(present) \subseteq ToSet(keys)
    BY <1>1, FilteredIs, FilteredOnce
  <1> QED
    BY <1>1, <1>2, <1>3 DEF Entity

\* A profile's templates are its readings, and the location if it has one.
LEMMA TemplatesAre ==
    ASSUME NEW model \in DOMAIN Registry
    PROVE  /\ ToSet(Registry[model].keys) \subseteq ToSet(GetEntityTemplates(model))
           /\ Registry[model].location \in {"reported", "computed"} =>
                  "location" \in ToSet(GetEntityTemplates(model))
  <1>1. PICK profile : profile = Registry[model]
    OBVIOUS
  <1>2. PICK keys, X : keys = profile.keys /\ X = ToSet(keys) \cup {"location"}
    OBVIOUS
  <1>3. keys \in Seq(X)
    <2>1. keys \in Seq(ToSet(keys))
      BY <1>1, <1>2, KeysAreNamedOnce DEF NamedOnce
    <2> QED
      BY <1>2, <2>1
  <1>4. PICK t : t = (IF profile.location = "none" THEN <<>> ELSE <<"location">>) \o keys
    OBVIOUS
  <1>5. t = GetEntityTemplates(model)
    BY <1>1, <1>2, <1>4 DEF GetEntityTemplates
  <1>6. CASE profile.location = "none"
    <2>1. t = keys
      BY <1>3, <1>4, <1>6
    <2> QED
      BY <1>1, <1>2, <1>5, <1>6, <2>1
  <1>7. CASE profile.location # "none"
    <2>1. <<"location">> \in Seq(X) /\ t = <<"location">> \o keys
      BY <1>2, <1>4, <1>7
    <2>2. /\ t \in Seq(X) /\ Len(t) = Len(keys) + 1 /\ t[1] = "location"
          /\ \A n \in 1 .. Len(keys) : n + 1 \in 1 .. Len(t) /\ t[n + 1] = keys[n]
      BY <1>3, <2>1
    <2>3. 1 \in 1 .. Len(t) /\ DOMAIN t = 1 .. Len(t) /\ DOMAIN keys = 1 .. Len(keys)
      BY <1>3, <2>2
    <2>4. "location" \in ToSet(t) /\ ToSet(keys) \subseteq ToSet(t)
      BY <2>2, <2>3 DEF ToSet
    <2> QED
      BY <1>1, <1>2, <1>5, <2>4
  <1> QED
    BY <1>6, <1>7

\* What is told of a device is what its templates announced, each once
\* (ParseToEntities, GetEntityTemplates).
LEMMA EntitiesAreNamed ==
    ASSUME NEW model \in DOMAIN Registry, NEW raw, NEW device,
           NEW out, out = ParseToEntities(model, raw, device)
    PROVE  /\ {out[n].key : n \in DOMAIN out} \subseteq ToSet(GetEntityTemplates(model))
           /\ Cardinality({out[n].key : n \in DOMAIN out}) = Len(out)
  <1>1. PICK profile, readings, loc :
          /\ profile = Registry[model] /\ readings = Decode(model, raw).readings
          /\ loc = LocationEntity(profile.location, Decode(model, raw), device)
    OBVIOUS
  <1>2. PICK ents : ents = BuildEntitiesFromState(profile.keys, readings)
    OBVIOUS
  <1>3. out = loc \o ents
    BY <1>1, <1>2 DEF ParseToEntities
  <1>4. PICK keys : keys = profile.keys
    OBVIOUS
  <1>5. keys \in Seq(ToSet(keys)) /\ IsInjective(keys) /\ "location" \notin ToSet(keys)
    BY <1>1, <1>4, KeysAreNamedOnce DEF NamedOnce
  <1>6. PICK present : present = Filtered(keys, DOMAIN readings)
    OBVIOUS
  <1>7. /\ present \in Seq(ToSet(keys)) /\ IsInjective(present)
        /\ ToSet(present) \subseteq ToSet(keys)
        /\ ents = [n \in DOMAIN present |-> ents[n]]
        /\ \A n \in DOMAIN present : ents[n].key = present[n]
    BY <1>2, <1>4, <1>5, <1>6, ReadingsAreNamed
  <1>8. PICK N \in Nat : N = Len(present)
    BY <1>7
  <1>9. DOMAIN present = 1 .. N /\ DOMAIN ents = 1 .. N /\ \A n \in 1 .. N : present[n] \in ToSet(keys)
    BY <1>7, <1>8
  <1>10. PICK X : X = ToSet(ents) \cup ToSet(loc)
    OBVIOUS
  <1>11. ents \in Seq(X) /\ Len(ents) = N
    <2>1. \A n \in 1 .. N : ents[n] \in X
      BY <1>9, <1>10 DEF ToSet
    <2> QED
      BY <1>7, <1>8, <1>9, <2>1
  <1>12. CASE loc = <<>>
    <2>1. out = ents
      BY <1>3, <1>11, <1>12
    <2>2. \A n \in DOMAIN out : out[n].key \in ToSet(keys)
      BY <1>7, <1>9, <2>1
    <2>3. Cardinality({out[n].key : n \in DOMAIN out}) = Len(out)
      BY <1>7, <1>9, <1>11, <2>1, NamesAreAsMany
    <2> QED
      BY <2>2, <2>3, <1>1, <1>4, <1>5, TemplatesAre
  <1>13. CASE profile.location \in {"reported", "computed"} /\ \E state : loc = <<Entity("location", state)>>
    <2>1. PICK state : loc = <<Entity("location", state)>>
      BY <1>13
    <2>2. loc \in Seq(X) /\ Len(loc) = 1 /\ loc[1].key = "location"
      BY <1>10, <2>1 DEF ToSet, Entity
    <2>3. /\ out \in Seq(X) /\ Len(out) = N + 1 /\ out[1].key = "location"
          /\ \A n \in 2 .. N + 1 : out[n].key = present[n - 1]
      <3>0. /\ loc \o ents \in Seq(X) /\ Len(loc \o ents) = Len(loc) + Len(ents)
            /\ \A n \in 1 .. Len(loc) + Len(ents) :
                 (loc \o ents)[n] = IF n <= Len(loc) THEN loc[n] ELSE ents[n - Len(loc)]
        BY <1>11, <2>2, ConcatProperties
      <3>1. \A n \in 2 .. N + 1 : n - 1 \in 1 .. N /\ out[n] = ents[n - 1]
        BY <1>3, <1>11, <2>2, <3>0
      <3>2. out \in Seq(X) /\ Len(out) = N + 1 /\ out[1] = loc[1]
        BY <1>3, <1>11, <2>2, <3>0
      <3> QED
        BY <1>7, <1>9, <2>2, <3>1, <3>2
    <2>4. PICK names : names = [n \in 1 .. N + 1 |-> out[n].key]
      OBVIOUS
    <2>5. DOMAIN out = 1 .. N + 1
      BY <2>3
    <2>6. IsInjective(names)
      <3>1. ASSUME NEW a \in 1 .. N + 1, NEW b \in 1 .. N + 1, names[a] = names[b] PROVE a = b
        <4>1. CASE a = 1 /\ b = 1
          BY <4>1
        <4>2. CASE a # 1 /\ b # 1
          <5>1. a \in 2 .. N + 1 /\ b \in 2 .. N + 1 /\ a - 1 \in 1 .. N /\ b - 1 \in 1 .. N
            BY <4>2
          <5>2. present[a - 1] = present[b - 1]
            BY <2>3, <2>4, <3>1, <5>1
          <5>3. a - 1 = b - 1
            BY <1>7, <1>9, <5>1, <5>2 DEF IsInjective
          <5> QED
            BY <5>3
        <4>3. CASE (a = 1) # (b = 1)
          <5>1. PICK c \in 2 .. N + 1 : names[c] = names[1]
            BY <3>1, <4>3
          <5>2. c - 1 \in 1 .. N /\ names[c] = present[c - 1] /\ names[1] = "location"
            BY <2>3, <2>4
          <5> QED
            BY <1>5, <1>9, <5>1, <5>2
        <4> QED
          BY <4>1, <4>2, <4>3
      <3>2. DOMAIN names = 1 .. N + 1
        BY <2>4
      <3> QED
        BY <3>1, <3>2 DEF IsInjective
    <2>7. Cardinality({out[n].key : n \in DOMAIN out}) = Len(out)
      <3>1. DOMAIN names = DOMAIN out /\ \A n \in DOMAIN out : names[n] = out[n].key
        BY <2>4, <2>5
      <3> QED
        BY <2>3, <2>6, <3>1, NamesAreAsMany
    <2>8. \A n \in DOMAIN out : out[n].key \in ToSet(keys) \cup {"location"}
      <3>1. ASSUME NEW n \in 2 .. N + 1 PROVE out[n].key \in ToSet(keys)
        <4>1. n - 1 \in 1 .. N
          OBVIOUS
        <4> QED
          BY <1>9, <2>3, <4>1
      <3>2. \A n \in DOMAIN out : n = 1 \/ n \in 2 .. N + 1
        BY <2>5
      <3> QED
        BY <2>3, <3>1, <3>2
    <2> QED
      BY <1>1, <1>4, <1>5, <1>13, <2>7, <2>8, TemplatesAre
  <1> QED
    BY <1>1, <1>12, <1>13, LocationIsNamed

\* What a network server sends has no field of the HTTP API's messages.
UplinksAreNoApiMessages == \A n \in DOMAIN Deliveries : NoApiMessage(Deliveries[n])

Declared ==
    /\ EntityKeys \subseteq ToSet(GetEntityTemplates(delivery.profile))
    /\ Cardinality(EntityKeys) = Len(entities)

\* Until a message is parsed it tells nothing; from then on what it tells is
\* declared, unless it came through the HTTP API.
ToldInv ==
    /\ phase \in {"idle", "received"} => entities = <<>>
    /\ phase # "idle" => \E n \in DOMAIN Deliveries : delivery = Deliveries[n]
    /\ phase \notin {"idle", "received"} =>
           payload = MessageOf(delivery.body) /\ (isAPIMessage(payload) \/ Declared)

\* Nothing told is declared.
LEMMA NothingIsDeclared == entities = <<>> => Declared
  <1> SUFFICES ASSUME entities = <<>> PROVE Declared
    OBVIOUS
  <1>1. EntityKeys = {} /\ Len(entities) = 0
    BY DEF EntityKeys
  <1> QED
    BY <1>1, FS_EmptySet DEF Declared

\* Every step of the consumer keeps it (UplinkNext).
LEMMA ToldStep ==
    ASSUME ToldInv, UplinkNext
    PROVE  ToldInv'
  <1>1. CASE Receive
    BY <1>1 DEF Receive, ToldInv
  <1>2. CASE ParseMessage
    <2>1. entities = <<>> /\ UNCHANGED <<delivery, entities>> /\ phase' = "parsed" /\ phase # "idle"
      BY <1>2 DEF ParseMessage, ToldInv
    <2>2. payload' = MessageOf(delivery.body)
      BY <1>2 DEF ParseMessage, MessageOf
    <2>3. Declared'
      <3>1. Declared
        BY <2>1, NothingIsDeclared
      <3> QED
        BY <2>1, <3>1 DEF Declared, EntityKeys
    <2> QED
      BY <2>1, <2>2, <2>3 DEF ToldInv
  <1>3. ASSUME phase \notin {"idle", "received"}, phase' \notin {"idle", "received"},
               UNCHANGED <<delivery, payload, entities>>
        PROVE  ToldInv'
    <2>1. Declared => Declared'
      BY <1>3 DEF Declared, EntityKeys
    <2> QED
      BY <1>3, <2>1 DEF ToldInv
  <1>4. CASE RouteEvent
    BY <1>3, <1>4 DEF RouteEvent
  <1>5. CASE Resolve
    <2>1. phase = "parsed" /\ phase' \in {"failed", "located"} /\ UNCHANGED <<delivery, payload, entities>>
      BY <1>5 DEF Resolve
    <2> QED
      BY <1>3, <2>1
  <1>6. CASE ProcessEntities
    <2>1. /\ phase = "located" /\ phase' \in {"published", "untold"}
          /\ UNCHANGED <<delivery, payload>>
          /\ \/ entities' = <<>>
             \/ /\ CanHandle(delivery.profile)
                /\ \E raw, device : entities' = ParseToEntities(delivery.profile, raw, device)
      BY <1>6 DEF ProcessEntities
    <2>2. CASE entities' = <<>>
      <3>1. EntityKeys' = {} /\ Len(entities') = 0
        BY <2>2 DEF EntityKeys
      <3>2. Declared'
        BY <3>1, FS_EmptySet DEF Declared
      <3> QED
        BY <2>1, <3>2 DEF ToldInv
    <2>3. ASSUME CanHandle(delivery.profile), NEW raw, NEW device,
                 entities' = ParseToEntities(delivery.profile, raw, device)
          PROVE  ToldInv'
      <3>1. delivery.profile \in DOMAIN Registry
        BY <2>3 DEF CanHandle
      <3>2. PICK model, out : model = delivery.profile /\ out = ParseToEntities(model, raw, device)
        OBVIOUS
      <3>3. /\ {out[n].key : n \in DOMAIN out} \subseteq ToSet(GetEntityTemplates(model))
            /\ Cardinality({out[n].key : n \in DOMAIN out}) = Len(out)
        BY <3>1, <3>2, EntitiesAreNamed
      <3>4. Declared'
        BY <2>1, <2>3, <3>2, <3>3 DEF Declared, EntityKeys
      <3> QED
        BY <2>1, <3>4 DEF ToldInv
    <2> QED
      BY <2>1, <2>2, <2>3
  <1>7. CASE HandleAPIMessage
    <2>1. /\ phase = "parsed" /\ isAPIMessage(payload) /\ UNCHANGED <<delivery, payload>>
          /\ phase' \in {"failed", "published"}
      BY <1>7 DEF HandleAPIMessage
    <2> QED
      BY <2>1 DEF ToldInv
  <1>8. CASE NextMessage
    BY <1>8 DEF NextMessage, ToldInv
  <1> QED
    BY <1>1, <1>2, <1>4, <1>5, <1>6, <1>7, <1>8 DEF UplinkNext

\* The entities of a device are among those its templates announced when it was
\* added, each told once (ParseToEntities, GetEntityTemplates): for any bytes, any
\* readings and any position, of each of the 19 profiles.
THEOREM EntitiesStayDeclared == ASSUME UplinksAreNoApiMessages PROVE Spec => []EntitiesAreDeclared
  <1>1. Init => ToldInv
    BY DEF Init, Idling, ToldInv
  <1>2. ToldInv /\ [Next]_<<vars, apiVars, gateways>> => ToldInv'
    <2>1. ASSUME ToldInv, UNCHANGED vars PROVE ToldInv'
      BY <2>1 DEF vars, ToldInv, Declared, EntityKeys
    <2> QED
      BY <2>1, ToldStep DEF Next, Consume, Serve, Locate
  <1>3. ToldInv => EntitiesAreDeclared
    <2> SUFFICES ASSUME ToldInv, Done("uplink") \/ Done("cut") PROVE Declared
      BY DEF EntitiesAreDeclared, Declared
    <2>1. phase \notin {"idle", "received"} /\ delivery.kind \in {"uplink", "cut"}
      BY DEF Done, Ended
    <2>2. ~isAPIMessage(payload)
      BY <2>1, UplinksAreNoApiMessages DEF ToldInv, UplinksAreNoApiMessages, NoApiMessage
    <2> QED
      BY <2>1, <2>2 DEF ToldInv
  <1> QED
    BY <1>1, <1>2, <1>3, PTL DEF Spec

-----------------------------------------------------------------------------
\* Where the resolver and the entity parser look.

\* A path of up to three names is followed name by name.
LEMMA FollowPath ==
    ASSUME NEW m, NEW a, NEW b, NEW c
    PROVE  /\ Follow(m, <<a>>) = Field(m, a)
           /\ Follow(m, <<a, b>>) = Field(Field(m, a), b)
           /\ Follow(m, <<a, b, c>>) = Field(Field(Field(m, a), b), c)
  <1> DEFINE Eq(at, path) == at = [n \in 0 .. Len(path) |-> IF n = 0 THEN m
                                                         ELSE Field(at[n - 1], path[n])]
             It(path) == CHOOSE at : Eq(at, path)
  <1>1. PICK x, y, z : x = Field(m, a) /\ y = Field(x, b) /\ z = Field(y, c)
    OBVIOUS
  <1>2. PICK full : full = [n \in 0 .. 3 |-> IF n = 0 THEN m ELSE IF n = 1 THEN x
                                             ELSE IF n = 2 THEN y ELSE z]
    OBVIOUS
  <1>3. ASSUME NEW path, NEW N \in 1 .. 3, N = Len(path), path[1] = a,
               N >= 2 => path[2] = b, N = 3 => path[3] = c
        PROVE  Follow(m, path) = IF N = 1 THEN x ELSE IF N = 2 THEN y ELSE z
    <2>1. Follow(m, path) = It(path)[N]
      BY <1>3 DEF Follow
    <2>2. \E at : Eq(at, path)
      <3>1. PICK at : at = [n \in 0 .. N |-> full[n]]
        OBVIOUS
      <3>2. ASSUME NEW n \in 0 .. N, n # 0 PROVE at[n] = Field(at[n - 1], path[n])
        <4>1. n - 1 \in 0 .. N /\ n \in 1 .. 3 /\ at[n] = full[n] /\ at[n - 1] = full[n - 1]
          BY <3>1, <3>2
        <4>2. n = 1 \/ n = 2 \/ n = 3
          BY <4>1
        <4> QED
          BY <1>1, <1>2, <1>3, <4>1, <4>2
      <3>3. at[0] = m
        BY <1>2, <3>1
      <3>4. at = [n \in 0 .. N |-> IF n = 0 THEN m ELSE Field(at[n - 1], path[n])]
        BY <3>1, <3>2, <3>3
      <3> QED
        BY <1>3, <3>4
    <2>3. PICK it : it = It(path) /\ Eq(it, path)
      BY <2>2
    <2>4. \A n \in 0 .. N : it[n] = IF n = 0 THEN m ELSE Field(it[n - 1], path[n])
      BY <1>3, <2>3
    <2> HIDE DEF It
    <2>5. it[0] = m /\ it[1] = x
      BY <1>1, <1>3, <2>4
    <2>6. N >= 2 => it[2] = y
      BY <1>1, <1>3, <2>4, <2>5
    <2>7. N = 3 => it[3] = z
      BY <1>1, <1>3, <2>4, <2>6
    <2> QED
      BY <2>1, <2>3, <2>5, <2>6, <2>7
  <1> HIDE DEF It
  <1>4. Follow(m, <<a>>) = x
    BY <1>3
  <1>5. Follow(m, <<a, b>>) = y
    BY <1>3
  <1>6. Follow(m, <<a, b, c>>) = z
    BY <1>3
  <1> QED
    BY <1>1, <1>4, <1>5, <1>6

LEMMA FollowIs ==
    ASSUME NEW m
    PROVE  /\ \A a : Follow(m, <<a>>) = Field(m, a)
           /\ \A a, b : Follow(m, <<a, b>>) = Field(Field(m, a), b)
           /\ \A a, b, c : Follow(m, <<a, b, c>>) = Field(Field(Field(m, a), b), c)
  <1> DEFINE One(a) == Follow(m, <<a>>) = Field(m, a)
             Two(a, b) == Follow(m, <<a, b>>) = Field(Field(m, a), b)
             Three(a, b, c) == Follow(m, <<a, b, c>>) = Field(Field(Field(m, a), b), c)
  <1>1. ASSUME NEW a, NEW b, NEW c PROVE One(a) /\ Two(a, b) /\ Three(a, b, c)
    BY FollowPath
  <1> HIDE DEF One, Two, Three
  <1>2. (\A a : One(a)) /\ (\A a, b : Two(a, b)) /\ \A a, b, c : Three(a, b, c)
    BY <1>1, Zenon
  <1> QED
    BY <1>2, Zenon DEF One, Two, Three

\* The first path that leads somewhere is taken.
LEMMA LookIs ==
    ASSUME NEW m, NEW paths, DOMAIN paths \in SUBSET Nat
    PROVE  /\ (\A n \in DOMAIN paths : Follow(m, paths[n]) = <<>>) => Look(m, paths) = <<>>
           /\ \A k \in DOMAIN paths :
                  /\ Follow(m, paths[k]) # <<>>
                  /\ \A n \in DOMAIN paths : n < k => Follow(m, paths[n]) = <<>>
                  => Look(m, paths) = Follow(m, paths[k])
  <1>1. PICK hits : hits = {n \in DOMAIN paths : Follow(m, paths[n]) # <<>>}
    OBVIOUS
  <1>2. Look(m, paths) = IF hits = {} THEN <<>> ELSE Follow(m, paths[Min(hits)])
    BY <1>1 DEF Look
  <1>3. ASSUME NEW k \in DOMAIN paths, Follow(m, paths[k]) # <<>>,
               \A n \in DOMAIN paths : n < k => Follow(m, paths[n]) = <<>>
        PROVE  hits # {} /\ Min(hits) = k
    <2>1. k \in hits /\ hits \in SUBSET Nat /\ \A n \in hits : k <= n
      BY <1>1, <1>3
    <2> QED
      BY <2>1 DEF Min
  <1>4. (\A n \in DOMAIN paths : Follow(m, paths[n]) = <<>>) => hits = {}
    BY <1>1
  <1> QED
    BY <1>2, <1>3, <1>4

\* What is found in a message that is wrapped at most once.
LEMMA ExtractIs ==
    ASSUME NEW m, NEW before, NEW after, NEW w, w = Wrapped(m),
           "decoded_raw_data" \notin DOMAIN w
    PROVE  Extract(m, before, after) =
             IF Look(m, before) # <<>> THEN Look(m, before)
             ELSE IF "decoded_raw_data" \notin DOMAIN m THEN Look(m, after)
             ELSE IF Look(w, before) # <<>> THEN Look(w, before)
             ELSE Look(w, after)
  <1> DEFINE EqL(f) == f = [n \in Nat |-> IF n = 0 THEN m ELSE Wrapped(f[n - 1])]
             L == CHOOSE f : EqL(f)
             EqF(g, f) == g = [n \in Nat |->
                            IF Look(f[n], before) # <<>> THEN Look(f[n], before)
                            ELSE IF "decoded_raw_data" \in DOMAIN f[n] THEN g[n + 1]
                            ELSE Look(f[n], after)]
             F == CHOOSE g : EqF(g, L)
  <1>1. Extract(m, before, after) = F[0]
    BY DEF Extract
  <1>2. Wrapped(w) = <<>> /\ Wrapped(<<>>) = <<>> /\ "decoded_raw_data" \notin DOMAIN <<>>
    BY DEF Wrapped, Field
  <1>3. \E f : EqL(f)
    <2>1. PICK f : f = [n \in Nat |-> IF n = 0 THEN m ELSE IF n = 1 THEN w ELSE <<>>]
      OBVIOUS
    <2>2. ASSUME NEW n \in Nat, n # 0 PROVE f[n] = Wrapped(f[n - 1])
      <3>1. CASE n = 1
        BY <2>1, <3>1
      <3>2. CASE n # 1
        <4>1. f[n] = <<>> /\ n - 1 \in Nat /\ n - 1 # 0
          BY <2>1, <2>2, <3>2
        <4>2. f[n - 1] \in {w, <<>>}
          BY <2>1, <4>1
        <4> QED
          BY <1>2, <4>1, <4>2
      <3> QED
        BY <3>1, <3>2
    <2>3. f = [n \in Nat |-> IF n = 0 THEN m ELSE Wrapped(f[n - 1])]
      BY <2>1, <2>2
    <2> QED
      BY <2>3
  <1>4. PICK f : f = L /\ EqL(f)
    BY <1>3
  <1>5. f[0] = m /\ f[1] = w /\ \A n \in Nat : n >= 2 => f[n] = <<>>
    <2>1. \A n \in Nat : f[n] = IF n = 0 THEN m ELSE Wrapped(f[n - 1])
      BY <1>4
    <2> HIDE DEF L
    <2>2. f[0] = m /\ f[1] = w
      BY <2>1
    <2>3. PICK Q : Q = {n \in Nat : f[n + 2] = <<>>}
      OBVIOUS
    <2>4. 0 \in Q
      BY <1>2, <2>1, <2>2, <2>3
    <2>5. ASSUME NEW n \in Q PROVE n + 1 \in Q
      <3>1. n \in Nat /\ f[n + 2] = <<>> /\ n + 3 \in Nat /\ n + 3 # 0 /\ n + 3 - 1 = n + 2
        BY <2>3
      <3>2. f[n + 3] = <<>>
        BY <1>2, <2>1, <3>1
      <3> QED
        BY <2>3, <3>1, <3>2
    <2>6. ASSUME NEW n \in Nat PROVE n \in Q
      <3>1. 0 .. n \subseteq Q
        <4>1. \A i \in 0 .. n - 1 : i \in Q => i + 1 \in Q
          BY <2>5
        <4> QED
          BY <2>4, <4>1, UpTo
      <3> QED
        BY <3>1
    <2>7. ASSUME NEW n \in Nat, n >= 2 PROVE f[n] = <<>>
      <3>1. n - 2 \in Q /\ n - 2 + 2 = n
        BY <2>6, <2>7
      <3> QED
        BY <2>3, <3>1
    <2> QED
      BY <2>2, <2>7
  <1>6. PICK stop, deep : /\ stop = IF Look(w, before) # <<>> THEN Look(w, before) ELSE Look(w, after)
                          /\ deep = IF Look(<<>>, before) # <<>> THEN Look(<<>>, before)
                                    ELSE Look(<<>>, after)
    OBVIOUS
  <1>7. PICK first : first = IF Look(m, before) # <<>> THEN Look(m, before)
                             ELSE IF "decoded_raw_data" \in DOMAIN m THEN stop
                             ELSE Look(m, after)
    OBVIOUS
  <1>8. \E g : EqF(g, f)
    <2>1. PICK g : g = [n \in Nat |-> IF n = 0 THEN first ELSE IF n = 1 THEN stop ELSE deep]
      OBVIOUS
    <2>2. ASSUME NEW n \in Nat
          PROVE  g[n] = IF Look(f[n], before) # <<>> THEN Look(f[n], before)
                        ELSE IF "decoded_raw_data" \in DOMAIN f[n] THEN g[n + 1]
                        ELSE Look(f[n], after)
      <3>1. CASE n = 0
        <4>1. f[n] = m /\ g[n] = first /\ g[n + 1] = stop
          BY <1>5, <2>1, <3>1
        <4> QED
          BY <1>7, <4>1
      <3>2. CASE n = 1
        <4>1. f[n] = w /\ g[n] = stop
          BY <1>5, <2>1, <3>2
        <4> QED
          BY <1>6, <4>1
      <3>3. CASE n >= 2
        <4>1. f[n] = <<>> /\ g[n] = deep
          BY <1>5, <2>1, <3>3
        <4> QED
          BY <1>2, <1>6, <4>1
      <3> QED
        BY <3>1, <3>2, <3>3
    <2>3. g = [n \in Nat |-> g[n]]
      BY <2>1
    <2>4. EqF(g, f)
      BY <2>2, <2>3
    <2> QED
      BY <2>4
  <1>9. PICK g : g = F /\ EqF(g, L)
    <2> HIDE DEF L
    <2>1. f = L
      BY <1>4
    <2>2. \E g : EqF(g, L)
      <3> HIDE DEF EqF
      <3> QED
        BY <1>8, <2>1
    <2> HIDE DEF EqF
    <2> QED
      BY <2>2
  <1>10. \A n \in Nat : g[n] = IF Look(f[n], before) # <<>> THEN Look(f[n], before)
                               ELSE IF "decoded_raw_data" \in DOMAIN f[n] THEN g[n + 1]
                               ELSE Look(f[n], after)
    <2>1. EqF(g, f)
      <3> HIDE DEF L, EqF
      <3> QED
        BY <1>4, <1>9
    <2>2. g = [n \in Nat |-> IF Look(f[n], before) # <<>> THEN Look(f[n], before)
                             ELSE IF "decoded_raw_data" \in DOMAIN f[n] THEN g[n + 1]
                             ELSE Look(f[n], after)]
      BY <2>1
    <2> QED
      BY <2>2
  <1> HIDE DEF L, F, EqF, EqL
  <1>11. g[1] = stop
    BY <1>5, <1>6, <1>10
  <1>12. g[0] = IF Look(m, before) # <<>> THEN Look(m, before)
                ELSE IF "decoded_raw_data" \in DOMAIN m THEN g[1]
                ELSE Look(m, after)
    BY <1>5, <1>10
  <1> QED
    BY <1>1, <1>6, <1>9, <1>11, <1>12

\* What is looked for in a message by a path that it has not, or that leads into it.
LEMMA FieldOfNothing ==
    ASSUME NEW key
    PROVE  Field(<<>>, key) = <<>>
  BY DEF Field

LEMMA NothingThere ==
    ASSUME NEW m, NEW a, a \notin DOMAIN m
    PROVE  /\ Follow(m, <<a>>) = <<>>
           /\ \A b : Follow(m, <<a, b>>) = <<>>
           /\ \A b, c : Follow(m, <<a, b, c>>) = <<>>
  <1>1. Field(m, a) = <<>>
    BY DEF Field
  <1>2. ASSUME NEW b, NEW c
        PROVE  Field(Field(m, a), b) = <<>> /\ Field(Field(Field(m, a), b), c) = <<>>
    BY <1>1, FieldOfNothing
  <1> QED
    BY <1>1, <1>2, FollowIs

\* Four paths, of which the first that leads somewhere is taken.
LEMMA LookFour ==
    ASSUME NEW m, NEW p, NEW q, NEW r, NEW s
    PROVE  Look(m, <<p, q, r, s>>) =
             IF Follow(m, p) # <<>> THEN Follow(m, p)
             ELSE IF Follow(m, q) # <<>> THEN Follow(m, q)
             ELSE IF Follow(m, r) # <<>> THEN Follow(m, r)
             ELSE Follow(m, s)
  <1>1. PICK paths : paths = <<p, q, r, s>>
    OBVIOUS
  <1>2. /\ DOMAIN paths = {1, 2, 3, 4} /\ DOMAIN paths \in SUBSET Nat
        /\ paths[1] = p /\ paths[2] = q /\ paths[3] = r /\ paths[4] = s
    BY <1>1
  <1>3. CASE Follow(m, p) # <<>>
    <2>1. Look(m, paths) = Follow(m, paths[1])
      BY <1>2, <1>3, LookIs
    <2> QED
      BY <1>1, <1>2, <1>3, <2>1
  <1>4. CASE Follow(m, p) = <<>> /\ Follow(m, q) # <<>>
    <2>1. Look(m, paths) = Follow(m, paths[2])
      BY <1>2, <1>4, LookIs
    <2> QED
      BY <1>1, <1>2, <1>4, <2>1
  <1>5. CASE Follow(m, p) = <<>> /\ Follow(m, q) = <<>> /\ Follow(m, r) # <<>>
    <2>1. Look(m, paths) = Follow(m, paths[3])
      BY <1>2, <1>5, LookIs
    <2> QED
      BY <1>1, <1>2, <1>5, <2>1
  <1>6. CASE Follow(m, p) = <<>> /\ Follow(m, q) = <<>> /\ Follow(m, r) = <<>>
    <2>1. Look(m, paths) = Follow(m, s)
      BY <1>2, <1>6, LookIs
    <2> QED
      BY <1>1, <1>6, <2>1
  <1> QED
    BY <1>3, <1>4, <1>5, <1>6

LEMMA LookThree ==
    ASSUME NEW m, NEW p, NEW q, NEW r
    PROVE  Look(m, <<p, q, r>>) =
             IF Follow(m, p) # <<>> THEN Follow(m, p)
             ELSE IF Follow(m, q) # <<>> THEN Follow(m, q)
             ELSE Follow(m, r)
  <1>1. PICK paths : paths = <<p, q, r>>
    OBVIOUS
  <1>2. /\ DOMAIN paths = {1, 2, 3} /\ DOMAIN paths \in SUBSET Nat
        /\ paths[1] = p /\ paths[2] = q /\ paths[3] = r
    BY <1>1
  <1>3. CASE Follow(m, p) # <<>>
    <2>1. Look(m, paths) = Follow(m, paths[1])
      BY <1>2, <1>3, LookIs
    <2> QED
      BY <1>1, <1>2, <1>3, <2>1
  <1>4. CASE Follow(m, p) = <<>> /\ Follow(m, q) # <<>>
    <2>1. Look(m, paths) = Follow(m, paths[2])
      BY <1>2, <1>4, LookIs
    <2> QED
      BY <1>1, <1>2, <1>4, <2>1
  <1>5. CASE Follow(m, p) = <<>> /\ Follow(m, q) = <<>>
    <2>1. Look(m, paths) = Follow(m, r)
      BY <1>2, <1>5, LookIs
    <2> QED
      BY <1>1, <1>5, <2>1
  <1> QED
    BY <1>3, <1>4, <1>5

LEMMA LookFew ==
    ASSUME NEW m, NEW p
    PROVE  Look(m, <<>>) = <<>> /\ Look(m, <<p>>) = Follow(m, p)
  <1>1. PICK one : one = <<p>>
    OBVIOUS
  <1>2. DOMAIN one = {1} /\ DOMAIN one \in SUBSET Nat /\ one[1] = p
    BY <1>1
  <1>3. Look(m, one) = Follow(m, p)
    BY <1>2, LookIs
  <1>4. PICK none : none = <<>>
    OBVIOUS
  <1>5. DOMAIN none = {} /\ DOMAIN none \in SUBSET Nat
    BY <1>4
  <1>6. Look(m, none) = <<>>
    BY <1>5, LookIs
  <1> QED
    BY <1>1, <1>3, <1>4, <1>6

\* The bytes that are decoded are those of the field where the server puts them or,
\* if there is none, of "data"; the data handed over never change them.
Either(m, path) == IF Follow(m, path) # <<>> THEN Follow(m, path) ELSE Follow(m, <<"data">>)
BytesOf(found) == IF found # <<>> /\ found[1].ok THEN found[1].bytes ELSE <<>>
DataPath == [chirpstack |-> <<"uplinkEvent", "data">>,
             ttn |-> <<"uplink_message", "frm_payload">>, helium |-> <<"payload">>]

\* The message w, and the message m that wraps it and holds nothing else to be read.
Wraps(m, w) ==
    /\ "decoded_raw_data" \in DOMAIN m /\ m["decoded_raw_data"] = w
    /\ DOMAIN m \subseteq {"decoded_raw_data", "metadata", "raw_data"}
    /\ "decoded_raw_data" \notin DOMAIN w

LEMMA FieldOfWrapped ==
    ASSUME NEW m, NEW w, Wraps(m, w), NEW lns \in LNSTypes,
           NEW field \in {"FPort", "PayloadData"}
    PROVE  ExtractField(m, lns, field) = ExtractField(w, lns, field)
  <1>1. PICK before : before = Handlers[lns][field]
    OBVIOUS
  <1>2. PICK after : after = IF field \in DOMAIN Handlers[lns].After
                             THEN Handlers[lns].After[field] ELSE <<>>
    OBVIOUS
  <1>3. \A msg : ExtractField(msg, lns, field) = Extract(msg, before, after)
    BY <1>1, <1>2 DEF ExtractField
  <1>4. DOMAIN before \in SUBSET Nat /\ \A n \in DOMAIN before : Follow(m, before[n]) = <<>>
    <2>1. \A a : a \notin {"decoded_raw_data", "metadata", "raw_data"} =>
             Follow(m, <<a>>) = <<>> /\ \A b : Follow(m, <<a, b>>) = <<>>
      BY NothingThere DEF Wraps
    <2>2. CASE lns = "chirpstack" /\ field = "FPort"
      <3>1. before = <<<<"fPort">>, <<"uplinkEvent", "fPort">>>>
        BY <1>1, <2>2 DEF Handlers, ChirpStack
      <3>2. DOMAIN before = {1, 2} /\ DOMAIN before \in SUBSET Nat
        BY <3>1
      <3>3. before[1] = <<"fPort">> /\ before[2] = <<"uplinkEvent", "fPort">>
        BY <3>1
      <3>4. /\ Follow(m, <<"fPort">>) = <<>>
            /\ Follow(m, <<"uplinkEvent", "fPort">>) = <<>>
        BY <2>1
      <3> QED
        BY <3>2, <3>3, <3>4
    <2>3. CASE lns = "chirpstack" /\ field = "PayloadData"
      <3>1. before = <<<<"uplinkEvent", "data">>>>
        BY <1>1, <2>3 DEF Handlers, ChirpStack
      <3>2. DOMAIN before = {1} /\ DOMAIN before \in SUBSET Nat
        BY <3>1
      <3>3. before[1] = <<"uplinkEvent", "data">>
        BY <3>1
      <3>4. /\ Follow(m, <<"uplinkEvent", "data">>) = <<>>
        BY <2>1
      <3> QED
        BY <3>2, <3>3, <3>4
    <2>4. CASE lns = "ttn" /\ field = "FPort"
      <3>1. before = <<<<"uplink_message", "f_port">>>>
        BY <1>1, <2>4 DEF Handlers, TTN
      <3>2. DOMAIN before = {1} /\ DOMAIN before \in SUBSET Nat
        BY <3>1
      <3>3. before[1] = <<"uplink_message", "f_port">>
        BY <3>1
      <3>4. /\ Follow(m, <<"uplink_message", "f_port">>) = <<>>
        BY <2>1
      <3> QED
        BY <3>2, <3>3, <3>4
    <2>5. CASE lns = "ttn" /\ field = "PayloadData"
      <3>1. before = <<<<"uplink_message", "frm_payload">>>>
        BY <1>1, <2>5 DEF Handlers, TTN
      <3>2. DOMAIN before = {1} /\ DOMAIN before \in SUBSET Nat
        BY <3>1
      <3>3. before[1] = <<"uplink_message", "frm_payload">>
        BY <3>1
      <3>4. /\ Follow(m, <<"uplink_message", "frm_payload">>) = <<>>
        BY <2>1
      <3> QED
        BY <3>2, <3>3, <3>4
    <2>6. CASE lns = "helium" /\ field = "FPort"
      <3>1. before = <<<<"fport">>, <<"f_port">>, <<"fPort">>, <<"port">>>>
        BY <1>1, <2>6 DEF Handlers, Helium, Keys
      <3>2. DOMAIN before = {1, 2, 3, 4} /\ DOMAIN before \in SUBSET Nat
        BY <3>1
      <3>3. before[1] = <<"fport">> /\ before[2] = <<"f_port">> /\ before[3] = <<"fPort">> /\ before[4] = <<"port">>
        BY <3>1
      <3>4. /\ Follow(m, <<"fport">>) = <<>>
            /\ Follow(m, <<"f_port">>) = <<>>
            /\ Follow(m, <<"fPort">>) = <<>>
            /\ Follow(m, <<"port">>) = <<>>
        BY <2>1
      <3> QED
        BY <3>2, <3>3, <3>4
    <2>7. CASE lns = "helium" /\ field = "PayloadData"
      <3>1. before = <<<<"payload">>, <<"data">>, <<"frm_payload">>>>
        BY <1>1, <2>7 DEF Handlers, Helium, Keys
      <3>2. DOMAIN before = {1, 2, 3} /\ DOMAIN before \in SUBSET Nat
        BY <3>1
      <3>3. before[1] = <<"payload">> /\ before[2] = <<"data">> /\ before[3] = <<"frm_payload">>
        BY <3>1
      <3>4. /\ Follow(m, <<"payload">>) = <<>>
            /\ Follow(m, <<"data">>) = <<>>
            /\ Follow(m, <<"frm_payload">>) = <<>>
        BY <2>1
      <3> QED
        BY <3>2, <3>3, <3>4
    <2> QED
      BY <2>2, <2>3, <2>4, <2>5, <2>6, <2>7 DEF LNSTypes
  <1>5. Look(m, before) = <<>>
    BY <1>4, LookIs
  <1>6. Wrapped(m) = w /\ Wrapped(w) = <<>> /\ "decoded_raw_data" \notin DOMAIN <<>>
    BY DEF Wraps, Wrapped, Field
  <1>7. Extract(m, before, after) = IF Look(w, before) # <<>> THEN Look(w, before)
                                    ELSE Look(w, after)
    BY <1>5, <1>6, ExtractIs DEF Wraps
  <1>8. Extract(w, before, after) = IF Look(w, before) # <<>> THEN Look(w, before)
                                    ELSE Look(w, after)
    BY <1>6, ExtractIs DEF Wraps
  <1> QED
    BY <1>3, <1>7, <1>8

\* Where the data of a bare message are, and that the bytes of both are decoded
\* from there.
LEMMA DataOfBare ==
    ASSUME NEW m, "decoded_raw_data" \notin DOMAIN m, NEW lns \in LNSTypes,
           lns = "helium" => "frm_payload" \notin DOMAIN m
    PROVE  /\ ExtractField(m, lns, "PayloadData") = Either(m, DataPath[lns])
           /\ Look(m, Handlers[lns].PayloadBytes) = Either(m, DataPath[lns])
  <1>1. /\ Wrapped(m) = <<>> /\ "decoded_raw_data" \notin DOMAIN <<>>
        /\ \A b : Follow(m, <<"decoded_raw_data", b>>) = <<>>
        /\ \A b, c : Follow(m, <<"decoded_raw_data", b, c>>) = <<>>
    <2>1. ASSUME NEW b, NEW c
          PROVE  /\ Follow(m, <<"decoded_raw_data", b>>) = <<>>
                 /\ Follow(m, <<"decoded_raw_data", b, c>>) = <<>>
      BY NothingThere
    <2>2. Wrapped(m) = <<>> /\ "decoded_raw_data" \notin DOMAIN <<>>
      BY DEF Wrapped, Field
    <2> QED
      BY <2>1, <2>2
  <1>2. \A before, after : Extract(m, before, after) =
                             IF Look(m, before) # <<>> THEN Look(m, before) ELSE Look(m, after)
    BY <1>1, ExtractIs
  <1>3. PICK data : data = Follow(m, <<"data">>)
    OBVIOUS
  <1>4. PICK own : own = Follow(m, DataPath[lns])
    OBVIOUS
  <1>5. Either(m, DataPath[lns]) = IF own # <<>> THEN own ELSE data
    BY <1>3, <1>4 DEF Either
  <1>6. CASE lns = "chirpstack"
    <2>1. own = Follow(m, <<"uplinkEvent", "data">>)
      BY <1>4, <1>6 DEF DataPath
    <2>2. ExtractField(m, lns, "PayloadData") =
             Extract(m, <<<<"uplinkEvent", "data">>>>, <<<<"data">>>>)
      BY <1>6 DEF ExtractField, Handlers, ChirpStack, LNSTypes
    <2>3. Handlers[lns].PayloadBytes =
             <<<<"uplinkEvent", "data">>, <<"decoded_raw_data", "uplinkEvent", "data">>,
               <<"decoded_raw_data", "data">>, <<"data">>>>
      BY <1>6 DEF Handlers, ChirpStack
    <2>4. ExtractField(m, lns, "PayloadData") = IF own # <<>> THEN own ELSE data
      BY <1>2, <1>3, <2>1, <2>2, LookFew
    <2>5. Look(m, Handlers[lns].PayloadBytes) = IF own # <<>> THEN own ELSE data
      BY <1>1, <1>3, <2>1, <2>3, LookFour
    <2> QED
      BY <1>5, <2>4, <2>5
  <1>7. CASE lns = "ttn"
    <2>1. own = Follow(m, <<"uplink_message", "frm_payload">>)
      BY <1>4, <1>7 DEF DataPath
    <2>2. ExtractField(m, lns, "PayloadData") =
             Extract(m, <<<<"uplink_message", "frm_payload">>>>, <<<<"data">>>>)
      BY <1>7 DEF ExtractField, Handlers, TTN, LNSTypes
    <2>3. Handlers[lns].PayloadBytes =
             <<<<"uplink_message", "frm_payload">>,
               <<"decoded_raw_data", "uplink_message", "frm_payload">>,
               <<"decoded_raw_data", "data">>, <<"data">>>>
      BY <1>7 DEF Handlers, TTN
    <2>4. ExtractField(m, lns, "PayloadData") = IF own # <<>> THEN own ELSE data
      BY <1>2, <1>3, <2>1, <2>2, LookFew
    <2>5. Look(m, Handlers[lns].PayloadBytes) = IF own # <<>> THEN own ELSE data
      BY <1>1, <1>3, <2>1, <2>3, LookFour
    <2> QED
      BY <1>5, <2>4, <2>5
  <1>8. CASE lns = "helium"
    <2>1. own = Follow(m, <<"payload">>) /\ Follow(m, <<"frm_payload">>) = <<>>
      BY <1>4, <1>8, NothingThere DEF DataPath
    <2>2. ExtractField(m, lns, "PayloadData") =
             Extract(m, <<<<"payload">>, <<"data">>, <<"frm_payload">>>>, <<>>)
      <3>1. Handlers[lns].PayloadData = <<<<"payload">>, <<"data">>, <<"frm_payload">>>>
        BY <1>8 DEF Handlers, Helium, Keys
      <3>2. /\ "PayloadData" \in DOMAIN Handlers[lns].After
            /\ Handlers[lns].After["PayloadData"] = <<>>
        BY <1>8 DEF Handlers, Helium
      <3>3. ExtractField(m, lns, "PayloadData") = Extract(m, Handlers[lns]["PayloadData"], <<>>)
        BY <3>2 DEF ExtractField
      <3> QED
        BY <3>1, <3>3
    <2>3. Handlers[lns].PayloadBytes =
             <<<<"payload">>, <<"decoded_raw_data", "payload">>,
               <<"decoded_raw_data", "data">>, <<"data">>>>
      BY <1>8 DEF Handlers, Helium
    <2>4. ExtractField(m, lns, "PayloadData") = IF own # <<>> THEN own ELSE data
      BY <1>2, <1>3, <2>1, <2>2, LookFew, LookThree
    <2>5. Look(m, Handlers[lns].PayloadBytes) = IF own # <<>> THEN own ELSE data
      BY <1>1, <1>3, <2>1, <2>3, LookFour
    <2> QED
      BY <1>5, <2>4, <2>5
  <1> QED
    BY <1>6, <1>7, <1>8 DEF LNSTypes

LEMMA DataOfWrapped ==
    ASSUME NEW m, NEW w, Wraps(m, w), NEW lns \in LNSTypes
    PROVE  Look(m, Handlers[lns].PayloadBytes) = Either(w, DataPath[lns])
  <1>1. \A a : a \notin {"decoded_raw_data", "metadata", "raw_data"} =>
             Follow(m, <<a>>) = <<>> /\ \A b : Follow(m, <<a, b>>) = <<>>
    BY NothingThere DEF Wraps
  <1>2. /\ \A a : Follow(m, <<"decoded_raw_data", a>>) = Follow(w, <<a>>)
        /\ \A a, b : Follow(m, <<"decoded_raw_data", a, b>>) = Follow(w, <<a, b>>)
    <2>1. Field(m, "decoded_raw_data") = w
      BY DEF Wraps, Field
    <2>2. ASSUME NEW a, NEW b
          PROVE  /\ Follow(m, <<"decoded_raw_data", a>>) = Follow(w, <<a>>)
                 /\ Follow(m, <<"decoded_raw_data", a, b>>) = Follow(w, <<a, b>>)
      <3>1. /\ Follow(m, <<"decoded_raw_data", a>>) = Field(w, a)
            /\ Follow(m, <<"decoded_raw_data", a, b>>) = Field(Field(w, a), b)
        BY <2>1, FollowIs
      <3>2. Follow(w, <<a>>) = Field(w, a) /\ Follow(w, <<a, b>>) = Field(Field(w, a), b)
        BY FollowIs
      <3> QED
        BY <3>1, <3>2
    <2> QED
      BY <2>2
  <1>3. PICK data : data = Follow(w, <<"data">>)
    OBVIOUS
  <1>4. PICK own : own = Follow(w, DataPath[lns])
    OBVIOUS
  <1>5. Either(w, DataPath[lns]) = IF own # <<>> THEN own ELSE data
    BY <1>3, <1>4 DEF Either
  <1>6. CASE lns = "chirpstack"
    <2>1. own = Follow(w, <<"uplinkEvent", "data">>)
      BY <1>4, <1>6 DEF DataPath
    <2>2. Handlers[lns].PayloadBytes =
             <<<<"uplinkEvent", "data">>, <<"decoded_raw_data", "uplinkEvent", "data">>,
               <<"decoded_raw_data", "data">>, <<"data">>>>
      BY <1>6 DEF Handlers, ChirpStack
    <2>3. Follow(m, <<"uplinkEvent", "data">>) = <<>> /\ Follow(m, <<"data">>) = <<>>
      BY <1>1
    <2>4. /\ Follow(m, <<"decoded_raw_data", "uplinkEvent", "data">>) = own
          /\ Follow(m, <<"decoded_raw_data", "data">>) = data
      BY <1>2, <1>3, <2>1
    <2>5. PICK p, q, r, s : Handlers[lns].PayloadBytes = <<p, q, r, s>>
                            /\ Follow(m, p) = <<>> /\ Follow(m, q) = own
                            /\ Follow(m, r) = data /\ Follow(m, s) = <<>>
      BY <2>2, <2>3, <2>4
    <2>6. Look(m, Handlers[lns].PayloadBytes) = IF own # <<>> THEN own ELSE data
      BY <2>5, LookFour
    <2> QED
      BY <1>5, <2>6
  <1>7. CASE lns = "ttn"
    <2>1. own = Follow(w, <<"uplink_message", "frm_payload">>)
      BY <1>4, <1>7 DEF DataPath
    <2>2. Handlers[lns].PayloadBytes =
             <<<<"uplink_message", "frm_payload">>,
               <<"decoded_raw_data", "uplink_message", "frm_payload">>,
               <<"decoded_raw_data", "data">>, <<"data">>>>
      BY <1>7 DEF Handlers, TTN
    <2>3. Follow(m, <<"uplink_message", "frm_payload">>) = <<>> /\ Follow(m, <<"data">>) = <<>>
      BY <1>1
    <2>4. /\ Follow(m, <<"decoded_raw_data", "uplink_message", "frm_payload">>) = own
          /\ Follow(m, <<"decoded_raw_data", "data">>) = data
      BY <1>2, <1>3, <2>1
    <2>5. PICK p, q, r, s : Handlers[lns].PayloadBytes = <<p, q, r, s>>
                            /\ Follow(m, p) = <<>> /\ Follow(m, q) = own
                            /\ Follow(m, r) = data /\ Follow(m, s) = <<>>
      BY <2>2, <2>3, <2>4
    <2>6. Look(m, Handlers[lns].PayloadBytes) = IF own # <<>> THEN own ELSE data
      BY <2>5, LookFour
    <2> QED
      BY <1>5, <2>6
  <1>8. CASE lns = "helium"
    <2>1. own = Follow(w, <<"payload">>)
      BY <1>4, <1>8 DEF DataPath
    <2>2. Handlers[lns].PayloadBytes =
             <<<<"payload">>, <<"decoded_raw_data", "payload">>,
               <<"decoded_raw_data", "data">>, <<"data">>>>
      BY <1>8 DEF Handlers, Helium
    <2>3. Follow(m, <<"payload">>) = <<>> /\ Follow(m, <<"data">>) = <<>>
      BY <1>1
    <2>4. /\ Follow(m, <<"decoded_raw_data", "payload">>) = own
          /\ Follow(m, <<"decoded_raw_data", "data">>) = data
      <3>1. Follow(m, <<"decoded_raw_data", "payload">>) = Follow(w, <<"payload">>)
        BY <1>2
      <3>2. Follow(m, <<"decoded_raw_data", "data">>) = Follow(w, <<"data">>)
        BY <1>2
      <3> QED
        BY <1>3, <2>1, <3>1, <3>2
    <2>5. PICK p, q, r, s : Handlers[lns].PayloadBytes = <<p, q, r, s>>
                            /\ Follow(m, p) = <<>> /\ Follow(m, q) = own
                            /\ Follow(m, r) = data /\ Follow(m, s) = <<>>
      BY <2>2, <2>3, <2>4
    <2>6. Look(m, Handlers[lns].PayloadBytes) = IF own # <<>> THEN own ELSE data
      BY <2>5, LookFour
    <2> QED
      BY <1>5, <2>6
  <1> QED
    BY <1>6, <1>7, <1>8 DEF LNSTypes

\* The bytes found by the server's own paths are not changed by the same data
\* handed over.
LEMMA BytesAre ==
    ASSUME NEW m, NEW lns \in LNSTypes, NEW found,
           found = Look(m, Handlers[lns].PayloadBytes), NEW data \in {<<>>, found}
    PROVE  ExtractBytes(m, lns, data) = BytesOf(found)
  <1>1. PICK raw : raw = ExtractPayloadBytes(m, lns)
    OBVIOUS
  <1>2. raw = IF found # <<>> /\ found[1].ok THEN <<found[1].bytes>> ELSE <<>>
    BY <1>1 DEF ExtractPayloadBytes
  <1>3. ExtractBytes(m, lns, data) = IF raw # <<>> THEN raw[1]
           ELSE IF data # <<>> /\ data[1].ok THEN data[1].bytes ELSE <<>>
    BY <1>1 DEF ExtractBytes
  <1>4. CASE found # <<>> /\ found[1].ok
    <2>1. raw = <<found[1].bytes>> /\ raw # <<>> /\ raw[1] = found[1].bytes
      BY <1>2, <1>4
    <2> QED
      BY <1>3, <1>4, <2>1 DEF BytesOf
  <1>5. CASE ~(found # <<>> /\ found[1].ok)
    <2>1. raw = <<>> /\ ~(data # <<>> /\ data[1].ok)
      BY <1>2, <1>5
    <2> QED
      BY <1>3, <1>5, <2>1 DEF BytesOf
  <1> QED
    BY <1>4, <1>5

\* A fix is decoded from the port, the bytes and the objects alone.
LEMMA DecodedFrom ==
    ASSUME NEW model, SupportsGPS(model), NEW p, NEW r,
           p.fPort = r.fPort, p.bytes = r.bytes, p.object = r.object
    PROVE  Decode(model, p) = Decode(model, r)
  <1>1. model # "SEN0313"
    BY DEF SupportsGPS, CanHandle, Registry, SEN0313, Profile
  <1> QED
    BY <1>1 DEF Decode

\* The resolver and the entity parser decode an uplink alike, though they look into
\* different messages and the parser has the data handed over.
LEMMA DecodedAlike ==
    ASSUME NEW d, d.kind = "uplink", IsEnclosed(d), SupportsGPS(d.profile)
    PROVE  ReadByParser(d) = ReadByResolver(d)
  <1>1. PICK outer, raw : outer = Nested(d.body) /\ raw = Follow(outer, <<"raw_data">>)
    OBVIOUS
  <1>2. PICK m : m = MessageOf(d.body)
    OBVIOUS
  <1>3. PICK w : w = PlaceOf(d.body)
    OBVIOUS
  <1>4. PICK lns : lns = ExtractLNSSource(m)
    OBVIOUS
  <1>5. PICK data : data = ExtractField(m, lns, "PayloadData")
    OBVIOUS
  <1>6. PICK p, r : p = RawPayload(m, lns, data, <<>>) /\ r = RawPayload(w, lns, <<>>, <<>>)
    OBVIOUS
  <1>7. ReadByParser(d) = Decode(d.profile, p) /\ ReadByResolver(d) = Decode(d.profile, r)
    BY <1>2, <1>3, <1>4, <1>5, <1>6 DEF ReadByParser, RawByParser, ReadByResolver
  <1>8. /\ "decoded_raw_data" \notin DOMAIN w /\ "decoded_payload" \notin DOMAIN w
        /\ lns = "helium" => "frm_payload" \notin DOMAIN w
        /\ Follow(w, <<"object">>) = <<>> \/ Follow(w, <<"object">>) = <<Follow(w, <<"object">>)[1]>>
        /\ m = w \/ Wraps(m, w)
    <2>1. CASE raw = <<>>
      <3>1. m = outer /\ w = d.body /\ outer = d.body
        BY <1>1, <1>2, <1>3, <2>1 DEF MessageOf, PlaceOf, IsEnclosed
      <3>2. /\ {"decoded_raw_data", "decoded_payload"} \cap DOMAIN outer = {}
            /\ Follow(outer, <<"object">>) = <<>>
               \/ Follow(outer, <<"object">>) = <<Follow(outer, <<"object">>)[1]>>
            /\ ExtractLNSSource(MessageOf(d.body)) = "helium" => "frm_payload" \notin DOMAIN outer
        BY <1>1, <2>1 DEF IsEnclosed
      <3> QED
        BY <1>2, <1>4, <3>1, <3>2
    <2>2. CASE raw # <<>>
      <3>1. m = With(outer, "decoded_raw_data", raw[1]) /\ w = raw[1]
        BY <1>1, <1>2, <1>3, <2>2 DEF MessageOf, PlaceOf
      <3>2. /\ {"decoded_raw_data", "decoded_payload"} \cap DOMAIN w = {}
            /\ Follow(w, <<"object">>) = <<>>
               \/ Follow(w, <<"object">>) = <<Follow(w, <<"object">>)[1]>>
            /\ ExtractLNSSource(MessageOf(d.body)) = "helium" => "frm_payload" \notin DOMAIN w
            /\ DOMAIN outer \subseteq {"metadata", "raw_data"}
        BY <1>1, <2>2, <3>1 DEF IsEnclosed
      <3>3. Wraps(m, w)
        BY <3>1, <3>2 DEF Wraps, With
      <3> QED
        BY <1>2, <1>4, <3>2, <3>3
    <2> QED
      BY <2>1, <2>2
  <1>9. p.fPort = r.fPort
    <2>1. ExtractField(m, lns, "FPort") = ExtractField(w, lns, "FPort")
      BY <1>8, FieldOfWrapped DEF ExtractField
    <2> QED
      BY <1>6, <2>1 DEF RawPayload
  <1>10. p.bytes = r.bytes
    <2>1. ExtractBytes(m, lns, data) = ExtractBytes(w, lns, <<>>)
      <3>1. CASE lns \notin LNSTypes
        <4>1. data = <<>>
          BY <1>5, <3>1 DEF ExtractField
        <4> QED
          BY <3>1, <4>1 DEF ExtractBytes, ExtractPayloadBytes
      <3>2. CASE lns \in LNSTypes
        <4>1. PICK found : found = Either(w, DataPath[lns])
          OBVIOUS
        <4>2. ExtractField(w, lns, "PayloadData") = found
              /\ Look(w, Handlers[lns].PayloadBytes) = found
          BY <1>8, <3>2, <4>1, DataOfBare
        <4>3. data = found /\ Look(m, Handlers[lns].PayloadBytes) = found
          BY <1>5, <1>8, <3>2, <4>1, <4>2, FieldOfWrapped, DataOfWrapped
        <4>4. ExtractBytes(m, lns, data) = BytesOf(found)
          BY <3>2, <4>3, BytesAre
        <4>5. ExtractBytes(w, lns, <<>>) = BytesOf(found)
          BY <3>2, <4>2, BytesAre
        <4> QED
          BY <4>4, <4>5
      <3> QED
        BY <3>1, <3>2
    <2> QED
      BY <1>6, <2>1 DEF RawPayload
  <1>11. p.object = r.object
    <2>1. PICK object : object = Follow(w, <<"object">>)
      OBVIOUS
    <2>2. Follow(w, <<"decoded_payload">>) = <<>>
          /\ Follow(w, <<"decoded_raw_data", "object">>) = <<>>
      BY <1>8, NothingThere
    <2>3. r.object = <<>> \o <<>> \o object
      BY <1>6, <2>1, <2>2 DEF RawPayload
    <2>4. CASE m = w
      BY <1>6, <2>1, <2>2, <2>3, <2>4 DEF RawPayload
    <2>5. CASE Wraps(m, w)
      <3>1. Follow(m, <<"decoded_payload">>) = <<>> /\ Follow(m, <<"object">>) = <<>>
        BY <2>5, NothingThere DEF Wraps
      <3>2. Follow(m, <<"decoded_raw_data", "object">>) = object
        <4>1. Field(m, "decoded_raw_data") = w
          BY <2>5 DEF Wraps, Field
        <4> QED
          BY <2>1, <4>1, FollowIs
      <3>3. p.object = <<>> \o object \o <<>>
        BY <1>6, <3>1, <3>2 DEF RawPayload
      <3>4. <<>> \o object \o <<>> = object /\ <<>> \o <<>> \o object = object
        <4>1. object = <<>> \/ object = <<object[1]>>
          BY <1>8, <2>1
        <4> QED
          BY <4>1
      <3> QED
        BY <2>3, <3>3, <3>4
    <2> QED
      BY <1>8, <2>4, <2>5
  <1> QED
    BY <1>7, <1>9, <1>10, <1>11, DecodedFrom

-----------------------------------------------------------------------------
\* One fix per message.

\* A message holds the fix that the resolver reads in it, bare or wrapped once.
UplinksHoldTheirFix == \A n \in DOMAIN Deliveries : FixIsRead(Deliveries[n])
UplinksAreEnclosed == \A n \in DOMAIN Deliveries : IsEnclosed(Deliveries[n])

\* The fix with the bearing of the history (extractGPS).
WithBearing(fix, bearing) == <<[Optional(fix)[1] EXCEPT !.bearing = bearing]>>

\* The bearing that the resolver chose is chosen again by the entity parser.
LEMMA ResolvedTwice ==
    ASSUME NEW fix, fix.found, NEW readings, NEW bearing, NEW device,
           device = WithBearing(fix, bearing),
           NEW located1, located1 = ResolveLocationBearing(Optional(fix), device, readings)
    PROVE  /\ \E b : located1 = <<Position(fix, b)>>
           /\ ResolveLocationBearing(Optional(fix), located1, readings) = located1
  <1>1. PICK reported : reported = SelectSeq(<<"heading", "bearing">>, LAMBDA k : k \in DOMAIN readings)
    OBVIOUS
  <1>2. PICK p : p = Position(fix, 0)
    OBVIOUS
  <1>3. PICK q : q = [p EXCEPT !.bearing = bearing]
    OBVIOUS
  <1>4. Optional(fix) = <<p>> /\ device = <<q>> /\ q.bearing = bearing
    BY <1>2, <1>3 DEF WithBearing, Optional, Position
  <1>5. ASSUME NEW dev
        PROVE  ResolveLocationBearing(<<p>>, <<dev>>, readings)
                 = <<Position(p, IF reported # <<>> THEN readings[Head(reported)] % 360000
                                 ELSE dev.bearing)>>
    <2>1. /\ <<p>> \o <<dev>> # <<>> /\ (<<p>> \o <<dev>>)[1] = p
          /\ <<dev>> # <<>> /\ <<dev>>[1] = dev
      OBVIOUS
    <2> QED
      BY <1>1, <2>1 DEF ResolveLocationBearing
  <1>6. PICK b : b = IF reported # <<>> THEN readings[Head(reported)] % 360000 ELSE bearing
    OBVIOUS
  <1>7. located1 = <<Position(p, b)>>
    BY <1>4, <1>5, <1>6
  <1>8. Position(p, b) = Position(fix, b) /\ Position(p, b).bearing = b
    BY <1>2 DEF Position
  <1>9. ResolveLocationBearing(<<p>>, located1, readings) = located1
    BY <1>5, <1>6, <1>7, <1>8
  <1> QED
    BY <1>4, <1>7, <1>8, <1>9

\* What is told of a device is its location, if it has one, and its readings.
LEMMA LocationIsToldOnce ==
    ASSUME NEW model \in DOMAIN Registry, NEW raw, NEW device,
           NEW out, out = ParseToEntities(model, raw, device),
           NEW loc, loc = LocationEntity(Registry[model].location, Decode(model, raw), device)
    PROVE  /\ \A n \in DOMAIN out : out[n].key = "location" => loc # <<>> /\ out[n] = loc[1]
           /\ loc # <<>> => 1 \in DOMAIN out /\ out[1] = loc[1] /\ out[1].key = "location"
  <1>1. PICK profile, readings : profile = Registry[model] /\ readings = Decode(model, raw).readings
    OBVIOUS
  <1>2. PICK ents : ents = BuildEntitiesFromState(profile.keys, readings)
    OBVIOUS
  <1>3. out = loc \o ents
    BY <1>1, <1>2 DEF ParseToEntities
  <1>4. PICK keys : keys = profile.keys
    OBVIOUS
  <1>5. keys \in Seq(ToSet(keys)) /\ IsInjective(keys) /\ "location" \notin ToSet(keys)
    BY <1>1, <1>4, KeysAreNamedOnce DEF NamedOnce
  <1>6. PICK present : present = Filtered(keys, DOMAIN readings)
    OBVIOUS
  <1>7. /\ present \in Seq(ToSet(keys))
        /\ ents = [n \in DOMAIN present |-> ents[n]]
        /\ \A n \in DOMAIN present : ents[n].key = present[n]
    BY <1>2, <1>4, <1>5, <1>6, ReadingsAreNamed
  <1>8. PICK N \in Nat : N = Len(present)
    BY <1>7
  <1>9. /\ DOMAIN present = 1 .. N /\ DOMAIN ents = 1 .. N
        /\ \A n \in 1 .. N : ents[n].key # "location"
    BY <1>5, <1>7, <1>8
  <1>10. PICK X : X = ToSet(ents) \cup ToSet(loc)
    OBVIOUS
  <1>11. ents \in Seq(X) /\ Len(ents) = N
    <2>1. \A n \in 1 .. N : ents[n] \in X
      BY <1>9, <1>10 DEF ToSet
    <2> QED
      BY <1>7, <1>8, <1>9, <2>1
  <1>12. CASE loc = <<>>
    <2>1. out = ents
      BY <1>3, <1>11, <1>12
    <2> QED
      BY <1>9, <1>12, <2>1
  <1>13. CASE \E state : loc = <<Entity("location", state)>>
    <2>1. loc \in Seq(X) /\ Len(loc) = 1 /\ loc[1].key = "location" /\ loc # <<>>
      BY <1>10, <1>13 DEF ToSet, Entity
    <2>2. /\ loc \o ents \in Seq(X) /\ Len(loc \o ents) = Len(loc) + Len(ents)
          /\ \A n \in 1 .. Len(loc) + Len(ents) :
               (loc \o ents)[n] = IF n <= Len(loc) THEN loc[n] ELSE ents[n - Len(loc)]
      BY <1>11, <2>1, ConcatProperties
    <2>3. DOMAIN out = 1 .. N + 1 /\ out[1] = loc[1]
      BY <1>3, <1>11, <2>1, <2>2
    <2>4. \A n \in 2 .. N + 1 : n - 1 \in 1 .. N /\ out[n] = ents[n - 1]
      BY <1>3, <1>11, <2>1, <2>2
    <2>5. ASSUME NEW n \in DOMAIN out, out[n].key = "location" PROVE n = 1
      <3>1. n = 1 \/ n \in 2 .. N + 1
        BY <2>3
      <3> QED
        BY <1>9, <2>4, <2>5, <3>1
    <2> QED
      BY <2>1, <2>3, <2>5
  <1> QED
    BY <1>12, <1>13, LocationIsNamed

\* A device is told to be where a fix says only if the fix was read.
LEMMA GuessIsNoFix ==
    ASSUME NEW how, NEW decoded, NEW device,
           how # "reported" \/ ~decoded.location.found,
           NEW loc, loc = LocationEntity(how, decoded, device), loc # <<>>
    PROVE  loc[1].state.source # "gps"
  <1>1. PICK parsed, resolved :
          /\ parsed = Optional(decoded.location)
          /\ resolved = ResolveLocationBearing(parsed, device, decoded.readings)
    OBVIOUS
  <1>2. how # "reported" \/ parsed = <<>>
    BY <1>1 DEF Optional
  <1>3. loc = CASE how = "reported" /\ resolved # <<>> ->
                <<Entity("location", Sourced(IF parsed # <<>> THEN "gps" ELSE "gateway", resolved))>>
          [] how = "computed" -> <<Entity("location", Sourced("trilateration", device))>>
          [] OTHER -> <<>>
    BY <1>1 DEF LocationEntity
  <1>4. \A source, position :
            <<Entity("location", Sourced(source, position))>>[1].state.source = source
    BY DEF Entity, Sourced
  <1>5. CASE how = "reported" /\ resolved # <<>>
    <2>1. loc = <<Entity("location", Sourced("gateway", resolved))>>
      BY <1>2, <1>3, <1>5
    <2> QED
      BY <1>4, <2>1
  <1>6. CASE ~(how = "reported" /\ resolved # <<>>)
    <2>1. loc = <<Entity("location", Sourced("trilateration", device))>>
      BY <1>3, <1>6
    <2> QED
      BY <1>4, <2>1
  <1> QED
    BY <1>5, <1>6

\* A fix that was read, and resolved before, is told as it was resolved.
LEMMA FixIsToldAsResolved ==
    ASSUME NEW decoded, NEW device, decoded.location.found, device # <<>>,
           ResolveLocationBearing(Optional(decoded.location), device, decoded.readings) = device,
           NEW loc, loc = LocationEntity("reported", decoded, device)
    PROVE  loc # <<>> /\ loc[1].state = Sourced("gps", device)
  <1>1. Optional(decoded.location) # <<>>
    BY DEF Optional
  <1>2. loc = <<Entity("location", Sourced("gps", device))>>
    BY <1>1 DEF LocationEntity
  <1> QED
    BY <1>2 DEF Entity

Plain == delivery.kind = "uplink" /\ delivery.upper

\* How far the fix of a message has come.
FixInv ==
    /\ ToldInv
    /\ phase \in {"idle", "received", "parsed", "located"} => entities = <<>>
    /\ phase \notin {"idle", "received"} => place = PlaceOf(delivery.body)
    /\ phase = "located" /\ Plain /\ delivery.fix # <<>> =>
           \E bearing : located = extractGPS(place, LNS, delivery.profile, bearing)
    /\ phase \in Ended => OneFixPerMessage

\* The resolver finds the fix of a message that holds one (Resolve).
LEMMA FixIsFound ==
    ASSUME UplinksHoldTheirFix, UplinksAreEnclosed, ToldInv, phase \notin {"idle", "received"},
           place = PlaceOf(delivery.body), Plain, delivery.fix # <<>>,
           NEW bearing, NEW l, l = extractGPS(place, LNS, delivery.profile, bearing)
    PROVE  LET decoded == ReadByResolver(delivery)
               fix == decoded.location
           IN  /\ SupportsGPS(delivery.profile) /\ fix.found
               /\ ReadByParser(delivery) = decoded
               /\ ValidateCoordinates(fix.lat, fix.lon, fix.degree)
               /\ EventType \in {"uplink", "unknown"}
               /\ [delivery.fix[1] EXCEPT !.bearing = 0] = Position(fix, 0)
               /\ \E b : l = <<Position(fix, b)>>
               /\ ResolveLocationBearing(Optional(fix), l, decoded.readings) = l
  <1>1. FixIsRead(delivery) /\ IsEnclosed(delivery)
    BY DEF UplinksHoldTheirFix, UplinksAreEnclosed, ToldInv, Plain
  <1>2. PICK decoded, fix : decoded = ReadByResolver(delivery) /\ fix = decoded.location
    OBVIOUS
  <1>3. payload = MessageOf(delivery.body) /\ LNS = ExtractLNSSource(MessageOf(delivery.body))
    BY DEF ToldInv, LNS
  <1>4. /\ SupportsGPS(delivery.profile) /\ fix.found
        /\ ValidateCoordinates(fix.lat, fix.lon, fix.degree)
        /\ [delivery.fix[1] EXCEPT !.bearing = 0] = Position(fix, 0)
        /\ ExtractField(place, LNS, "DevEUI") # <<>>
        /\ EventType \in {"uplink", "unknown"}
    BY <1>1, <1>2, <1>3 DEF FixIsRead, EventType, Plain
  <1>10. ReadByParser(delivery) = decoded
    BY <1>1, <1>2, <1>4, DecodedAlike DEF Plain
  <1>5. Decode(delivery.profile, RawPayload(place, LNS, <<>>, <<>>)) = decoded
    BY <1>2, <1>3 DEF ReadByResolver
  <1>6. PICK device : device = WithBearing(fix, bearing)
    OBVIOUS
  <1>7. Optional(fix) # <<>>
    BY <1>4 DEF Optional
  <1>8. l = ResolveLocationBearing(Optional(fix), device, decoded.readings)
    BY <1>2, <1>4, <1>5, <1>6, <1>7 DEF extractGPS, WithBearing
  <1>9. /\ \E b : l = <<Position(fix, b)>>
        /\ ResolveLocationBearing(Optional(fix), l, decoded.readings) = l
    BY <1>4, <1>6, <1>8, ResolvedTwice
  <1> QED
    BY <1>2, <1>4, <1>9, <1>10

\* What the entity parser tells of a message agrees with what the resolver found
\* (ProcessEntities).
LEMMA FixIsTold ==
    ASSUME UplinksHoldTheirFix, UplinksAreEnclosed, FixInv, phase = "located", Plain,
           CanHandle(delivery.profile),
           NEW device,
           device = IF ValidateCoordinates(located[1].lat, located[1].lon, located[1].degree)
                    THEN located ELSE <<>>,
           NEW raw, raw = RawPayload(payload, LNS, ExtractField(payload, LNS, "PayloadData"), <<>>),
           NEW out, out = ParseToEntities(delivery.profile, raw, device)
    PROVE  IF delivery.fix = <<>>
           THEN \A n \in DOMAIN out : out[n].key = "location" => out[n].state.source # "gps"
           ELSE /\ \E n \in DOMAIN out : out[n].key = "location"
                /\ \A n \in DOMAIN out : out[n].key = "location" =>
                       out[n].state.source = "gps" /\ out[n].state.position = located
                /\ [located[1] EXCEPT !.bearing = 0] = [delivery.fix[1] EXCEPT !.bearing = 0]
  <1>1. PICK model : model = delivery.profile
    OBVIOUS
  <1>2. PICK decoded : decoded = Decode(model, raw)
    OBVIOUS
  <1>3. decoded = ReadByParser(delivery)
    BY <1>1, <1>2 DEF FixInv, ToldInv, ReadByParser, RawByParser, LNS
  <1>4. model \in DOMAIN Registry /\ (SupportsGPS(model) <=> Registry[model].location = "reported")
    BY <1>1 DEF CanHandle, SupportsGPS
  <1>5. PICK loc : loc = LocationEntity(Registry[model].location, decoded, device)
    OBVIOUS
  <1>6. /\ \A n \in DOMAIN out : out[n].key = "location" => loc # <<>> /\ out[n] = loc[1]
        /\ loc # <<>> => 1 \in DOMAIN out /\ out[1] = loc[1] /\ out[1].key = "location"
    BY <1>1, <1>2, <1>4, <1>5, LocationIsToldOnce
  <1>8. CASE delivery.fix = <<>>
    <2>1. FixIsRead(delivery) /\ IsEnclosed(delivery)
      BY DEF UplinksHoldTheirFix, UplinksAreEnclosed, FixInv, ToldInv, Plain
    <2>2. SupportsGPS(model) => decoded = ReadByResolver(delivery)
      BY <1>1, <1>3, <2>1, DecodedAlike DEF Plain
    <2>4. ~SupportsGPS(model) \/ ~decoded.location.found
      BY <1>1, <1>8, <2>1, <2>2 DEF FixIsRead, Plain
    <2>3. loc # <<>> => loc[1].state.source # "gps"
      BY <1>4, <1>5, <2>4, GuessIsNoFix
    <2> QED
      BY <1>6, <1>8, <2>3
  <1>9. CASE delivery.fix # <<>>
    <2>1. PICK bearing : located = extractGPS(place, LNS, delivery.profile, bearing)
      BY <1>9 DEF FixInv
    <2>2. PICK fix : fix = decoded.location
      OBVIOUS
    <2>3. ToldInv /\ phase \notin {"idle", "received"} /\ place = PlaceOf(delivery.body)
      BY DEF FixInv
    <2>4. /\ SupportsGPS(delivery.profile) /\ ReadByResolver(delivery) = decoded /\ fix.found
          /\ ValidateCoordinates(fix.lat, fix.lon, fix.degree)
          /\ [delivery.fix[1] EXCEPT !.bearing = 0] = Position(fix, 0)
          /\ \E b : located = <<Position(fix, b)>>
          /\ ResolveLocationBearing(Optional(fix), located, decoded.readings) = located
      BY <1>3, <1>9, <2>1, <2>2, <2>3, FixIsFound
    <2>5. PICK b : located = <<Position(fix, b)>>
      BY <2>4
    <2>6. /\ located # <<>> /\ located[1] = Position(fix, b)
          /\ located[1].lat = fix.lat /\ located[1].lon = fix.lon /\ located[1].degree = fix.degree
          /\ [located[1] EXCEPT !.bearing = 0] = Position(fix, 0)
      BY <2>5 DEF Position
    <2>7. device = located
      BY <2>4, <2>6
    <2>8. loc # <<>> /\ loc[1].state = Sourced("gps", located)
      <3>1. loc = LocationEntity("reported", decoded, located)
        BY <1>1, <1>4, <1>5, <2>4, <2>7
      <3>2. /\ decoded.location.found /\ located # <<>>
            /\ ResolveLocationBearing(Optional(decoded.location), located, decoded.readings) = located
        BY <2>2, <2>4, <2>6
      <3> QED
        BY <3>1, <3>2, FixIsToldAsResolved
    <2>9. loc[1].state.source = "gps" /\ loc[1].state.position = located
      BY <2>8 DEF Sourced
    <2>10. \E n \in DOMAIN out : out[n].key = "location"
      BY <1>6, <2>8
    <2>11. \A n \in DOMAIN out : out[n].key = "location" =>
               out[n].state.source = "gps" /\ out[n].state.position = located
      BY <1>6, <2>9
    <2>12. [located[1] EXCEPT !.bearing = 0] = [delivery.fix[1] EXCEPT !.bearing = 0]
      BY <2>4, <2>6
    <2> QED
      BY <1>9, <2>10, <2>11, <2>12
  <1> QED
    BY <1>8, <1>9

\* What OneFixPerMessage says of the entities of a message, its fix and its position.
OneFix(out, fix, position) ==
    LET keys == {out[n].key : n \in DOMAIN out}
        state == out[CHOOSE n \in DOMAIN out : out[n].key = "location"].state
    IN  IF fix = <<>>
        THEN "location" \in keys => state.source # "gps"
        ELSE /\ "location" \in keys
             /\ state.source = "gps" /\ state.position = position
             /\ [position[1] EXCEPT !.bearing = 0] = [fix[1] EXCEPT !.bearing = 0]

LEMMA AnyLocationWillDo ==
    ASSUME NEW out, NEW fix, NEW position,
           IF fix = <<>>
           THEN \A n \in DOMAIN out : out[n].key = "location" => out[n].state.source # "gps"
           ELSE /\ \E n \in DOMAIN out : out[n].key = "location"
                /\ \A n \in DOMAIN out : out[n].key = "location" =>
                       out[n].state.source = "gps" /\ out[n].state.position = position
                /\ [position[1] EXCEPT !.bearing = 0] = [fix[1] EXCEPT !.bearing = 0]
    PROVE  OneFix(out, fix, position)
  <1>1. PICK m : m = CHOOSE n \in DOMAIN out : out[n].key = "location"
    OBVIOUS
  <1>2. "location" \in {out[n].key : n \in DOMAIN out} => m \in DOMAIN out /\ out[m].key = "location"
    BY <1>1
  <1>3. CASE fix = <<>>
    BY <1>1, <1>2, <1>3 DEF OneFix
  <1>4. CASE fix # <<>>
    <2>1. "location" \in {out[n].key : n \in DOMAIN out}
      BY <1>4
    <2>2. out[m].state.source = "gps" /\ out[m].state.position = position
      BY <1>2, <1>4, <2>1
    <2> QED
      BY <1>1, <1>4, <2>1, <2>2 DEF OneFix
  <1> QED
    BY <1>3, <1>4

LEMMA PromiseIs ==
    /\ OneFixPerMessage <=> (phase \in Ended /\ Plain => OneFix(entities, delivery.fix, located))
    /\ OneFixPerMessage' <=> ((phase \in Ended /\ Plain)' => OneFix(entities', (delivery.fix)', located'))
  BY DEF OneFixPerMessage, OneFix, Done, EntityKeys, State, Plain

\* A message that told nothing and held no fix keeps the promise.
LEMMA NothingIsToldOnce == OneFix(<<>>, <<>>, located) /\ OneFix(<<>>, <<>>, located')
  BY DEF OneFix

\* Every step of the consumer keeps it (UplinkNext).
LEMMA FixStep ==
    ASSUME UplinksAreNoApiMessages, UplinksHoldTheirFix, UplinksAreEnclosed, FixInv, UplinkNext
    PROVE  FixInv'
  <1>1. ToldInv /\ ToldInv'
    BY ToldStep DEF FixInv
  <1>2. CASE Receive
    BY <1>1, <1>2, PromiseIs DEF Receive, FixInv, Ended
  <1>3. CASE ParseMessage
    <2>1. phase' = "parsed" /\ phase = "received" /\ UNCHANGED <<delivery, entities>>
      BY <1>3 DEF ParseMessage
    <2>2. place' = PlaceOf(delivery.body)
      BY <1>3 DEF ParseMessage, PlaceOf
    <2> QED
      BY <1>1, <2>1, <2>2, PromiseIs DEF FixInv, Ended
  <1>4. ASSUME phase = "parsed", phase' \in Ended, UNCHANGED <<delivery, place, entities>>,
               Plain => delivery.fix = <<>>
        PROVE  FixInv'
    <2>1. entities' = <<>> /\ (Plain' => (delivery.fix)' = <<>>)
      BY <1>4 DEF FixInv, Plain
    <2>2. OneFixPerMessage'
      BY <2>1, PromiseIs, NothingIsToldOnce
    <2>3. phase' \notin {"idle", "received", "parsed", "located"}
      BY <1>4 DEF Ended
    <2> QED
      BY <1>1, <1>4, <2>2, <2>3 DEF FixInv
  <1>5. CASE RouteEvent
    <2>1. /\ phase = "parsed" /\ phase' \in Ended /\ UNCHANGED <<delivery, place, entities>>
          /\ EventType \notin {"uplink", "unknown"} /\ UNCHANGED <<payload, located>>
      BY <1>5 DEF RouteEvent, Ended
    <2>2. ASSUME Plain, delivery.fix # <<>> PROVE FALSE
      <3>1. FixIsRead(delivery)
        BY <1>1, <2>1, <2>2 DEF UplinksHoldTheirFix, ToldInv, Plain
      <3>2. payload = MessageOf(delivery.body)
        BY <1>1, <2>1 DEF ToldInv
      <3> QED
        BY <2>1, <2>2, <3>1, <3>2 DEF FixIsRead, EventType, LNS, Plain
    <2> QED
      BY <1>4, <2>1, <2>2
  <1>6. CASE Resolve
    <2>1. /\ phase = "parsed" /\ UNCHANGED <<delivery, payload, place, entities>>
          /\ phase' = IF located' = <<>> THEN "failed" ELSE "located"
          /\ entities = <<>> /\ place = PlaceOf(delivery.body)
      BY <1>6 DEF Resolve, FixInv
    <2>2. ASSUME Plain, delivery.fix # <<>>
          PROVE  /\ located' # <<>>
                 /\ \E bearing : located' = extractGPS(place, LNS, delivery.profile, bearing)
      <3>1. FixIsRead(delivery)
        BY <1>1, <2>1, <2>2 DEF UplinksHoldTheirFix, ToldInv, Plain
      <3>2. SupportsGPS(delivery.profile) /\ delivery.upper
        BY <2>2, <3>1 DEF FixIsRead, Plain
      <3>3. PICK bearing : located' = extractGPS(place, LNS, delivery.profile, bearing)
        BY <1>6, <3>2 DEF Resolve
      <3>4. PICK l, fix : /\ l = extractGPS(place, LNS, delivery.profile, bearing)
                          /\ fix = ReadByResolver(delivery).location
        OBVIOUS
      <3>5. ToldInv /\ phase \notin {"idle", "received"} /\ place = PlaceOf(delivery.body)
        BY <1>1, <2>1
      <3>6. \E b : l = <<Position(fix, b)>>
        BY <2>2, <3>4, <3>5, FixIsFound
      <3>7. l # <<>>
        BY <3>6
      <3>8. located' = l
        BY <3>3, <3>4
      <3> QED
        BY <3>3, <3>7, <3>8
    <2>3. CASE located' = <<>>
      <3>1. phase' \in Ended /\ (Plain => delivery.fix = <<>>)
        BY <2>1, <2>2, <2>3 DEF Ended
      <3> QED
        BY <1>4, <2>1, <3>1
    <2>4. CASE located' # <<>>
      <3>1. phase' = "located" /\ LNS' = LNS
        BY <2>1, <2>4 DEF LNS
      <3>2. Plain' = Plain
        BY <2>1 DEF Plain
      <3>3. Plain' /\ (delivery.fix)' # <<>> =>
              \E bearing : located' = extractGPS(place', LNS', (delivery.profile)', bearing)
        BY <2>1, <2>2, <3>1, <3>2
      <3> QED
        BY <1>1, <2>1, <3>1, <3>3, PromiseIs DEF FixInv, Ended
    <2> QED
      BY <2>3, <2>4
  <1>7. CASE ProcessEntities
    <2>1. PICK device, raw :
            /\ device = IF ValidateCoordinates(located[1].lat, located[1].lon, located[1].degree)
                        THEN located ELSE <<>>
            /\ raw = RawPayload(payload, LNS, ExtractField(payload, LNS, "PayloadData"), <<>>)
      OBVIOUS
    <2>2. /\ phase = "located" /\ UNCHANGED <<delivery, payload, place, located>>
          /\ phase' \in {"published", "untold"}
          /\ IF CanHandle(delivery.profile) THEN entities' = ParseToEntities(delivery.profile, raw, device)
             ELSE entities' = <<>>
      BY <1>7, <2>1 DEF ProcessEntities
    <2>3. Plain' => OneFix(entities', (delivery.fix)', located')
      <3> SUFFICES ASSUME Plain PROVE OneFix(entities', delivery.fix, located)
        BY <2>2 DEF Plain
      <3>1. CASE CanHandle(delivery.profile)
        <4>1. PICK out : out = ParseToEntities(delivery.profile, raw, device)
          OBVIOUS
        <4>2. IF delivery.fix = <<>>
              THEN \A n \in DOMAIN out : out[n].key = "location" => out[n].state.source # "gps"
              ELSE /\ \E n \in DOMAIN out : out[n].key = "location"
                   /\ \A n \in DOMAIN out : out[n].key = "location" =>
                          out[n].state.source = "gps" /\ out[n].state.position = located
                   /\ [located[1] EXCEPT !.bearing = 0] = [delivery.fix[1] EXCEPT !.bearing = 0]
          BY <2>1, <2>2, <3>1, <4>1, FixIsTold
        <4>3. OneFix(out, delivery.fix, located)
          BY <4>2, AnyLocationWillDo
        <4> QED
          BY <2>2, <3>1, <4>1, <4>3
      <3>2. CASE ~CanHandle(delivery.profile)
        <4>1. FixIsRead(delivery)
          BY <1>1, <2>2 DEF UplinksHoldTheirFix, ToldInv, Plain
        <4>2. delivery.fix = <<>>
          BY <3>2, <4>1 DEF FixIsRead, SupportsGPS, Plain
        <4> QED
          BY <2>2, <3>2, <4>2, NothingIsToldOnce
      <3> QED
        BY <3>1, <3>2
    <2>4. OneFixPerMessage'
      BY <2>3, PromiseIs
    <2>5. phase' \notin {"idle", "received", "parsed", "located"} /\ phase \notin {"idle", "received"}
      BY <2>2
    <2> QED
      BY <1>1, <2>2, <2>4, <2>5 DEF FixInv
  <1>8. CASE HandleAPIMessage
    <2>1. /\ phase = "parsed" /\ isAPIMessage(payload) /\ UNCHANGED <<delivery, payload, place>>
          /\ phase' \in {"failed", "published"}
      BY <1>8 DEF HandleAPIMessage
    <2>2. ~Plain'
      BY <1>1, <2>1 DEF ToldInv, Plain, UplinksAreNoApiMessages, NoApiMessage
    <2>3. OneFixPerMessage'
      BY <2>2, PromiseIs
    <2>4. phase' \notin {"idle", "received", "parsed", "located"} /\ phase \notin {"idle", "received"}
      BY <2>1
    <2> QED
      BY <1>1, <2>1, <2>3, <2>4 DEF FixInv
  <1>9. CASE NextMessage
    BY <1>1, <1>9, PromiseIs DEF NextMessage, FixInv, Ended
  <1> QED
    BY <1>2, <1>3, <1>5, <1>6, <1>7, <1>8, <1>9 DEF UplinkNext

\* The position in a message of a device that reports its own is told once, as
\* the resolver found it, and nothing else is told as such a position
\* (extractGPSFromDeviceParser, resolveLocationBearing and buildLocationEntity),
\* wherever in the message the field is that both read.
THEOREM OneFixIsTold ==
    ASSUME UplinksAreNoApiMessages, UplinksHoldTheirFix, UplinksAreEnclosed
    PROVE  Spec => []OneFixPerMessage
  <1>1. Init => FixInv
    BY PromiseIs DEF Init, Idling, ToldInv, FixInv, Ended
  <1>2. FixInv /\ [Next]_<<vars, apiVars, gateways>> => FixInv'
    <2>1. ASSUME FixInv, UNCHANGED vars PROVE FixInv'
      <3>1. /\ phase' = phase /\ entities' = entities /\ delivery' = delivery
            /\ place' = place /\ payload' = payload /\ located' = located
        BY <2>1 DEF vars
      <3>2. Plain' = Plain /\ LNS' = LNS /\ Declared' = Declared
        BY <3>1 DEF Plain, LNS, Declared, EntityKeys
      <3>3. OneFixPerMessage' <=> OneFixPerMessage
        BY <3>1, <3>2, PromiseIs
      <3>4. ToldInv'
        BY <2>1, <3>1, <3>2 DEF FixInv, ToldInv
      <3> QED
        BY <2>1, <3>1, <3>2, <3>3, <3>4 DEF FixInv
    <2> QED
      BY <2>1, FixStep DEF Next, Consume, Serve, Locate
  <1>3. FixInv => OneFixPerMessage
    BY PromiseIs DEF FixInv, OneFixPerMessage, Done
  <1> QED
    BY <1>1, <1>2, <1>3, PTL DEF Spec

-----------------------------------------------------------------------------
\* What becomes of messages.

MessagesAreMarked == \A n \in DOMAIN Deliveries : IsMarked(Deliveries[n])
UplinksAreComplete == \A n \in DOMAIN Deliveries : IsComplete(Deliveries[n])

\* The first of the marks that a message has (Classified).
LEMMA FirstMark ==
    ASSUME NEW m, NEW N \in Nat, NEW events, DOMAIN events = 1 .. N,
           NEW hits, hits = {n \in DOMAIN events : events[n][1] \in DOMAIN Wrapped(m)}, hits # {}
    PROVE  \E n \in hits : Classified(m, events) = events[n][2] /\ \A k \in hits : n <= k
  <1>1. hits \in SUBSET Int /\ IsFiniteSet(hits)
    <2>1. PICK S : S = 1 .. N
      OBVIOUS
    <2>2. IsFiniteSet(S) /\ hits \subseteq S
      BY <2>1, FS_Interval
    <2> QED
      BY <2>1, <2>2, FS_Subset
  <1>2. Min(hits) \in hits /\ \A k \in hits : Min(hits) <= k
    BY <1>1, Extremes
  <1>3. Classified(m, events) = events[Min(hits)][2]
    BY DEF Classified
  <1> QED
    BY <1>2, <1>3

\* The nine marks of TTN: an uplink's is the first, and only an uplink's means one.
LEMMA MarksOfTTN ==
    /\ DOMAIN TTNEvents = 1 .. 9
    /\ TTNEvents[1] = <<"uplink_message", "uplink">>
    /\ \A n \in 2 .. 9 : TTNEvents[n][1] # "uplink_message"
                         /\ TTNEvents[n][2] \notin {"uplink", "unknown"}
  <1>1. \A n \in 2 .. 9 : n \in {2, 3, 4, 5, 6, 7, 8, 9}
    OBVIOUS
  <1> QED
    BY <1>1 DEF TTNEvents

\* An event is told from an uplink by its mark (ExtractEventType).
LEMMA EventsAreTold ==
    ASSUME NEW d, IsMarked(d), NEW m, m = MessageOf(d.body), NEW lns, lns = ExtractLNSSource(m)
    PROVE  /\ d.kind = "event" => ~isAPIMessage(m) /\ ExtractEventType(m, lns) \notin {"uplink", "unknown"}
           /\ d.kind \in {"uplink", "cut"} => ExtractEventType(m, lns) \in {"uplink", "unknown"}
  <1>1. PICK fields : fields = DOMAIN Wrapped(m)
    OBVIOUS
  <1>2. PICK hits : hits = {n \in DOMAIN TTNEvents : TTNEvents[n][1] \in DOMAIN Wrapped(m)}
    OBVIOUS
  <1>3. PICK marks : marks = {TTNEvents[n][1] : n \in DOMAIN TTNEvents} \ {"uplink_message"}
    OBVIOUS
  <1>4. marks = {TTNEvents[n][1] : n \in 2 .. 9}
    BY <1>3, MarksOfTTN
  <1>5. \A n \in hits : n \in 1 .. 9 /\ TTNEvents[n][1] \in fields
    BY <1>1, <1>2, MarksOfTTN
  <1>6. ASSUME hits # {}
        PROVE  \E n \in hits : Classified(m, TTNEvents) = TTNEvents[n][2] /\ \A k \in hits : n <= k
    <2>1. PICK events : events = TTNEvents
      OBVIOUS
    <2>2. PICK N \in Nat : N = 9
      OBVIOUS
    <2>3. DOMAIN events = 1 .. N
      BY <2>1, <2>2, MarksOfTTN
    <2>4. hits = {n \in DOMAIN events : events[n][1] \in DOMAIN Wrapped(m)}
      BY <1>2, <2>1
    <2>5. \E n \in hits : Classified(m, events) = events[n][2] /\ \A k \in hits : n <= k
      BY <1>6, <2>3, <2>4, FirstMark
    <2> QED
      BY <2>1, <2>5
  <1>7. hits = {} => Classified(m, TTNEvents) = "unknown"
    BY <1>2 DEF Classified
  <1>8. ASSUME "uplink_message" \notin fields, fields \cap marks # {}
        PROVE  Classified(m, TTNEvents) \notin {"uplink", "unknown"}
    <2>1. PICK k \in 2 .. 9 : TTNEvents[k][1] \in fields
      BY <1>4, <1>8
    <2>2. k \in hits
      BY <1>1, <1>2, <2>1, MarksOfTTN
    <2>3. PICK n \in hits : Classified(m, TTNEvents) = TTNEvents[n][2]
      BY <1>6, <2>2
    <2>4. n # 1 /\ n \in 1 .. 9
      BY <1>5, <1>8, MarksOfTTN
    <2>5. n \in 2 .. 9
      BY <2>4
    <2> QED
      BY <2>3, <2>5, MarksOfTTN
  <1>9. ASSUME "uplink_message" \in fields \/ fields \cap marks = {}
        PROVE  Classified(m, TTNEvents) \in {"uplink", "unknown"}
    <2>1. CASE "uplink_message" \in fields
      <3>1. 1 \in hits
        BY <1>1, <1>2, <2>1, MarksOfTTN
      <3>2. PICK n \in hits : Classified(m, TTNEvents) = TTNEvents[n][2] /\ n <= 1
        BY <1>6, <3>1
      <3>3. n = 1
        BY <1>5, <3>2
      <3> QED
        BY <3>2, <3>3, MarksOfTTN
    <2>2. CASE "uplink_message" \notin fields
      <3>1. ASSUME NEW n \in hits PROVE FALSE
        <4>1. n \in 1 .. 9 /\ TTNEvents[n][1] \in fields
          BY <1>5
        <4>2. n # 1
          BY <2>2, <4>1, MarksOfTTN
        <4>3. n \in 2 .. 9
          BY <4>1, <4>2
        <4> QED
          BY <1>4, <1>9, <2>2, <4>1, <4>3
      <3> QED
        BY <1>7, <3>1
    <2> QED
      BY <2>1, <2>2
  <1>10. PICK event : event = Follow(m, <<"metadata", "query">>)
    OBVIOUS
  <1>11. /\ d.kind = "event" =>
              /\ ~isAPIMessage(m)
              /\ \/ lns = "chirpstack" /\ event # <<>> /\ event[1] \in DOMAIN ChirpStackEvents \ {"up"}
                 \/ lns = "ttn" /\ "uplink_message" \notin fields /\ fields \cap marks # {}
         /\ d.kind \in {"uplink", "cut"} =>
              \/ lns = "chirpstack" /\ (event # <<>> => event[1] = "up")
              \/ lns = "ttn" /\ ("uplink_message" \in fields \/ fields \cap marks = {})
              \/ lns = "helium"
    BY <1>1, <1>3, <1>10 DEF IsMarked
  <1>12. CASE lns = "chirpstack"
    <2>1. ExtractEventType(m, lns) = IF event # <<>> /\ event[1] \in DOMAIN ChirpStackEvents
                                     THEN ChirpStackEvents[event[1]] ELSE "unknown"
      BY <1>10, <1>12 DEF ExtractEventType, ChirpStackEventType
    <2>2. /\ ChirpStackEvents["up"] = "uplink"
          /\ \A e \in DOMAIN ChirpStackEvents \ {"up"} : ChirpStackEvents[e] \notin {"uplink", "unknown"}
      BY DEF ChirpStackEvents
    <2> QED
      BY <1>11, <1>12, <2>1, <2>2
  <1>13. CASE lns = "ttn"
    <2>1. ExtractEventType(m, lns) = Classified(m, TTNEvents)
      BY <1>13 DEF ExtractEventType
    <2> QED
      BY <1>8, <1>9, <1>11, <1>13, <2>1
  <1>14. CASE lns = "helium"
    <2>1. ExtractEventType(m, lns) = Classified(m, HeliumEvents)
      BY <1>14 DEF ExtractEventType
    <2>2. DOMAIN HeliumEvents = 1 .. 3 /\ \A n \in 1 .. 3 : HeliumEvents[n][2] = "uplink"
      <3>1. \A n \in 1 .. 3 : n \in {1, 2, 3}
        OBVIOUS
      <3> QED
        BY <3>1 DEF HeliumEvents
    <2>3. PICK marked : marked = {n \in DOMAIN HeliumEvents : HeliumEvents[n][1] \in DOMAIN Wrapped(m)}
      OBVIOUS
    <2>4. ASSUME marked # {} PROVE \E n \in marked : Classified(m, HeliumEvents) = HeliumEvents[n][2]
      <3>1. PICK events : events = HeliumEvents
        OBVIOUS
      <3>2. PICK N \in Nat : N = 3
        OBVIOUS
      <3>3. DOMAIN events = 1 .. N
        BY <2>2, <3>1, <3>2
      <3>4. marked = {n \in DOMAIN events : events[n][1] \in DOMAIN Wrapped(m)}
        BY <2>3, <3>1
      <3>5. \E n \in marked : Classified(m, events) = events[n][2]
        BY <2>4, <3>3, <3>4, FirstMark
      <3> QED
        BY <3>1, <3>5
    <2>5. marked = {} => Classified(m, HeliumEvents) = "unknown"
      BY <2>3 DEF Classified
    <2>6. Classified(m, HeliumEvents) \in {"uplink", "unknown"}
      BY <2>2, <2>3, <2>4, <2>5
    <2> QED
      BY <1>11, <1>14, <2>1, <2>6
  <1> QED
    BY <1>11, <1>12, <1>13, <1>14

\* The resolver puts a complete uplink somewhere (CalculateDeviceLocation, extractGPS).
LEMMA UplinksAreLocated ==
    ASSUME NEW d, IsComplete(d), d.kind \in {"uplink", "cut"},
           NEW m, m = PlaceOf(d.body), NEW lns, lns = ExtractLNSSource(MessageOf(d.body)), NEW bearing
    PROVE  /\ CanHandle(d.profile)
           /\ d.upper /\ SupportsGPS(d.profile) => extractGPS(m, lns, d.profile, bearing) # <<>>
           /\ ~(d.upper /\ SupportsGPS(d.profile)) => CalculateDeviceLocation(m, lns, bearing) # <<>>
  <1>1. /\ CanHandle(d.profile) /\ ExtractField(m, lns, "DevEUI") # <<>>
        /\ \/ d.upper /\ SupportsGPS(d.profile)
           \/ /\ ExtractField(m, lns, "RxMetadata") # <<>> /\ ExtractField(m, lns, "Frequency") # <<>>
              /\ ~ExtractGatewayLocations(ExtractField(m, lns, "RxMetadata")[1], lns).err
    BY DEF IsComplete
  <1>2. extractGPS(m, lns, d.profile, bearing) # <<>>
    <2>1. PICK decoded, parsed : decoded = Decode(d.profile, RawPayload(m, lns, <<>>, <<>>))
                                 /\ parsed = Optional(decoded.location)
      OBVIOUS
    <2>2. CASE parsed = <<>>
      BY <1>1, <2>1, <2>2 DEF extractGPS
    <2>3. CASE parsed # <<>>
      <3>1. PICK device : device = <<[parsed[1] EXCEPT !.bearing = bearing]>>
        OBVIOUS
      <3>2. PICK p : parsed = <<p>>
        BY <2>1, <2>3 DEF Optional
      <3>3. parsed \o device # <<>>
        BY <3>1, <3>2
      <3>4. ResolveLocationBearing(parsed, device, decoded.readings) # <<>>
        BY <3>3 DEF ResolveLocationBearing
      <3> QED
        BY <1>1, <2>1, <2>3, <3>1, <3>4 DEF extractGPS
    <2> QED
      BY <2>2, <2>3
  <1>3. ASSUME ~(d.upper /\ SupportsGPS(d.profile))
        PROVE  CalculateDeviceLocation(m, lns, bearing) # <<>>
    <2>1. \A field \in {"RxMetadata", "Frequency", "DevEUI"} : ExtractField(m, lns, field) # <<>>
      BY <1>1, <1>3
    <2>2. PICK found : found = ExtractGatewayLocations(ExtractField(m, lns, "RxMetadata")[1], lns)
      OBVIOUS
    <2>3. ~found.err
      BY <1>1, <1>3, <2>2
    <2> QED
      BY <2>1, <2>2, <2>3 DEF CalculateDeviceLocation
  <1> QED
    BY <1>1, <1>2, <1>3

\* An event is never located and told as an uplink, nor an uplink routed as an event.
RoutedInv ==
    /\ ToldInv
    /\ phase # "idle" =>
         /\ delivery.kind = "event" => phase \in {"received", "parsed", "event", "ignored"}
         /\ delivery.kind \in {"uplink", "cut"} => phase \notin {"event", "ignored"}

\* What a message that was parsed is taken for.
LEMMA TakenForWhatItIs ==
    ASSUME UplinksAreNoApiMessages, MessagesAreMarked, ToldInv, phase \notin {"idle", "received"}
    PROVE  /\ \E n \in DOMAIN Deliveries : delivery = Deliveries[n]
           /\ payload = MessageOf(delivery.body)
           /\ delivery.kind = "event" =>
                ~isAPIMessage(payload) /\ EventType \notin {"uplink", "unknown"}
           /\ delivery.kind \in {"uplink", "cut"} =>
                ~isAPIMessage(payload) /\ EventType \in {"uplink", "unknown"}
  <1>1. PICK n \in DOMAIN Deliveries : delivery = Deliveries[n]
    BY DEF ToldInv
  <1>2. payload = MessageOf(delivery.body)
    BY DEF ToldInv
  <1>3. PICK d, m, lns : d = delivery /\ m = payload /\ lns = LNS
    OBVIOUS
  <1>4. IsMarked(d) /\ NoApiMessage(d)
    BY <1>1, <1>3 DEF MessagesAreMarked, UplinksAreNoApiMessages
  <1>5. m = MessageOf(d.body) /\ lns = ExtractLNSSource(m) /\ EventType = ExtractEventType(m, lns)
    BY <1>2, <1>3 DEF LNS, EventType
  <1>6. /\ d.kind = "event" => ~isAPIMessage(m) /\ ExtractEventType(m, lns) \notin {"uplink", "unknown"}
        /\ d.kind \in {"uplink", "cut"} => ExtractEventType(m, lns) \in {"uplink", "unknown"}
    BY <1>4, <1>5, EventsAreTold
  <1>7. d.kind \in {"uplink", "cut"} => ~isAPIMessage(m)
    BY <1>4, <1>5 DEF NoApiMessage
  <1> QED
    BY <1>1, <1>2, <1>3, <1>5, <1>6, <1>7

\* Every step of the consumer keeps it (UplinkNext).
LEMMA RoutedStep ==
    ASSUME UplinksAreNoApiMessages, MessagesAreMarked, RoutedInv, UplinkNext
    PROVE  RoutedInv'
  <1>1. ToldInv /\ ToldInv'
    BY ToldStep DEF RoutedInv
  <1>2. CASE Receive
    BY <1>1, <1>2 DEF Receive, RoutedInv
  <1>3. CASE ParseMessage
    BY <1>1, <1>3 DEF ParseMessage, RoutedInv
  <1>4. CASE RouteEvent
    <2>1. /\ phase = "parsed" /\ EventType \notin {"uplink", "unknown"}
          /\ phase' \in {"event", "ignored"} /\ UNCHANGED delivery
      BY <1>4 DEF RouteEvent
    <2>2. delivery.kind \notin {"uplink", "cut"}
      BY <1>1, <2>1, TakenForWhatItIs
    <2> QED
      BY <1>1, <2>1, <2>2 DEF RoutedInv
  <1>5. CASE Resolve
    <2>1. /\ phase = "parsed" /\ EventType \in {"uplink", "unknown"}
          /\ phase' \in {"failed", "located"} /\ UNCHANGED delivery
      BY <1>5 DEF Resolve
    <2>2. delivery.kind # "event"
      BY <1>1, <2>1, TakenForWhatItIs
    <2> QED
      BY <1>1, <2>1, <2>2 DEF RoutedInv
  <1>6. CASE ProcessEntities
    <2>1. phase = "located" /\ phase' \in {"published", "untold"} /\ UNCHANGED delivery
      BY <1>6 DEF ProcessEntities
    <2> QED
      BY <1>1, <2>1 DEF RoutedInv
  <1>7. CASE HandleAPIMessage
    <2>1. /\ phase = "parsed" /\ isAPIMessage(payload)
          /\ phase' \in {"failed", "published"} /\ UNCHANGED delivery
      BY <1>7 DEF HandleAPIMessage
    <2>2. delivery.kind # "event"
      BY <1>1, <2>1, TakenForWhatItIs
    <2> QED
      BY <1>1, <2>1, <2>2 DEF RoutedInv
  <1>8. CASE NextMessage
    BY <1>1, <1>8 DEF NextMessage, RoutedInv
  <1> QED
    BY <1>2, <1>3, <1>4, <1>5, <1>6, <1>7, <1>8 DEF UplinkNext

\* An event of a network server is told to the event queue or ignored and never
\* located and published as an uplink, and no uplink is dropped as an event
\* (handleMessage, ExtractEventType of the three handlers): for any messages that
\* the servers mark as they do.
THEOREM EventsStayRouted ==
    ASSUME UplinksAreNoApiMessages, MessagesAreMarked PROVE Spec => []EventsAreRouted
  <1>1. Init => RoutedInv
    BY DEF Init, Idling, ToldInv, RoutedInv
  <1>2. RoutedInv /\ [Next]_<<vars, apiVars, gateways>> => RoutedInv'
    <2>1. ASSUME RoutedInv, UNCHANGED vars PROVE RoutedInv'
      BY <2>1 DEF vars, RoutedInv, ToldInv, Declared, EntityKeys
    <2> QED
      BY <2>1, RoutedStep DEF Next, Consume, Serve, Locate
  <1>3. RoutedInv => EventsAreRouted
    BY DEF RoutedInv, EventsAreRouted, Done, Ended
  <1> QED
    BY <1>1, <1>2, <1>3, PTL DEF Spec

-----------------------------------------------------------------------------
\* Measurements survive.

\* Until it is published a complete uplink is nothing but received, parsed and
\* located; what is told of it then is what its own decoder makes of it.
PublishedInv ==
    /\ RoutedInv
    /\ phase \notin {"idle", "received"} => place = PlaceOf(delivery.body)
    /\ phase # "idle" /\ delivery.kind \in {"uplink", "cut"} =>
         /\ phase \in {"received", "parsed", "located", "published"}
         /\ phase = "published" =>
              \E device : entities = ParseToEntities(delivery.profile, RawByParser(delivery), device)

\* Every step of the consumer keeps it (UplinkNext).
LEMMA PublishedStep ==
    ASSUME UplinksAreNoApiMessages, MessagesAreMarked, UplinksAreComplete, PublishedInv, UplinkNext
    PROVE  PublishedInv'
  <1>1. RoutedInv /\ RoutedInv' /\ ToldInv
    BY RoutedStep DEF PublishedInv, RoutedInv
  <1>2. CASE Receive
    BY <1>1, <1>2 DEF Receive, PublishedInv
  <1>3. CASE ParseMessage
    <2>1. place' = PlaceOf(delivery.body)
      BY <1>3 DEF ParseMessage, PlaceOf
    <2> QED
      BY <1>1, <1>3, <2>1 DEF ParseMessage, PublishedInv
  <1>4. CASE RouteEvent
    <2>1. phase = "parsed" /\ phase' \in {"event", "ignored"} /\ UNCHANGED <<delivery, place>>
      BY <1>4 DEF RouteEvent
    <2>2. delivery.kind \notin {"uplink", "cut"}
      BY <1>1, <2>1 DEF RoutedInv
    <2> QED
      BY <1>1, <2>1, <2>2 DEF PublishedInv
  <1>5. CASE Resolve
    <2>1. phase = "parsed" /\ UNCHANGED <<delivery, place>> /\ phase' \in {"failed", "located"}
      BY <1>5 DEF Resolve
    <2>2. place = PlaceOf(delivery.body) /\ payload = MessageOf(delivery.body)
      BY <2>1 DEF PublishedInv, RoutedInv, ToldInv
    <2>3. ASSUME delivery.kind \in {"uplink", "cut"} PROVE phase' = "located"
      <3>1. PICK d, lns : d = delivery /\ lns = LNS
        OBVIOUS
      <3>2. IsComplete(d) /\ lns = ExtractLNSSource(MessageOf(d.body)) /\ d.kind \in {"uplink", "cut"}
        <4>1. PICK n \in DOMAIN Deliveries : delivery = Deliveries[n]
          BY <2>1 DEF PublishedInv, RoutedInv, ToldInv
        <4> QED
          BY <2>2, <2>3, <3>1, <4>1 DEF UplinksAreComplete, LNS
      <3>3. PICK bearing \in Bearings :
               /\ located' = IF d.upper /\ SupportsGPS(d.profile)
                             THEN extractGPS(place, lns, d.profile, bearing)
                             ELSE CalculateDeviceLocation(place, lns, bearing)
               /\ phase' = IF located' = <<>> THEN "failed" ELSE "located"
        BY <1>5, <3>1 DEF Resolve
      <3>4. PICK m : m = place /\ m = PlaceOf(d.body)
        BY <2>2, <3>1
      <3>5. /\ d.upper /\ SupportsGPS(d.profile) => extractGPS(m, lns, d.profile, bearing) # <<>>
            /\ ~(d.upper /\ SupportsGPS(d.profile)) => CalculateDeviceLocation(m, lns, bearing) # <<>>
        BY <3>2, <3>4, UplinksAreLocated
      <3>6. located' # <<>>
        BY <3>3, <3>4, <3>5
      <3> QED
        BY <3>3, <3>6
    <2> QED
      BY <1>1, <2>1, <2>2, <2>3 DEF PublishedInv
  <1>6. CASE ProcessEntities
    <2>1. phase = "located" /\ UNCHANGED <<delivery, place>> /\ phase' \in {"published", "untold"}
      BY <1>6 DEF ProcessEntities
    <2>2. payload = MessageOf(delivery.body)
      BY <2>1 DEF PublishedInv, RoutedInv, ToldInv
    <2>3. ASSUME delivery.kind \in {"uplink", "cut"}
          PROVE  /\ phase' = "published"
                 /\ \E device : entities' = ParseToEntities(delivery.profile, RawByParser(delivery), device)
      <3>1. CanHandle(delivery.profile)
        <4>1. PICK n \in DOMAIN Deliveries : delivery = Deliveries[n]
          BY <2>1 DEF PublishedInv, RoutedInv, ToldInv
        <4>2. PICK d : d = delivery
          OBVIOUS
        <4>3. IsComplete(d) /\ d.kind \in {"uplink", "cut"}
          BY <2>3, <4>1, <4>2 DEF UplinksAreComplete
        <4> QED
          BY <4>2, <4>3 DEF IsComplete
      <3>2. RawPayload(payload, LNS, ExtractField(payload, LNS, "PayloadData"), <<>>)
              = RawByParser(delivery)
        BY <2>2 DEF RawByParser, LNS
      <3> QED
        BY <1>6, <3>1, <3>2 DEF ProcessEntities
    <2> QED
      BY <1>1, <2>1, <2>3 DEF PublishedInv, RawByParser
  <1>7. CASE HandleAPIMessage
    <2>1. /\ phase = "parsed" /\ isAPIMessage(payload) /\ UNCHANGED <<delivery, place>>
          /\ phase' \in {"failed", "published"}
      BY <1>7 DEF HandleAPIMessage
    <2>2. delivery.kind \notin {"uplink", "cut"}
      BY <1>1, <2>1, TakenForWhatItIs
    <2> QED
      BY <1>1, <2>1, <2>2 DEF PublishedInv
  <1>8. CASE NextMessage
    BY <1>1, <1>8 DEF NextMessage, PublishedInv
  <1> QED
    BY <1>2, <1>3, <1>4, <1>5, <1>6, <1>7, <1>8 DEF UplinkNext

\* The readings of an uplink are those its decoder finds.
ReadingsAreKnown == \A n \in DOMAIN Deliveries : ReadingsAreRead(Deliveries[n])

\* Besides a location these entities have these states, by key.
HasStates(out, states) ==
    /\ {out[n].key : n \in DOMAIN out} \ {"location"} = DOMAIN states
    /\ \A n \in DOMAIN out : out[n].key # "location" => out[n].state = states[out[n].key]

\* Besides a location the entities are the readings that the profile defines, each
\* with its state (BuildEntitiesFromState).
LEMMA EntitiesTell ==
    ASSUME NEW model \in DOMAIN Registry, NEW raw, NEW device,
           NEW out, out = ParseToEntities(model, raw, device),
           NEW states, states = StatesOf(model, Decode(model, raw).readings)
    PROVE  HasStates(out, states) /\ \E X : out \in Seq(X)
  <1>1. PICK profile, readings, loc :
          /\ profile = Registry[model] /\ readings = Decode(model, raw).readings
          /\ loc = LocationEntity(profile.location, Decode(model, raw), device)
    OBVIOUS
  <1>2. PICK keys, ents : keys = profile.keys /\ ents = BuildEntitiesFromState(keys, readings)
    OBVIOUS
  <1>3. out = loc \o ents
    BY <1>1, <1>2 DEF ParseToEntities
  <1>4. keys \in Seq(ToSet(keys)) /\ IsInjective(keys) /\ "location" \notin ToSet(keys)
    BY <1>1, <1>2, KeysAreNamedOnce DEF NamedOnce
  <1>5. PICK present : present = Filtered(keys, DOMAIN readings)
    OBVIOUS
  <1>6. /\ present \in Seq(ToSet(keys)) /\ ToSet(present) = ToSet(keys) \cap DOMAIN readings
    BY <1>4, <1>5, FilteredIs
  <1>7. ents = [n \in DOMAIN present |-> Entity(present[n], AlarmState(present[n], readings[present[n]]))]
    BY <1>2, <1>5 DEF BuildEntitiesFromState, Filtered
  <1>8. PICK N \in Nat : N = Len(present)
    BY <1>6
  <1>9. DOMAIN present = 1 .. N /\ DOMAIN ents = 1 .. N /\ \A n \in 1 .. N : present[n] \in ToSet(keys)
    BY <1>6, <1>7, <1>8
  <1>10. /\ DOMAIN states = ToSet(present)
         /\ \A key \in DOMAIN states : states[key] = AlarmState(key, readings[key])
    BY <1>1, <1>2, <1>6 DEF StatesOf
  <1>11. \A n \in 1 .. N : /\ ents[n].key = present[n] /\ present[n] \in DOMAIN states
                           /\ ents[n].state = states[present[n]] /\ present[n] # "location"
    <2>1. \A n \in 1 .. N : present[n] \in DOMAIN states
      BY <1>9, <1>10 DEF ToSet
    <2> QED
      BY <1>4, <1>7, <1>9, <1>10, <2>1 DEF Entity
  <1>12. \A key \in DOMAIN states : \E n \in 1 .. N : present[n] = key
    BY <1>9, <1>10 DEF ToSet
  <1>13. PICK X : X = ToSet(ents) \cup ToSet(loc)
    OBVIOUS
  <1>14. ents \in Seq(X) /\ Len(ents) = N
    <2>1. \A n \in 1 .. N : ents[n] \in X
      BY <1>9, <1>13 DEF ToSet
    <2> QED
      BY <1>7, <1>8, <1>9, <2>1
  <1>15. CASE loc = <<>>
    <2>1. out = ents
      BY <1>3, <1>14, <1>15
    <2>2. \A n \in DOMAIN out : out[n].key \in DOMAIN states /\ out[n].state = states[out[n].key]
      BY <1>9, <1>11, <2>1
    <2>3. \A key \in DOMAIN states : key # "location" /\ \E n \in DOMAIN out : out[n].key = key
      BY <1>9, <1>11, <1>12, <2>1
    <2>4. PICK named : named = {out[n].key : n \in DOMAIN out}
      OBVIOUS
    <2>5. named \subseteq DOMAIN states /\ "location" \notin DOMAIN states
      BY <2>2, <2>3, <2>4
    <2>6. DOMAIN states \subseteq named
      BY <2>3, <2>4
    <2>7. named \ {"location"} = DOMAIN states
      BY <2>5, <2>6
    <2> QED
      BY <1>14, <2>1, <2>2, <2>4, <2>7 DEF HasStates
  <1>16. CASE \E state : loc = <<Entity("location", state)>>
    <2>1. loc \in Seq(X) /\ Len(loc) = 1 /\ loc[1].key = "location"
      BY <1>13, <1>16 DEF ToSet, Entity
    <2>2. /\ out \in Seq(X) /\ Len(out) = N + 1 /\ DOMAIN out = 1 .. N + 1 /\ out[1].key = "location"
          /\ \A n \in 1 .. N : out[n + 1] = ents[n]
      <3>0. /\ loc \o ents \in Seq(X) /\ Len(loc \o ents) = Len(loc) + Len(ents)
            /\ \A n \in 1 .. Len(loc) + Len(ents) :
                 (loc \o ents)[n] = IF n <= Len(loc) THEN loc[n] ELSE ents[n - Len(loc)]
        BY <1>14, <2>1, ConcatProperties
      <3>1. /\ loc \o ents \in Seq(X) /\ Len(loc \o ents) = 1 + N
            /\ \A n \in 1 .. 1 + N : (loc \o ents)[n] = IF n <= 1 THEN loc[n] ELSE ents[n - 1]
        BY <1>14, <2>1, <3>0
      <3>2. \A n \in 1 .. N : n + 1 \in 1 .. 1 + N /\ ~(n + 1 <= 1) /\ (n + 1) - 1 = n
        OBVIOUS
      <3>3. 1 \in 1 .. 1 + N
        OBVIOUS
      <3>4. out[1] = loc[1] /\ \A n \in 1 .. N : out[n + 1] = ents[n]
        <4>1. out[1] = loc[1]
          BY <1>3, <3>1, <3>3
        <4>2. ASSUME NEW n \in 1 .. N PROVE out[n + 1] = ents[n]
          <5>1. PICK k \in 1 .. 1 + N : k = n + 1 /\ ~(k <= 1) /\ k - 1 = n
            BY <3>2
          <5> QED
            BY <1>3, <3>1, <5>1
        <4> QED
          BY <4>1, <4>2
      <3> QED
        BY <1>3, <2>1, <3>1, <3>4
    <2>3. \A n \in DOMAIN out : n = 1 \/ \E k \in 1 .. N : n = k + 1
      <3>1. \A n \in 1 .. N + 1 : n = 1 \/ (n - 1 \in 1 .. N /\ n = (n - 1) + 1)
        OBVIOUS
      <3> QED
        BY <2>2, <3>1
    <2>4. \A k \in 1 .. N : k + 1 \in DOMAIN out
      BY <2>2
    <2>5. \A n \in DOMAIN out : out[n].key # "location" =>
             out[n].key \in DOMAIN states /\ out[n].state = states[out[n].key]
      <3>1. ASSUME NEW k \in 1 .. N
            PROVE  out[k + 1].key \in DOMAIN states /\ out[k + 1].state = states[out[k + 1].key]
        <4>1. PICK e : e = out[k + 1] /\ e = ents[k]
          BY <2>2
        <4> QED
          BY <1>11, <4>1
      <3> QED
        BY <2>2, <2>3, <3>1
    <2>6. \A key \in DOMAIN states : key # "location" /\ \E n \in DOMAIN out : out[n].key = key
      <3>1. ASSUME NEW key \in DOMAIN states
            PROVE  key # "location" /\ \E n \in DOMAIN out : out[n].key = key
        <4>1. PICK k \in 1 .. N : present[k] = key
          BY <1>12
        <4>2. PICK e : e = out[k + 1] /\ e = ents[k]
          BY <2>2
        <4>3. e.key = present[k] /\ present[k] # "location"
          BY <1>11, <4>2
        <4>4. k + 1 \in DOMAIN out
          BY <2>4
        <4> QED
          BY <4>1, <4>2, <4>3, <4>4
      <3> QED
        BY <3>1
    <2> QED
      <3>1. \E Y : out \in Seq(Y)
        BY <2>2
      <3>2. PICK named : named = {out[n].key : n \in DOMAIN out}
        OBVIOUS
      <3>3. named \ {"location"} \subseteq DOMAIN states
        BY <2>5, <3>2
      <3>4. DOMAIN states \subseteq named \ {"location"}
        BY <2>6, <3>2
      <3>5. named \ {"location"} = DOMAIN states
        BY <3>3, <3>4
      <3>6. HasStates(out, states)
        BY <2>5, <3>2, <3>5 DEF HasStates
      <3> QED
        BY <3>1, <3>6
  <1> QED
    BY <1>1, <1>15, <1>16, LocationIsNamed

\* So they tell these readings and no other.
LEMMA TellsItsReadings ==
    ASSUME CanHandle(delivery.profile), NEW raw, NEW device,
           entities = ParseToEntities(delivery.profile, raw, device)
    PROVE  Tell(StatesOf(delivery.profile, Decode(delivery.profile, raw).readings))
  <1>1. PICK model, out, states :
          /\ model = delivery.profile /\ out = entities
          /\ states = StatesOf(model, Decode(model, raw).readings)
    OBVIOUS
  <1>2. model \in DOMAIN Registry /\ out = ParseToEntities(model, raw, device)
    BY <1>1 DEF CanHandle
  <1>3. /\ {out[n].key : n \in DOMAIN out} \ {"location"} = DOMAIN states
        /\ \A n \in DOMAIN out : out[n].key # "location" => out[n].state = states[out[n].key]
    <2>1. HasStates(out, states)
      BY <1>1, <1>2, EntitiesTell
    <2> QED
      BY <2>1 DEF HasStates
  <1>4. EntityKeys = {out[n].key : n \in DOMAIN out}
    BY <1>1 DEF EntityKeys
  <1>5. ASSUME NEW key \in DOMAIN states PROVE State(key) = states[key]
    <2>1. key # "location" /\ \E n \in DOMAIN out : out[n].key = key
      BY <1>3
    <2>2. PICK n \in DOMAIN out : out[n].key = key /\ State(key) = out[n].state
      BY <1>1, <2>1 DEF State
    <2> QED
      BY <1>3, <2>1, <2>2
  <1> QED
    BY <1>1, <1>3, <1>4, <1>5 DEF Tell

\* Every reading of a device that its profile defines is published with its value
\* and nothing else, whichever server sent the message and however it was wrapped
\* (the LNS handlers, ParsePayload, BuildEntitiesFromState): for any bytes, any
\* position, and any history of positions.
THEOREM MeasurementsStay ==
    ASSUME UplinksAreNoApiMessages, MessagesAreMarked, UplinksAreComplete, ReadingsAreKnown
    PROVE  Spec => []MeasurementsSurvive
  <1>1. Init => PublishedInv
    BY DEF Init, Idling, ToldInv, RoutedInv, PublishedInv
  <1>2. PublishedInv /\ [Next]_<<vars, apiVars, gateways>> => PublishedInv'
    <2>1. ASSUME PublishedInv, UNCHANGED vars PROVE PublishedInv'
      BY <2>1 DEF vars, PublishedInv, RoutedInv, ToldInv, Declared, EntityKeys, RawByParser
    <2> QED
      BY <2>1, PublishedStep DEF Next, Consume, Serve, Locate
  <1>3. PublishedInv => MeasurementsSurvive
    <2> SUFFICES ASSUME PublishedInv, Done("uplink") PROVE phase = "published" /\ Tell(delivery.expect)
      BY DEF MeasurementsSurvive
    <2>1. phase \in Ended /\ delivery.kind = "uplink" /\ phase # "idle"
      BY DEF Done, Ended
    <2>2. phase = "published"
      BY <2>1 DEF PublishedInv, Ended
    <2>3. PICK device : entities = ParseToEntities(delivery.profile, RawByParser(delivery), device)
      BY <2>1, <2>2 DEF PublishedInv
    <2>4. PICK d, n : n \in DOMAIN Deliveries /\ d = Deliveries[n] /\ d = delivery
      BY <2>1 DEF PublishedInv, RoutedInv, ToldInv
    <2>5. /\ CanHandle(d.profile)
          /\ d.expect = StatesOf(d.profile, Decode(d.profile, RawByParser(d)).readings)
      <3>1. IsComplete(d) /\ ReadingsAreRead(d) /\ d.kind = "uplink"
        BY <2>1, <2>4 DEF UplinksAreComplete, ReadingsAreKnown
      <3> QED
        BY <3>1 DEF IsComplete, ReadingsAreRead, ReadByParser
    <2>6. Tell(delivery.expect)
      <3>1. PICK raw : raw = RawByParser(d)
        OBVIOUS
      <3>2. CanHandle(delivery.profile) /\ entities = ParseToEntities(delivery.profile, raw, device)
        BY <2>3, <2>4, <2>5, <3>1
      <3>3. Tell(StatesOf(delivery.profile, Decode(delivery.profile, raw).readings))
        BY <3>2, TellsItsReadings
      <3> QED
        BY <2>4, <2>5, <3>1, <3>3
    <2> QED
      BY <2>2, <2>6
  <1> QED
    BY <1>1, <1>2, <1>3, PTL DEF Spec

\* A message of the HTTP API can be decoded, by the device's profile or as scalars.
ApiMessagesAreRead == \A n \in DOMAIN Deliveries : ApiIsRead(Deliveries[n])

\* What the profile of the device makes of a message of the API, if it has one.
KnownOfApi(d) ==
    IF CanHandle(d.profile)
    THEN ParseToEntities(d.profile, APIRawPayload(extractAPIPayload(MessageOf(d.body))[1].Payload), <<>>)
    ELSE <<>>
ToldOfApi(d) ==
    IF KnownOfApi(d) # <<>> THEN KnownOfApi(d)
    ELSE buildAPIEntities(extractAPIPayload(MessageOf(d.body))[1].Payload)

\* A message of the API is never routed or located; what is told of it is what its
\* profile makes of it or its scalars.
ApiInv ==
    /\ ToldInv
    /\ phase # "idle" /\ delivery.kind = "api" =>
         /\ phase \in {"received", "parsed", "published", "failed"}
         /\ phase \in {"published", "failed"} =>
              /\ entities = ToldOfApi(delivery)
              /\ phase = IF entities = <<>> THEN "failed" ELSE "published"

\* Every step of the consumer keeps it (UplinkNext).
LEMMA ApiStep ==
    ASSUME ApiMessagesAreRead, ApiInv, UplinkNext
    PROVE  ApiInv'
  <1>1. ToldInv /\ ToldInv'
    BY ToldStep DEF ApiInv
  <1>2. ASSUME phase \notin {"idle", "received"}, delivery.kind = "api"
        PROVE  /\ isAPIMessage(payload) /\ payload = MessageOf(delivery.body)
               /\ extractAPIPayload(payload) # <<>> /\ extractAPIPayload(payload)[1].Payload.ok
    <2>1. PICK n \in DOMAIN Deliveries : delivery = Deliveries[n]
      BY <1>1, <1>2 DEF ToldInv
    <2>2. PICK d : d = delivery /\ ApiIsRead(d) /\ d.kind = "api"
      BY <1>2, <2>1 DEF ApiMessagesAreRead
    <2>3. payload = MessageOf(d.body)
      BY <1>1, <1>2, <2>2 DEF ToldInv
    <2> QED
      BY <2>2, <2>3 DEF ApiIsRead
  <1>3. CASE Receive
    BY <1>1, <1>3 DEF Receive, ApiInv
  <1>4. CASE ParseMessage
    BY <1>1, <1>4 DEF ParseMessage, ApiInv
  <1>5. CASE RouteEvent
    <2>1. phase = "parsed" /\ ~isAPIMessage(payload) /\ UNCHANGED delivery
      BY <1>5 DEF RouteEvent
    <2>2. delivery.kind # "api"
      BY <1>2, <2>1
    <2> QED
      BY <1>1, <2>1, <2>2 DEF ApiInv
  <1>6. CASE Resolve
    <2>1. phase = "parsed" /\ ~isAPIMessage(payload) /\ UNCHANGED delivery
      BY <1>6 DEF Resolve
    <2>2. delivery.kind # "api"
      BY <1>2, <2>1
    <2> QED
      BY <1>1, <2>1, <2>2 DEF ApiInv
  <1>7. CASE ProcessEntities
    <2>1. phase = "located" /\ UNCHANGED delivery
      BY <1>7 DEF ProcessEntities
    <2>2. delivery.kind # "api"
      BY <2>1 DEF ApiInv
    <2> QED
      BY <1>1, <2>1, <2>2 DEF ApiInv
  <1>8. CASE HandleAPIMessage
    <2>1. /\ phase = "parsed" /\ UNCHANGED <<delivery, payload>> /\ phase' \in {"failed", "published"}
      BY <1>8 DEF HandleAPIMessage
    <2>2. ASSUME delivery.kind = "api"
          PROVE  /\ entities' = ToldOfApi(delivery)
                 /\ phase' = IF entities' = <<>> THEN "failed" ELSE "published"
      <3>1. PICK message : message = extractAPIPayload(payload)
        OBVIOUS
      <3>2. message # <<>> /\ message[1].Payload.ok /\ message = extractAPIPayload(MessageOf(delivery.body))
        BY <1>2, <2>1, <2>2, <3>1
      <3>3. PICK content : content = message[1].Payload
        OBVIOUS
      <3>4. /\ entities' = IF APIProfileEntities(content) # <<>>
                           THEN APIProfileEntities(content) ELSE buildAPIEntities(content)
            /\ phase' = IF entities' = <<>> THEN "failed" ELSE "published"
        BY <1>8, <3>1, <3>2, <3>3 DEF HandleAPIMessage
      <3>5. KnownOfApi(delivery) = APIProfileEntities(content)
        BY <3>2, <3>3 DEF KnownOfApi, APIProfileEntities
      <3>6. ToldOfApi(delivery) = IF APIProfileEntities(content) # <<>>
                                  THEN APIProfileEntities(content) ELSE buildAPIEntities(content)
        BY <3>2, <3>3, <3>5 DEF ToldOfApi
      <3> QED
        BY <3>4, <3>6
    <2> QED
      BY <1>1, <2>1, <2>2 DEF ApiInv, ToldOfApi, KnownOfApi
  <1>9. CASE NextMessage
    BY <1>1, <1>9 DEF NextMessage, ApiInv
  <1> QED
    BY <1>3, <1>4, <1>5, <1>6, <1>7, <1>8, <1>9 DEF UplinkNext

\* Without a position to begin with a location is told if it is computed, or read.
LEMMA LocationsOfApi ==
    ASSUME NEW how, NEW decoded, NEW loc, loc = LocationEntity(how, decoded, <<>>)
    PROVE  loc # <<>> <=> how = "computed" \/ (how = "reported" /\ decoded.location.found)
  <1>1. PICK none : none = <<>>
    OBVIOUS
  <1>2. PICK parsed, resolved :
          /\ parsed = Optional(decoded.location)
          /\ resolved = ResolveLocationBearing(parsed, none, decoded.readings)
    OBVIOUS
  <1>3. resolved # <<>> <=> decoded.location.found
    <2>1. PICK source, reported :
            /\ source = parsed \o none
            /\ reported = SelectSeq(<<"heading", "bearing">>, LAMBDA k : k \in DOMAIN decoded.readings)
      OBVIOUS
    <2>2. PICK bearing : bearing = IF reported # <<>> THEN decoded.readings[Head(reported)] % 360000
                                   ELSE IF none # <<>> THEN none[1].bearing ELSE source[1].bearing
      OBVIOUS
    <2>3. resolved = IF source = <<>> THEN <<>> ELSE <<Position(source[1], bearing)>>
      BY <1>2, <2>1, <2>2 DEF ResolveLocationBearing
    <2>4. source # <<>> <=> decoded.location.found
      <3>1. PICK p : parsed = IF decoded.location.found THEN <<p>> ELSE <<>>
        BY <1>2 DEF Optional
      <3>2. <<p>> \o none # <<>> /\ <<>> \o none = <<>>
        BY <1>1
      <3> QED
        BY <2>1, <3>1, <3>2
    <2> QED
      BY <2>3, <2>4
  <1>4. loc = CASE how = "reported" /\ resolved # <<>> ->
                <<Entity("location", Sourced(IF parsed # <<>> THEN "gps" ELSE "gateway", resolved))>>
          [] how = "computed" -> <<Entity("location", Sourced("trilateration", none))>>
          [] OTHER -> <<>>
    BY <1>1, <1>2 DEF LocationEntity
  <1>5. CASE how = "reported" /\ decoded.location.found
    BY <1>3, <1>4, <1>5
  <1>6. CASE how = "computed"
    BY <1>4, <1>6
  <1>7. CASE how # "computed" /\ ~(how = "reported" /\ decoded.location.found)
    BY <1>3, <1>4, <1>7
  <1> QED
    BY <1>5, <1>6, <1>7

\* Where a profile reads nothing, and has no location, it tells nothing.
LEMMA NothingToTell ==
    ASSUME NEW model \in DOMAIN Registry, NEW raw,
           DOMAIN StatesOf(model, Decode(model, raw).readings) = {},
           LocationEntity(Registry[model].location, Decode(model, raw), <<>>) = <<>>
    PROVE  ParseToEntities(model, raw, <<>>) = <<>>
  <1>1. PICK out, device : device = <<>> /\ out = ParseToEntities(model, raw, device)
    OBVIOUS
  <1>2. PICK decoded, how : decoded = Decode(model, raw) /\ how = Registry[model].location
    OBVIOUS
  <1>3. PICK loc : loc = LocationEntity(how, decoded, device)
    OBVIOUS
  <1>4. loc = <<>>
    BY <1>1, <1>2, <1>3
  <1>5. PICK states : states = StatesOf(model, Decode(model, raw).readings) /\ DOMAIN states = {}
    OBVIOUS
  <1>6. HasStates(out, states) /\ \E X : out \in Seq(X)
    BY <1>1, <1>5, EntitiesTell
  <1>7. \A n \in DOMAIN out : out[n].key # "location"
    BY <1>1, <1>2, <1>3, <1>4, LocationIsToldOnce
  <1>8. DOMAIN out = {}
    <2>1. PICK named : named = {out[n].key : n \in DOMAIN out}
      OBVIOUS
    <2>2. "location" \notin named /\ named \ {"location"} = {}
      BY <1>5, <1>6, <1>7, <2>1 DEF HasStates
    <2> QED
      BY <2>1, <2>2
  <1>9. out = <<>>
    BY <1>6, <1>8
  <1> QED
    BY <1>1, <1>9

\* What no profile understands is told under the names of its scalars.
ScalarNames(content) ==
    LET scalars == {k \in DOMAIN content.json[1] : content.json[1][k].scalar}
    IN  IF content.json = <<>> \/ scalars = {} THEN {<<"raw_payload">>}
        ELSE {normalizeAPIEntityKey(Spelling[k]) : k \in scalars}
TellsScalars(out, content) == out # <<>> /\ {out[n].key : n \in DOMAIN out} = ScalarNames(content)

\* The entities made without a profile (buildAPIEntities).
LEMMA ScalarsAreTold ==
    ASSUME NEW content, content.json # <<>> => IsFiniteSet(DOMAIN content.json[1]),
           NEW out, out = buildAPIEntities(content)
    PROVE  TellsScalars(out, content)
  <1>1. PICK scalars : scalars = {k \in DOMAIN content.json[1] : content.json[1][k].scalar}
    OBVIOUS
  <1>2. ScalarNames(content) = IF content.json = <<>> \/ scalars = {} THEN {<<"raw_payload">>}
                               ELSE {normalizeAPIEntityKey(Spelling[k]) : k \in scalars}
    BY <1>1 DEF ScalarNames
  <1>3. ASSUME NEW state, out = RawPayloadEntity(state)
        PROVE  out # <<>> /\ {out[n].key : n \in DOMAIN out} = {<<"raw_payload">>}
    <2>1. PICK e : e = APIEntity(<<"raw_payload">>, state)
      OBVIOUS
    <2>2. out = <<e>> /\ e.key = <<"raw_payload">>
      BY <1>3, <2>1 DEF RawPayloadEntity, APIEntity
    <2>3. DOMAIN out = {1} /\ out[1] = e /\ out # <<>>
      BY <2>2
    <2> QED
      BY <2>2, <2>3
  <1>4. CASE content.json = <<>>
    BY <1>2, <1>3, <1>4 DEF buildAPIEntities, TellsScalars
  <1>5. CASE content.json # <<>>
    <2>1. PICK fields : fields = content.json[1]
      OBVIOUS
    <2>2. scalars = {name \in DOMAIN fields : fields[name].scalar}
      BY <1>1, <2>1
    <2>3. IsFiniteSet(scalars)
      BY <1>5, <2>1, <2>2, FS_Subset
    <2>4. PICK seq : seq = SetToSeq(scalars)
      OBVIOUS
    <2>5. seq \in Seq(scalars) /\ ToSet(seq) = scalars
      BY <2>3, <2>4, SetToSeqIs
    <2>6. out = IF seq = <<>> THEN RawPayloadEntity("json")
                ELSE [n \in DOMAIN seq |-> APIEntity(normalizeAPIEntityKey(Spelling[seq[n]]),
                                                     fields[seq[n]].value)]
      BY <1>5, <2>1, <2>2, <2>4 DEF buildAPIEntities, buildAPIJSONEntities
    <2>7. CASE seq = <<>>
      <3>1. scalars = {}
        BY <2>5, <2>7 DEF ToSet
      <3> QED
        BY <1>2, <1>3, <2>6, <2>7, <3>1 DEF TellsScalars
    <2>8. CASE seq # <<>>
      <3>1. PICK N \in Nat : N = Len(seq) /\ N # 0 /\ DOMAIN seq = 1 .. N
        BY <2>5, <2>8
      <3>2. /\ DOMAIN out = 1 .. N
            /\ \A n \in 1 .. N : out[n].key = normalizeAPIEntityKey(Spelling[seq[n]])
        BY <2>6, <2>8, <3>1 DEF APIEntity
      <3>3. scalars = {seq[n] : n \in 1 .. N}
        BY <2>5, <3>1 DEF ToSet
      <3>4. {out[n].key : n \in DOMAIN out} = {normalizeAPIEntityKey(Spelling[k]) : k \in scalars}
        BY <3>2, <3>3
      <3>5. 1 \in DOMAIN out /\ seq[1] \in scalars
        BY <3>1, <3>2, <3>3
      <3>6. scalars # {} /\ out # <<>>
        BY <3>5
      <3>7. (content.json = <<>> \/ scalars = {}) = FALSE
        BY <1>5, <3>6
      <3> QED
        BY <1>2, <3>4, <3>6, <3>7 DEF TellsScalars
    <2> QED
      BY <2>7, <2>8
  <1> QED
    BY <1>4, <1>5

\* A message of the HTTP API that can be decoded is always reported
\* (handleAPIMessage): as the readings, and the location, of the device's profile if
\* that reads something or has its location computed, and otherwise under the names
\* of its scalars, and as its raw payload if it has none.
THEOREM ApiMessagesStayReported ==
    ASSUME ApiMessagesAreRead PROVE Spec => []ApiMessagesAreReported
  <1>1. Init => ApiInv
    BY DEF Init, Idling, ToldInv, ApiInv
  <1>2. ApiInv /\ [Next]_<<vars, apiVars, gateways>> => ApiInv'
    <2>1. ASSUME ApiInv, UNCHANGED vars PROVE ApiInv'
      BY <2>1 DEF vars, ApiInv, ToldInv, Declared, EntityKeys, ToldOfApi, KnownOfApi
    <2> QED
      BY <2>1, ApiStep DEF Next, Consume, Serve, Locate
  <1>3. ApiInv => ApiMessagesAreReported
    <2> SUFFICES ASSUME ApiInv, Done("api")
                 PROVE  /\ phase = "published" /\ entities # <<>>
                        /\ IF DOMAIN delivery.expect # {} \/ TellsLocation(delivery)
                           THEN /\ Tell(delivery.expect)
                                /\ "location" \in EntityKeys <=> TellsLocation(delivery)
                           ELSE EntityKeys = delivery.names
      BY DEF ApiMessagesAreReported
    <2>1. phase \in {"published", "failed"} /\ delivery.kind = "api"
      BY DEF Done, Ended, ApiInv
    <2>2. entities = ToldOfApi(delivery) /\ phase = IF entities = <<>> THEN "failed" ELSE "published"
      BY <2>1 DEF ApiInv
    <2>3. PICK d : d = delivery /\ ApiIsRead(d) /\ d.kind = "api"
      BY <2>1 DEF ApiInv, ToldInv, ApiMessagesAreRead
    <2>4. PICK content, raw : /\ content = extractAPIPayload(MessageOf(d.body))[1].Payload
                              /\ raw = APIRawPayload(content)
      OBVIOUS
    <2>5. PICK decoded, states : /\ decoded = Decode(d.profile, raw)
                                 /\ states = StatesOf(d.profile, decoded.readings)
      OBVIOUS
    <2>6. /\ d.expect = IF CanHandle(d.profile) THEN states ELSE NoReadings
          /\ SupportsGPS(d.profile) => (d.fix = <<>>) = ~decoded.location.found
          /\ DOMAIN d.expect = {} =>
               /\ content.json # <<>> => IsFiniteSet(DOMAIN content.json[1])
               /\ d.names = ScalarNames(content)
      BY <2>3, <2>4, <2>5 DEF ApiIsRead, ScalarNames
    <2>7. KnownOfApi(d) = IF CanHandle(d.profile) THEN ParseToEntities(d.profile, raw, <<>>) ELSE <<>>
      BY <2>4 DEF KnownOfApi
    <2>8. PICK loc : loc = LocationEntity(Registry[d.profile].location, decoded, <<>>)
      OBVIOUS
    <2>9. TellsLocation(d) <=> CanHandle(d.profile) /\ loc # <<>>
      <3>1. PICK how : how = Registry[d.profile].location
        OBVIOUS
      <3>2. loc # <<>> <=> how = "computed" \/ (how = "reported" /\ decoded.location.found)
        BY <2>8, <3>1, LocationsOfApi
      <3>3. SupportsGPS(d.profile) <=> CanHandle(d.profile) /\ how = "reported"
        BY <3>1 DEF SupportsGPS
      <3>4. TellsLocation(d) <=> /\ CanHandle(d.profile)
                                 /\ \/ SupportsGPS(d.profile) /\ d.fix # <<>>
                                    \/ how = "computed"
        BY <3>1 DEF TellsLocation
      <3> QED
        BY <2>6, <3>2, <3>3, <3>4
    <2>10. CASE DOMAIN d.expect # {} \/ TellsLocation(d)
      <3>1. DOMAIN NoReadings = {}
        BY DEF NoReadings
      <3>2. CanHandle(d.profile) /\ d.expect = states
        BY <2>6, <2>9, <2>10, <3>1
      <3>3. PICK known, device : device = <<>> /\ known = ParseToEntities(d.profile, raw, device)
        OBVIOUS
      <3>4. HasStates(known, states)
        BY <2>5, <3>2, <3>3, EntitiesTell DEF CanHandle
      <3>5. PICK keys : keys = {known[n].key : n \in DOMAIN known}
        OBVIOUS
      <3>6. "location" \in keys <=> TellsLocation(d)
        <4>1. /\ \A n \in DOMAIN known : known[n].key = "location" => loc # <<>>
              /\ loc # <<>> => 1 \in DOMAIN known /\ known[1].key = "location"
          BY <2>5, <2>8, <3>2, <3>3, LocationIsToldOnce DEF CanHandle
        <4> QED
          BY <2>9, <3>2, <3>5, <4>1
      <3>7. keys \ {"location"} = DOMAIN d.expect
        BY <3>2, <3>4, <3>5 DEF HasStates
      <3>8. known # <<>>
        <4>1. keys # {}
          BY <2>10, <3>6, <3>7
        <4> QED
          BY <3>5, <4>1
      <3>9. entities = known
        BY <2>2, <2>3, <2>7, <3>2, <3>3, <3>8 DEF ToldOfApi
      <3>10. Tell(StatesOf(delivery.profile, Decode(delivery.profile, raw).readings))
        BY <2>3, <3>2, <3>3, <3>9, TellsItsReadings
      <3>11. Tell(delivery.expect)
        BY <2>3, <2>5, <3>2, <3>10
      <3>12. EntityKeys = keys
        BY <3>5, <3>9 DEF EntityKeys
      <3> QED
        BY <2>2, <2>3, <2>10, <3>6, <3>8, <3>9, <3>11, <3>12
    <2>11. CASE ~(DOMAIN d.expect # {} \/ TellsLocation(d))
      <3>1. KnownOfApi(d) = <<>>
        <4>1. CASE ~CanHandle(d.profile)
          BY <2>7, <4>1
        <4>2. CASE CanHandle(d.profile)
          <5>1. DOMAIN states = {} /\ loc = <<>>
            BY <2>6, <2>9, <2>11, <4>2
          <5>2. d.profile \in DOMAIN Registry
            BY <4>2 DEF CanHandle
          <5>3. ParseToEntities(d.profile, raw, <<>>) = <<>>
            BY <2>5, <2>8, <5>1, <5>2, NothingToTell
          <5> QED
            BY <2>7, <5>3
        <4> QED
          BY <4>1, <4>2
      <3>2. entities = buildAPIEntities(content)
        BY <2>2, <2>3, <2>4, <3>1 DEF ToldOfApi
      <3>3. PICK out : out = entities
        OBVIOUS
      <3>4. content.json # <<>> => IsFiniteSet(DOMAIN content.json[1])
        BY <2>6, <2>11
      <3>5. out # <<>> /\ {out[n].key : n \in DOMAIN out} = d.names
        <4>1. d.names = ScalarNames(content)
          BY <2>6, <2>11
        <4>2. TellsScalars(out, content)
          BY <3>2, <3>3, <3>4, ScalarsAreTold
        <4> QED
          BY <4>1, <4>2 DEF TellsScalars
      <3>6. EntityKeys = d.names
        BY <3>3, <3>5 DEF EntityKeys
      <3> QED
        BY <2>2, <2>3, <2>11, <3>3, <3>5, <3>6
    <2> QED
      BY <2>10, <2>11
  <1> QED
    BY <1>1, <1>2, <1>3, PTL DEF Spec

-----------------------------------------------------------------------------
\* Messages cut short: bytes.

Octets == 0 .. 255

\* A part of a message is what stands in it.
LEMMA CutIs ==
    ASSUME NEW b \in Seq(Octets), NEW i \in Nat, NEW n \in Nat, i + n <= Len(b)
    PROVE  /\ Cut(b, i, n) \in Seq(Octets) /\ Len(Cut(b, i, n)) = n
           /\ \A k \in 1 .. n : Cut(b, i, n)[k] = b[i + k]
  <1>1. PICK lo \in Int, hi \in Int : lo = i + 1 /\ hi = i + n
    OBVIOUS
  <1>2. \A k \in lo .. hi : b[k] \in Octets
    <2>1. \A k \in lo .. hi : k \in 1 .. Len(b)
      BY <1>1, LenProperties
    <2> QED
      BY <2>1, ElementOfSeq
  <1>3. /\ SubSeq(b, lo, hi) \in Seq(Octets)
        /\ Len(SubSeq(b, lo, hi)) = IF lo <= hi THEN hi - lo + 1 ELSE 0
        /\ \A k \in 1 .. hi - lo + 1 : SubSeq(b, lo, hi)[k] = b[lo + k - 1]
    BY <1>2, SubSeqProperties
  <1>4. hi - lo + 1 = n /\ (IF lo <= hi THEN hi - lo + 1 ELSE 0) = n
    BY <1>1
  <1>5. \A k \in 1 .. n : lo + k - 1 = i + k
    BY <1>1
  <1>6. Cut(b, i, n) = SubSeq(b, lo, hi)
    BY <1>1 DEF Cut
  <1> QED
    BY <1>3, <1>4, <1>5, <1>6

\* The two bytes that tell the type of a record.
LEMMA CutTwo ==
    ASSUME NEW b \in Seq(Octets), NEW i \in Nat, i + 2 <= Len(b)
    PROVE  Cut(b, i, 2) = <<At(b, i), At(b, i + 1)>>
  <1>1. /\ Cut(b, i, 2) \in Seq(Octets) /\ Len(Cut(b, i, 2)) = 2
        /\ \A k \in 1 .. 2 : Cut(b, i, 2)[k] = b[i + k]
    <2>1. PICK n \in Nat : n = 2
      OBVIOUS
    <2>2. i + n <= Len(b)
      BY <2>1
    <2> QED
      BY <2>1, <2>2, CutIs
  <1>2. b[i + 1] \in Octets /\ b[i + 2] \in Octets
    <2>1. i + 1 \in 1 .. Len(b) /\ i + 2 \in 1 .. Len(b)
      BY LenProperties
    <2> QED
      BY <2>1, ElementOfSeq
  <1>3. PICK x, y : x = b[i + 1] /\ y = b[i + 2]
    OBVIOUS
  <1>4. <<x, y>> \in Seq(Octets) /\ Len(<<x, y>>) = 2 /\ <<x, y>>[1] = x /\ <<x, y>>[2] = y
    BY <1>2, <1>3
  <1>5. \A k \in 1 .. 2 : k = 1 \/ k = 2
    OBVIOUS
  <1>6. \A k \in 1 .. 2 : Cut(b, i, 2)[k] = <<x, y>>[k]
    BY <1>1, <1>3, <1>4, <1>5
  <1>7. Cut(b, i, 2) = <<x, y>>
    BY <1>1, <1>4, <1>6, SeqEqual
  <1>8. At(b, i) = x /\ At(b, i + 1) = y
    <2>1. (i + 1) + 1 = i + 2
      OBVIOUS
    <2> QED
      BY <1>3, <2>1 DEF At
  <1> QED
    BY <1>7, <1>8

\* b is what came of the message s.
Beginning(b, s) == s \in Seq(Octets) /\ b \in Seq(Octets) /\ Len(b) <= Len(s)
                   /\ \A k \in DOMAIN b : b[k] = s[k]

\* What came of a message is its beginning.
LEMMA BeginningIs ==
    ASSUME NEW s \in Seq(Octets), NEW c \in 0 .. Len(s), NEW b, b = SubSeq(s, 1, c)
    PROVE  Beginning(b, s) /\ Len(b) = c
  <1>1. \A k \in 1 .. c : s[k] \in Octets
    <2>1. \A k \in 1 .. c : k \in 1 .. Len(s)
      BY LenProperties
    <2> QED
      BY <2>1, ElementOfSeq
  <1>2. PICK lo \in Int : lo = 1
    OBVIOUS
  <1>3. /\ SubSeq(s, lo, c) \in Seq(Octets)
        /\ Len(SubSeq(s, lo, c)) = IF lo <= c THEN c - lo + 1 ELSE 0
        /\ \A k \in 1 .. c - lo + 1 : SubSeq(s, lo, c)[k] = s[lo + k - 1]
    BY <1>1, <1>2, SubSeqProperties
  <1>4. b \in Seq(Octets) /\ Len(b) = c /\ \A k \in 1 .. c : b[k] = s[k]
    BY <1>2, <1>3
  <1> QED
    BY <1>4 DEF Beginning

\* Its bytes and parts are those of the message.
LEMMA BeginningAt ==
    ASSUME NEW b, NEW s, Beginning(b, s), NEW i \in Nat, i < Len(b)
    PROVE  At(b, i) = At(s, i) /\ At(b, i) \in Octets
  <1>1. i + 1 \in DOMAIN b
    BY DEF Beginning
  <1> QED
    BY <1>1 DEF Beginning, At

\* And in every part that lies before the end of the beginning.
LEMMA BeginningCut ==
    ASSUME NEW b, NEW s, Beginning(b, s), NEW i \in Nat, NEW n \in Nat, i + n <= Len(b)
    PROVE  Cut(b, i, n) = Cut(s, i, n)
  <1>1. s \in Seq(Octets) /\ b \in Seq(Octets) /\ i + n <= Len(s)
    BY DEF Beginning
  <1>2. PICK p, q : p = Cut(b, i, n) /\ q = Cut(s, i, n)
    OBVIOUS
  <1>3. p \in Seq(Octets) /\ Len(p) = n /\ \A k \in 1 .. n : p[k] = b[i + k]
    BY <1>1, <1>2, CutIs
  <1>4. q \in Seq(Octets) /\ Len(q) = n /\ \A k \in 1 .. n : q[k] = s[i + k]
    BY <1>1, <1>2, CutIs
  <1>5. ASSUME NEW k \in 1 .. n PROVE b[i + k] = s[i + k]
    <2>1. i + k \in DOMAIN b
      BY <1>1
    <2> QED
      BY <2>1 DEF Beginning
  <1>6. p = q
    <2>1. Len(p) = Len(q) /\ \A k \in 1 .. Len(p) : p[k] = q[k]
      BY <1>3, <1>4, <1>5
    <2> QED
      BY <1>3, <1>4, <2>1, SeqEqual
  <1> QED
    BY <1>2, <1>6

-----------------------------------------------------------------------------
\* The walk from record to record.

\* ends tells for each offset where reading goes on.
Onwards(ends, L) == L \in Nat /\ ends \in [0 .. L -> 0 .. L] /\ \A i \in 0 .. L : ends[i] >= i

Walk(from, ends) ==
    from = [i \in DOMAIN ends |-> IF ends[i] = i THEN <<>> ELSE <<i>> \o from[ends[i]]]

\* A reader that never goes back comes to its end.
LEMMA WalksExist ==
    ASSUME NEW L, NEW ends, Onwards(ends, L)
    PROVE  \E from \in [0 .. L -> Seq(Nat)] : Walk(from, ends)
  <1>1. L \in Nat /\ ends \in [0 .. L -> 0 .. L] /\ \A i \in 0 .. L : ends[i] >= i
    BY DEF Onwards
  <1> DEFINE Good(f, k) == \A i \in L - k .. L : f[i] = IF ends[i] = i THEN <<>>
                                                        ELSE <<i>> \o f[ends[i]]
  <1>2. PICK Q : Q = {k \in 0 .. L : \E f \in [0 .. L -> Seq(Nat)] : Good(f, k)}
    OBVIOUS
  <1>3. 0 \in Q
    <2>1. PICK f \in [0 .. L -> Seq(Nat)] : f = [i \in 0 .. L |-> <<>>]
      <3>1. PICK V : V = Seq(Nat)
        OBVIOUS
      <3>2. <<>> \in V
        BY <3>1, EmptySeq
      <3>3. [i \in 0 .. L |-> <<>>] \in [0 .. L -> V]
        BY <3>2
      <3> QED
        BY <3>1, <3>3
    <2>2. \A i \in L - 0 .. L : i = L /\ ends[i] = i
      BY <1>1
    <2>3. Good(f, 0)
      BY <1>1, <2>1, <2>2
    <2> QED
      BY <1>1, <1>2, <2>3
  <1>4. ASSUME NEW k \in 0 .. L - 1, k \in Q PROVE k + 1 \in Q
    <2>1. PICK f \in [0 .. L -> Seq(Nat)] : Good(f, k)
      BY <1>2, <1>4
    <2>2. PICK j \in 0 .. L : j = L - (k + 1)
      BY <1>1
    <2>3. PICK v \in Seq(Nat) : v = IF ends[j] = j THEN <<>> ELSE <<j>> \o f[ends[j]]
      <3>1. f[ends[j]] \in Seq(Nat) /\ <<j>> \in Seq(Nat) /\ <<>> \in Seq(Nat)
        BY <1>1
      <3>2. <<j>> \o f[ends[j]] \in Seq(Nat)
        BY <3>1, ConcatProperties
      <3> QED
        BY <3>1, <3>2
    <2>4. PICK g \in [0 .. L -> Seq(Nat)] : g = [i \in 0 .. L |-> IF i = j THEN v ELSE f[i]]
      OBVIOUS
    <2>5. ASSUME NEW i \in L - (k + 1) .. L
          PROVE  g[i] = IF ends[i] = i THEN <<>> ELSE <<i>> \o g[ends[i]]
      <3>1. i \in 0 .. L /\ ends[i] \in 0 .. L /\ ends[i] >= i
        BY <1>1, <2>2
      <3>2. CASE i = j
        <4>1. g[i] = v
          BY <2>4, <3>2
        <4>2. ends[i] # i => g[ends[i]] = f[ends[i]]
          BY <2>4, <3>1, <3>2
        <4> QED
          BY <2>3, <3>2, <4>1, <4>2
      <3>3. CASE i # j
        <4>1. i \in L - k .. L /\ ends[i] # j
          BY <1>1, <2>2, <3>1, <3>3
        <4>2. g[i] = f[i] /\ g[ends[i]] = f[ends[i]]
          BY <2>4, <3>1, <3>3, <4>1
        <4>3. f[i] = IF ends[i] = i THEN <<>> ELSE <<i>> \o f[ends[i]]
          BY <2>1, <4>1
        <4> QED
          BY <4>2, <4>3
      <3> QED
        BY <3>2, <3>3
    <2>6. k + 1 \in 0 .. L
      BY <1>1
    <2> QED
      BY <1>2, <2>5, <2>6
  <1>5. L \in Q
    <2>1. 0 .. L \subseteq Q
      BY <1>1, <1>3, <1>4, UpTo
    <2> QED
      BY <1>1, <2>1
  <1>6. PICK f \in [0 .. L -> Seq(Nat)] : Good(f, L)
    BY <1>2, <1>5
  <1>7. \A i \in 0 .. L : f[i] = IF ends[i] = i THEN <<>> ELSE <<i>> \o f[ends[i]]
    <2>1. L - L = 0
      BY <1>1
    <2> QED
      BY <1>6, <2>1
  <1>8. f = [i \in 0 .. L |-> IF ends[i] = i THEN <<>> ELSE <<i>> \o f[ends[i]]]
    BY <1>7
  <1> QED
    BY <1>1, <1>8 DEF Walk

\* The walk comes to at[n] after n records, and ends after the last one.
Visits(at, N, ends, L) ==
    /\ N \in Nat /\ at \in [0 .. N -> 0 .. L] /\ at[0] = 0
    /\ \A n \in 0 .. N - 1 : ends[at[n]] = at[n + 1] /\ at[n + 1] # at[n]
    /\ ends[at[N]] = at[N]

\* The records are where the one before ends (Decode of the stream decoders).
LEMMA StartsAre ==
    ASSUME NEW L, NEW ends, Onwards(ends, L), NEW N, NEW at, Visits(at, N, ends, L)
    PROVE  Starts(ends) = [n \in 1 .. N |-> at[n - 1]]
  <1> SUFFICES ASSUME N \in Nat, at \in [0 .. N -> 0 .. L], at[0] = 0,
                      \A n \in 0 .. N - 1 : ends[at[n]] = at[n + 1] /\ at[n + 1] # at[n],
                      ends[at[N]] = at[N]
               PROVE  Starts(ends) = [n \in 1 .. N |-> at[n - 1]]
    BY DEF Visits
  <1>1. L \in Nat /\ ends \in [0 .. L -> 0 .. L]
    BY DEF Onwards
  <1>2. PICK from : from = CHOOSE f : Walk(f, ends)
    OBVIOUS
  <1>3. Starts(ends) = from[0]
    BY <1>2 DEF Starts, Walk
  <1>4. Walk(from, ends)
    BY <1>2, WalksExist
  <1>5. \A i \in 0 .. L : from[i] = IF ends[i] = i THEN <<>> ELSE <<i>> \o from[ends[i]]
    BY <1>1, <1>4 DEF Walk
  <1>6. \A n \in 0 .. N : at[n] \in 0 .. L /\ at[n] \in Nat
    <2>1. PICK X : X = 0 .. L
      OBVIOUS
    <2>2. at \in [0 .. N -> X]
      BY <2>1
    <2>3. \A n \in 0 .. N : at[n] \in X
      BY <2>2
    <2> QED
      BY <2>1, <2>3
  <1>7. \A n \in 0 .. N : from[at[n]] = IF ends[at[n]] = at[n] THEN <<>>
                                          ELSE <<at[n]>> \o from[ends[at[n]]]
    BY <1>5, <1>6
  <1>8. PICK Q : Q = {k \in 0 .. N : from[at[N - k]] = [m \in 1 .. k |-> at[N - k + m - 1]]}
    OBVIOUS
  <1>9. 0 \in Q
    <2>1. from[at[N]] = <<>> /\ N - 0 = N
      <3>1. N \in 0 .. N /\ ends[at[N]] = at[N] /\ N - 0 = N
        OBVIOUS
      <3> QED
        BY <1>7, <3>1
    <2>2. [m \in 1 .. 0 |-> at[N - 0 + m - 1]] = <<>>
      OBVIOUS
    <2> QED
      BY <1>8, <2>1, <2>2
  <1>10. ASSUME NEW k \in 0 .. N - 1, k \in Q PROVE k + 1 \in Q
    <2>1. PICK n \in 0 .. N - 1 : n = N - (k + 1) /\ n + 1 = N - k
      OBVIOUS
    <2>2. PICK rest : rest = [m \in 1 .. k |-> at[n + m]] /\ rest = from[at[n + 1]]
      <3>1. from[at[n + 1]] = [m \in 1 .. k |-> at[N - k + m - 1]]
        BY <1>8, <1>10, <2>1
      <3>2. \A m \in 1 .. k : N - k + m - 1 = n + m
        BY <2>1
      <3> QED
        BY <3>1, <3>2
    <2>3. from[at[n]] = <<at[n]>> \o rest
      <3>1. n \in 0 .. N /\ ends[at[n]] = at[n + 1] /\ at[n + 1] # at[n]
        BY <2>1
      <3>2. from[at[n]] = <<at[n]>> \o from[at[n + 1]]
        BY <1>7, <3>1
      <3> QED
        BY <2>2, <3>2
    <2>4. PICK one, both : one = <<at[n]>> /\ both = [m \in 1 .. k + 1 |-> at[n + m - 1]]
      OBVIOUS
    <2>5. one \in Seq(Nat) /\ Len(one) = 1 /\ one[1] = at[n]
      BY <2>4
    <2>6. rest \in Seq(Nat) /\ Len(rest) = k
      <3>1. \A m \in 1 .. k : n + m \in 0 .. N
        BY <2>1
      <3>2. \A m \in 1 .. k : at[n + m] \in Nat
        BY <1>6, <3>1
      <3> QED
        BY <2>2, <3>2
    <2>7. both \in Seq(Nat) /\ Len(both) = k + 1
      <3>1. \A m \in 1 .. k + 1 : n + m - 1 \in 0 .. N
        BY <2>1
      <3>2. \A m \in 1 .. k + 1 : at[n + m - 1] \in Nat
        BY <1>6, <3>1
      <3> QED
        BY <2>4, <3>2
    <2>8. /\ one \o rest \in Seq(Nat) /\ Len(one \o rest) = Len(one) + Len(rest)
          /\ \A m \in 1 .. Len(one) + Len(rest) :
               (one \o rest)[m] = IF m <= Len(one) THEN one[m] ELSE rest[m - Len(one)]
      <3>1. PICK X, p, q : X = Nat /\ p = one /\ q = rest /\ p \in Seq(X) /\ q \in Seq(X)
        BY <2>5, <2>6
      <3>2. /\ p \o q \in Seq(X) /\ Len(p \o q) = Len(p) + Len(q)
            /\ \A m \in 1 .. Len(p) + Len(q) :
                 (p \o q)[m] = IF m <= Len(p) THEN p[m] ELSE q[m - Len(p)]
        BY <3>1, ConcatProperties
      <3> QED
        BY <3>1, <3>2
    <2>9. \A m \in 1 .. k + 1 : (one \o rest)[m] = both[m]
      <3>1. ASSUME NEW m \in 1 .. k + 1 PROVE (one \o rest)[m] = both[m]
        <4>1. CASE m = 1
          BY <2>4, <2>5, <2>6, <2>8, <4>1
        <4>2. CASE m # 1
          <5>1. m - 1 \in 1 .. k /\ ~(m <= 1)
            BY <4>2
          <5>2. (one \o rest)[m] = rest[m - 1]
            <6>1. Len(one) = 1 /\ Len(rest) = k /\ m \in 1 .. Len(one) + Len(rest)
              BY <2>5, <2>6
            <6>2. ~(m <= Len(one)) /\ m - Len(one) = m - 1
              BY <5>1, <6>1
            <6> QED
              BY <2>8, <6>1, <6>2
          <5>3. rest[m - 1] = at[n + (m - 1)] /\ n + (m - 1) = n + m - 1
            BY <2>2, <5>1
          <5> QED
            BY <2>4, <5>2, <5>3
        <4> QED
          BY <4>1, <4>2
      <3> QED
        BY <3>1
    <2>10. one \o rest = both
      <3>1. Len(one \o rest) = Len(both) /\ Len(both) = k + 1
        BY <2>5, <2>6, <2>7, <2>8
      <3> QED
        BY <2>7, <2>8, <2>9, <3>1, SeqEqual
    <2>11. k + 1 \in 0 .. N /\ \A m \in 1 .. k + 1 : N - (k + 1) + m - 1 = n + m - 1
      BY <2>1
    <2>12. from[at[N - (k + 1)]] = [m \in 1 .. k + 1 |-> at[N - (k + 1) + m - 1]]
      BY <2>1, <2>3, <2>4, <2>10, <2>11
    <2> QED
      BY <1>8, <2>11, <2>12
  <1>11. N \in Q
    <2>1. 0 .. N \subseteq Q
      BY <1>9, <1>10, UpTo
    <2> QED
      BY <2>1
  <1>12. from[at[0]] = [m \in 1 .. N |-> at[m - 1]]
    <2>1. from[at[N - N]] = [m \in 1 .. N |-> at[N - N + m - 1]]
      BY <1>8, <1>11
    <2>2. N - N = 0 /\ \A m \in 1 .. N : N - N + m - 1 = m - 1
      OBVIOUS
    <2> QED
      BY <2>1, <2>2
  <1> QED
    BY <1>3, <1>12

\* The ends of the records of a message are the sums of their sizes.
SumsOf(end, r) ==
    /\ end \in [0 .. Len(r) -> Nat] /\ end[0] = 0
    /\ \A n \in 1 .. Len(r) : end[n] = end[n - 1] + r[n].size

\* The ends of records (Ends of Uplinks) are the sums of their sizes.
LEMMA EndsAreSums ==
    ASSUME NEW X, NEW r \in Seq(X), \A n \in 1 .. Len(r) : r[n].size \in Nat
    PROVE  SumsOf(Ends(r), r)
  <1>1. PICK N \in Nat : N = Len(r)
    BY LenProperties
  <1> DEFINE Good(f, k) == f[0] = 0 /\ \A n \in 1 .. k : f[n] = f[n - 1] + r[n].size
             Eq(f) == f = [n \in 0 .. Len(r) |-> IF n = 0 THEN 0 ELSE f[n - 1] + r[n].size]
  <1>2. PICK Q : Q = {k \in 0 .. N : \E f \in [0 .. N -> Nat] : Good(f, k)}
    OBVIOUS
  <1>3. 0 \in Q
    <2>1. PICK f \in [0 .. N -> Nat] : f = [n \in 0 .. N |-> 0]
      OBVIOUS
    <2>2. Good(f, 0)
      BY <2>1
    <2> QED
      BY <1>2, <2>2
  <1>4. ASSUME NEW k \in 0 .. N - 1, k \in Q PROVE k + 1 \in Q
    <2>1. PICK f \in [0 .. N -> Nat] : Good(f, k)
      BY <1>2, <1>4
    <2>2. PICK v \in Nat : v = f[k] + r[k + 1].size
      <3>1. PICK p \in 1 .. Len(r) : p = k + 1
        <4>1. k + 1 \in 1 .. N
          OBVIOUS
        <4> QED
          BY <1>1, <4>1
      <3>2. r[p].size \in Nat
        OBVIOUS
      <3>3. PICK i \in 0 .. N : i = k
        OBVIOUS
      <3>4. f[i] \in Nat
        OBVIOUS
      <3>5. f[k] + r[k + 1].size = f[i] + r[p].size
        BY <3>1, <3>3
      <3>6. f[i] + r[p].size \in Nat
        BY <3>2, <3>4
      <3> QED
        BY <3>5, <3>6
    <2>3. PICK g \in [0 .. N -> Nat] : g = [n \in 0 .. N |-> IF n = k + 1 THEN v ELSE f[n]]
      OBVIOUS
    <2>4. g[0] = 0 /\ g[k + 1] = v /\ \A n \in 0 .. k : g[n] = f[n]
      BY <2>1, <2>3, SMTT(30)
    <2>5. ASSUME NEW n \in 1 .. k + 1 PROVE g[n] = g[n - 1] + r[n].size
      <3>1. CASE n = k + 1
        <4>1. n - 1 = k /\ g[k] = f[k]
          BY <2>4, <3>1
        <4> QED
          BY <2>2, <2>4, <3>1, <4>1
      <3>2. CASE n # k + 1
        <4>1. n \in 1 .. k /\ n - 1 \in 0 .. k /\ n \in 0 .. k
          BY <3>2
        <4> QED
          BY <2>1, <2>4, <4>1
      <3> QED
        BY <3>1, <3>2
    <2>6. k + 1 \in 0 .. N
      OBVIOUS
    <2> QED
      BY <1>2, <2>4, <2>5, <2>6
  <1>5. N \in Q
    <2>1. 0 .. N \subseteq Q
      BY <1>3, <1>4, UpTo
    <2> QED
      BY <2>1
  <1>6. PICK f \in [0 .. N -> Nat] : Good(f, N)
    BY <1>2, <1>5
  <1>7. Eq(f)
    <2>1. \A n \in 0 .. N : f[n] = IF n = 0 THEN 0 ELSE f[n - 1] + r[n].size
      BY <1>6
    <2>2. f = [n \in 0 .. N |-> IF n = 0 THEN 0 ELSE f[n - 1] + r[n].size]
      BY <2>1
    <2> QED
      BY <1>1, <2>2
  <1>8. PICK end : end = Ends(r) /\ Eq(end)
    BY <1>7 DEF Ends
  <1>9. end = [n \in 0 .. N |-> IF n = 0 THEN 0 ELSE end[n - 1] + r[n].size]
    BY <1>1, <1>8
  <1>10. end[0] = 0 /\ \A n \in 1 .. N : end[n] = end[n - 1] + r[n].size
    <2>1. 0 \in 0 .. N /\ \A n \in 1 .. N : n \in 0 .. N /\ n # 0
      OBVIOUS
    <2> QED
      BY <1>9, <2>1
  <1>11. PICK P : P = {n \in 0 .. N : end[n] \in Nat}
    OBVIOUS
  <1>12. 0 \in P
    BY <1>10, <1>11
  <1>13. ASSUME NEW k \in 0 .. N - 1, k \in P PROVE k + 1 \in P
    <2>1. k + 1 \in 1 .. N /\ k + 1 \in 0 .. N /\ (k + 1) - 1 = k
      OBVIOUS
    <2>2. end[k] \in Nat /\ r[k + 1].size \in Nat
      BY <1>1, <1>11, <1>13, <2>1
    <2>3. end[k + 1] = end[k] + r[k + 1].size
      BY <1>10, <2>1
    <2>4. end[k + 1] \in Nat
      <3>1. PICK x \in Nat, y \in Nat : x = end[k] /\ y = r[k + 1].size
        BY <2>2
      <3> QED
        BY <2>3, <3>1, SMTT(30)
    <2> QED
      BY <1>11, <2>1, <2>4
  <1>14. \A n \in 0 .. N : end[n] \in Nat
    <2>1. 0 .. N \subseteq P
      BY <1>12, <1>13, UpTo
    <2> QED
      BY <1>11, <2>1
  <1>15. end \in [0 .. N -> Nat]
    BY <1>9, <1>14
  <1> QED
    BY <1>1, <1>8, <1>10, <1>15 DEF SumsOf

\* Of the records of a message that was cut short so many came whole.
CameWhole(end, N, came, n) == n \in 0 .. N /\ end[n] <= came /\ (n < N => end[n + 1] > came)

\* Wherever a message is cut, some number of its records came whole.
LEMMA SomeCameWhole ==
    ASSUME NEW N \in Nat, NEW end \in [0 .. N -> Nat], end[0] = 0, NEW came \in Nat
    PROVE  \E n : CameWhole(end, N, came, n)
  <1> SUFFICES ASSUME \A n : ~CameWhole(end, N, came, n) PROVE FALSE
    OBVIOUS
  <1>1. PICK Q : Q = {n \in 0 .. N : end[n] <= came}
    OBVIOUS
  <1>2. 0 \in Q
    BY <1>1
  <1>3. ASSUME NEW n \in 0 .. N - 1, n \in Q PROVE n + 1 \in Q
    <2>1. n + 1 \in 0 .. N /\ n \in 0 .. N /\ n < N
      OBVIOUS
    <2>2. end[n] <= came /\ ~(end[n + 1] > came)
      BY <1>1, <1>3, <2>1 DEF CameWhole
    <2>3. end[n + 1] \in Nat
      BY <2>1
    <2> QED
      BY <1>1, <2>1, <2>2, <2>3
  <1>4. N \in Q
    <2>1. 0 .. N \subseteq Q
      BY <1>2, <1>3, UpTo
    <2> QED
      BY <2>1
  <1> QED
    BY <1>1, <1>4 DEF CameWhole


-----------------------------------------------------------------------------
\* Messages cut short: where the records end.

\* The models whose decoders walk records.
StreamModels == {"AM307", "CT101", "TBEAM", "RAK2270", "SENSECAP_T1000E"}

\* What the types of a record tell (the tables of the stream decoders).
LEMMA AM307Records ==
    \A t \in DOMAIN AM307Sizes :
      /\ AM307Sizes[t] \in Nat \ {0}
      /\ t[1] \in {\h01, \h03, \h04, \h05, \h06, \h07, \h08, \h09, \h20, \h21, \hfe, \hff}
      /\ t[1] \in {\h03, \h07, \h08, \h09} => AM307Sizes[t] = 2
  BY DEF AM307Sizes, Sizes

\* The same of CT101: its sizes count the channel and the type.
LEMMA CT101Records ==
    /\ \A t \in DOMAIN CT101Sizes :
         /\ CT101Sizes[t] \in Nat /\ CT101Sizes[t] >= 3
         /\ t \in {<<\hff, \h09>>, <<\hff, \h0a>>, <<\h04, \h98>>, <<\h09, \h67>>} => CT101Sizes[t] = 4
         /\ t = <<\h89, \h67>> => CT101Sizes[t] = 5
         /\ t = <<\h03, \h97>> => CT101Sizes[t] = 6
         /\ t = <<\h84, \h98>> => CT101Sizes[t] = 9
         /\ t = <<\hff, \h16>> => CT101Sizes[t] = 10
  BY DEF CT101Sizes, Sizes

\* The same of the T-Beam.
LEMMA TBeamRecords ==
    \A t \in DOMAIN TBeamSizes :
      TBeamSizes[t] \in Nat \ {0} /\ (t \in {\h67, \h73, \h65} => TBeamSizes[t] = 2)
  BY DEF TBeamSizes, Sizes

\* A frame of the T1000E has a size that its first bytes tell.
LEMMA T1000EFrames ==
    ASSUME NEW b \in Seq(Octets), NEW i \in Nat, i < Len(b)
    PROVE  frameSize(b, i) \in Nat
  <1>1. PICK n \in Nat : n = Len(b)
    BY LenProperties
  <1>2. ASSUME NEW off \in {13, 7}, n - i > off PROVE At(b, i + off) \in Nat
    <2>1. PICK j \in 1 .. Len(b), at \in Nat : at = i + off /\ j = at + 1
      BY <1>1, <1>2
    <2>2. b[j] \in Octets
      BY <2>1, ElementOfSeq
    <2>3. At(b, at) \in Octets
      BY <2>1, <2>2 DEF At
    <2>4. Octets \subseteq Nat
      BY DEF Octets
    <2> QED
      BY <2>1, <2>3, <2>4
  <1>3. ASSUME NEW base \in {21, 15}, NEW off \in {13, 7},
               NEW size, size = IF n - i > off /\ At(b, i + off) >= 1
                                THEN base + (At(b, i + off) - 1) * 7 ELSE 0
        PROVE  size \in Nat
    BY <1>2, <1>3, SMTT(30)
  <1> QED
    BY <1>1, <1>3 DEF frameSize

\* A decoder never goes back, nor past the end of the message.
LEMMA DecodersMoveOn ==
    ASSUME NEW b \in Seq(Octets), NEW model \in StreamModels, NEW i \in 0 .. Len(b),
           NEW e, e = RecordEnd(model, b, i)
    PROVE  e \in 0 .. Len(b) /\ e >= i
  <1>1. PICK n \in Nat : n = Len(b)
    BY LenProperties
  <1>2. CASE model = "AM307"
    <2>1. e = AM307End(b, i)
      BY <1>2 DEF RecordEnd
    <2> QED
      BY <1>1, <2>1, AM307Records DEF AM307End
  <1>3. CASE model = "CT101"
    <2>1. e = CT101End(b, i)
      BY <1>3 DEF RecordEnd
    <2> QED
      BY <1>1, <2>1, CT101Records DEF CT101End
  <1>4. CASE model = "TBEAM"
    <2>1. e = TBeamEnd(b, i)
      BY <1>4 DEF RecordEnd
    <2> QED
      BY <1>1, <2>1, TBeamRecords DEF TBeamEnd
  <1>5. CASE model = "RAK2270"
    <2>1. e = RAK2270End(b, i)
      BY <1>5 DEF RecordEnd
    <2> QED
      BY <1>1, <2>1 DEF RAK2270End
  <1>6. CASE model = "SENSECAP_T1000E"
    <2>1. e = T1000EEnd(b, i)
      BY <1>6 DEF RecordEnd
    <2> QED
      BY <1>1, <2>1, T1000EFrames DEF T1000EEnd
  <1> QED
    BY <1>2, <1>3, <1>4, <1>5, <1>6 DEF StreamModels

\* Where a record of the message came whole the decoder goes on after it; where it
\* was cut short the decoder stops before it.
LEMMA RecordsEndAlike ==
    ASSUME NEW b, NEW s, Beginning(b, s), NEW model \in StreamModels, NEW i \in 0 .. Len(b),
           model = "RAK2270" => At(s, i + 1) \in {\h67, \h02},
           NEW e, e = RecordEnd(model, s, i), e # i
    PROVE  RecordEnd(model, b, i) = IF e <= Len(b) THEN e ELSE i
  <1>1. PICK n \in Nat, m \in Nat : n = Len(b) /\ m = Len(s) /\ n <= m
    BY LenProperties DEF Beginning
  <1>2. i \in Nat /\ i <= n
    BY <1>1
  <1>3. i + 2 <= n => Cut(b, i, 2) = Cut(s, i, 2)
    <2>1. PICK k \in Nat : k = 2
      OBVIOUS
    <2> QED
      BY <1>1, <1>2, <2>1, BeginningCut
  <1>4. \A k \in 0 .. 13 : i + k < n => At(b, i + k) = At(s, i + k)
    <2>1. ASSUME NEW k \in 0 .. 13, i + k < n PROVE At(b, i + k) = At(s, i + k)
      <3>1. PICK j \in Nat : j = i + k /\ j < Len(b)
        BY <1>1, <1>2, <2>1
      <3> QED
        BY <3>1, BeginningAt
    <2> QED
      BY <2>1
  <1>5. CASE model = "AM307"
    <2>1. e = AM307End(s, i) /\ RecordEnd(model, b, i) = AM307End(b, i)
      BY <1>5 DEF RecordEnd
    <2>2. PICK t, k : t = Cut(s, i, 2) /\ t \in DOMAIN AM307Sizes /\ k = AM307Sizes[t]
                      /\ e = i + 2 + k /\ i + 2 <= m
      BY <1>1, <2>1 DEF AM307End
    <2>3. k \in Nat \ {0}
      BY <2>2, AM307Records
    <2>4. AM307End(b, i) = IF i + 2 <= n /\ Cut(b, i, 2) \in DOMAIN AM307Sizes
                              /\ i + 2 + AM307Sizes[Cut(b, i, 2)] <= n
                           THEN i + 2 + AM307Sizes[Cut(b, i, 2)] ELSE i
      BY <1>1 DEF AM307End
    <2>5. CASE i + 2 <= n
      BY <1>1, <1>2, <1>3, <2>1, <2>2, <2>3, <2>4, <2>5
    <2>6. CASE ~(i + 2 <= n)
      BY <1>1, <1>2, <2>1, <2>2, <2>3, <2>4, <2>6
    <2> QED
      BY <2>5, <2>6
  <1>6. CASE model = "CT101"
    <2>1. e = CT101End(s, i) /\ RecordEnd(model, b, i) = CT101End(b, i)
      BY <1>6 DEF RecordEnd
    <2>2. PICK t, k : t = Cut(s, i, 2) /\ t \in DOMAIN CT101Sizes /\ k = CT101Sizes[t]
                      /\ e = i + k /\ i + 2 <= m
      BY <1>1, <2>1 DEF CT101End
    <2>3. k \in Nat /\ k >= 3
      BY <2>2, CT101Records
    <2>4. CT101End(b, i) = IF i + 2 <= n /\ Cut(b, i, 2) \in DOMAIN CT101Sizes
                              /\ i + CT101Sizes[Cut(b, i, 2)] <= n
                           THEN i + CT101Sizes[Cut(b, i, 2)] ELSE i
      BY <1>1 DEF CT101End
    <2>5. CASE i + 2 <= n
      BY <1>1, <1>2, <1>3, <2>1, <2>2, <2>3, <2>4, <2>5
    <2>6. CASE ~(i + 2 <= n)
      BY <1>1, <1>2, <2>1, <2>2, <2>3, <2>4, <2>6
    <2> QED
      BY <2>5, <2>6
  <1>7. CASE model = "TBEAM"
    <2>1. e = TBeamEnd(s, i) /\ RecordEnd(model, b, i) = TBeamEnd(b, i)
      BY <1>7 DEF RecordEnd
    <2>2. PICK t, k : t = At(s, i + 1) /\ t \in DOMAIN TBeamSizes /\ k = TBeamSizes[t]
                      /\ e = i + 2 + k /\ i + 2 <= m
      BY <1>1, <2>1 DEF TBeamEnd
    <2>3. k \in Nat \ {0}
      BY <2>2, TBeamRecords
    <2>4. TBeamEnd(b, i) = IF i + 2 <= n /\ At(b, i + 1) \in DOMAIN TBeamSizes
                              /\ i + 2 + TBeamSizes[At(b, i + 1)] <= n
                           THEN i + 2 + TBeamSizes[At(b, i + 1)] ELSE i
      BY <1>1 DEF TBeamEnd
    <2>5. CASE i + 2 <= n
      <3>1. At(b, i + 1) = t
        BY <1>2, <1>4, <2>2, <2>5
      <3> QED
        BY <1>1, <1>2, <2>1, <2>2, <2>3, <2>4, <2>5, <3>1
    <2>6. CASE ~(i + 2 <= n)
      BY <1>1, <1>2, <2>1, <2>2, <2>3, <2>4, <2>6
    <2> QED
      BY <2>5, <2>6
  <1>8. CASE model = "RAK2270"
    <2>1. e = RAK2270End(s, i) /\ RecordEnd(model, b, i) = RAK2270End(b, i)
      BY <1>8 DEF RecordEnd
    <2>2. e = i + 4 /\ At(s, i + 1) \in {\h67, \h02}
      BY <1>1, <1>2, <1>8, <2>1 DEF RAK2270End
    <2>3. CASE i + 3 >= n
      BY <1>1, <1>2, <2>1, <2>2, <2>3 DEF RAK2270End
    <2>4. CASE ~(i + 3 >= n)
      <3>1. At(b, i + 1) = At(s, i + 1)
        BY <1>1, <1>2, <1>4, <2>4
      <3> QED
        BY <1>1, <1>2, <2>1, <2>2, <2>4, <3>1 DEF RAK2270End
    <2> QED
      BY <2>3, <2>4
  <1>9. CASE model = "SENSECAP_T1000E"
    <2>1. e = T1000EEnd(s, i) /\ RecordEnd(model, b, i) = T1000EEnd(b, i)
      BY <1>9 DEF RecordEnd
    <2>2. PICK k : k = frameSize(s, i) /\ e = i + k /\ i < m /\ i + k <= m
      BY <1>1, <2>1 DEF T1000EEnd
    <2>3. k \in Nat \ {0}
      <3>1. k \in Nat
        BY <1>1, <1>2, <2>2, T1000EFrames DEF Beginning
      <3> QED
        BY <1>2, <2>2, <3>1
    <2>4. T1000EEnd(b, i) = IF i < n /\ i + frameSize(b, i) <= n THEN i + frameSize(b, i) ELSE i
      BY <1>1 DEF T1000EEnd
    <2>5. CASE i < n
      <3>1. frameSize(b, i) = k \/ (frameSize(b, i) = 0 /\ i + k > n)
        <4>1. PICK type : type = At(s, i) /\ type = At(b, i)
          <5>1. i + 0 = i
            BY <1>2
          <5> QED
            BY <1>2, <1>4, <2>5, <5>1
        <4>2. ASSUME NEW base \in {21, 15}, NEW off \in {13, 7}, base >= off + 1,
                     NEW x, x = (IF n - i > off /\ At(b, i + off) >= 1
                                 THEN base + (At(b, i + off) - 1) * 7 ELSE 0),
                     NEW y, y = (IF m - i > off /\ At(s, i + off) >= 1
                                 THEN base + (At(s, i + off) - 1) * 7 ELSE 0),
                     y \in Nat \ {0}
              PROVE  x = y \/ (x = 0 /\ i + y > n)
          <5>1. CASE n - i > off
            <6>1. At(b, i + off) = At(s, i + off) /\ m - i > off
              <7>1. i + off < n
                BY <1>1, <1>2, <5>1
              <7>2. PICK k1 \in 0 .. 13 : k1 = off
                OBVIOUS
              <7>3. At(b, i + k1) = At(s, i + k1)
                BY <1>4, <7>1, <7>2
              <7>4. m - i > off
                BY <1>1, <1>2, <5>1
              <7> QED
                BY <7>2, <7>3, <7>4
            <6> QED
              BY <4>2, <5>1, <6>1
          <5>2. CASE ~(n - i > off)
            <6>1. x = 0 /\ m - i > off /\ At(s, i + off) >= 1
              BY <4>2, <5>2
            <6>2. At(s, i + off) \in Nat
              <7>1. PICK j \in 1 .. Len(s), at \in Nat : at = i + off /\ j = at + 1
                BY <1>1, <1>2, <6>1
              <7>2. s[j] \in Octets
                BY <7>1, ElementOfSeq DEF Beginning
              <7>3. At(s, at) \in Octets
                BY <7>1, <7>2 DEF At
              <7>4. Octets \subseteq Nat
                BY DEF Octets
              <7> QED
                BY <7>1, <7>3, <7>4
            <6>3. y >= base
              BY <4>2, <6>1, <6>2
            <6> QED
              BY <1>1, <1>2, <4>2, <5>2, <6>1, <6>3
          <5> QED
            BY <5>1, <5>2
        <4> QED
          BY <1>1, <2>2, <2>3, <4>1, <4>2 DEF frameSize
      <3>2. CASE frameSize(b, i) = k
        BY <1>1, <1>2, <2>1, <2>2, <2>3, <2>4, <2>5, <3>2
      <3>3. CASE frameSize(b, i) = 0 /\ i + k > n
        BY <1>1, <1>2, <2>1, <2>2, <2>3, <2>4, <2>5, <3>3
      <3> QED
        BY <3>1, <3>2, <3>3
    <2>6. CASE ~(i < n)
      BY <1>1, <1>2, <2>1, <2>2, <2>3, <2>4, <2>6
    <2> QED
      BY <2>5, <2>6
  <1> QED
    BY <1>5, <1>6, <1>7, <1>8, <1>9 DEF StreamModels


-----------------------------------------------------------------------------
\* Messages cut short: what the records tell.

\* What a model's definitions do not name makes no difference to its states.
LEMMA OnlyNamedTell ==
    ASSUME NEW model, NEW K, K = ToSet(Registry[model].keys), NEW x, NEW y,
           K \cap DOMAIN x = K \cap DOMAIN y, \A key \in K \cap DOMAIN x : x[key] = y[key]
    PROVE  StatesOf(model, x) = StatesOf(model, y)
  BY DEF StatesOf

\* The integers in what came of a message are those of the message.
LEMMA ReadersAgree ==
    ASSUME NEW b, NEW s, Beginning(b, s), NEW j \in Nat
    PROVE  /\ j < Len(b) => At(b, j) = At(s, j)
           /\ j + 1 < Len(b) => /\ U16LE(b, j) = U16LE(s, j) /\ I16LE(b, j) = I16LE(s, j)
                                /\ U16BE(b, j) = U16BE(s, j) /\ I16BE(b, j) = I16BE(s, j)
           /\ j + 3 < Len(b) => U32LE(b, j) = U32LE(s, j)
  <1>1. PICK n \in Nat : n = Len(b)
    BY LenProperties DEF Beginning
  <1>2. \A k \in Nat : k < n => At(b, k) = At(s, k)
    BY <1>1, BeginningAt
  <1>3. \A k \in Nat : k + 1 < n => At(b, k) = At(s, k) /\ At(b, k + 1) = At(s, k + 1)
    BY <1>2
  <1>4. \A k \in Nat : k + 1 < n => U16LE(b, k) = U16LE(s, k) /\ U16BE(b, k) = U16BE(s, k)
    BY <1>3 DEF U16LE, U16BE
  <1>5. j + 1 < n => /\ U16LE(b, j) = U16LE(s, j) /\ I16LE(b, j) = I16LE(s, j)
                     /\ U16BE(b, j) = U16BE(s, j) /\ I16BE(b, j) = I16BE(s, j)
    BY <1>4 DEF I16LE, I16BE
  <1>6. j + 3 < n => U32LE(b, j) = U32LE(s, j)
    <2> SUFFICES ASSUME j + 3 < n PROVE U32LE(b, j) = U32LE(s, j)
      OBVIOUS
    <2>1. PICK k \in Nat : k = j + 2 /\ k + 1 < n /\ j + 1 < n
      OBVIOUS
    <2>2. U16LE(b, j) = U16LE(s, j) /\ U16LE(b, k) = U16LE(s, k)
      BY <1>4, <2>1
    <2> QED
      BY <2>1, <2>2 DEF U32LE
  <1> QED
    BY <1>1, <1>2, <1>5, <1>6

\* Readings that are not defined for the T1000E hide none that are (decodeFrame).
LEMMA SensorsTell ==
    ASSUME NEW first, NEW sensors, NEW axes, NEW scan, DOMAIN first = {"packet_id"},
           DOMAIN axes \subseteq {"accelerometer_x", "accelerometer_y", "accelerometer_z"},
           DOMAIN scan \subseteq {"wifi_scan", "ble_scan"}
    PROVE  StatesOf("SENSECAP_T1000E", Over(first, Over(sensors, Over(axes, scan))))
             = StatesOf("SENSECAP_T1000E", sensors)
  <1>1. PICK K : K = ToSet(Registry["SENSECAP_T1000E"].keys)
    OBVIOUS
  <1>2. K = {"battery_level", "temperature", "light", "motion"}
    BY <1>1 DEF ToSet, Registry, T1000E, Profile
  <1>3. PICK all : all = Over(first, Over(sensors, Over(axes, scan)))
    OBVIOUS
  <1>4. DOMAIN all = DOMAIN first \cup DOMAIN sensors \cup DOMAIN axes \cup DOMAIN scan
    BY <1>3 DEF Over
  <1>5. \A key \in DOMAIN all : key \notin DOMAIN first /\ key \in DOMAIN sensors => all[key] = sensors[key]
    BY <1>3 DEF Over
  <1>6. K \cap DOMAIN all = K \cap DOMAIN sensors
    BY <1>2, <1>4
  <1>7. \A key \in K \cap DOMAIN all : all[key] = sensors[key]
    BY <1>2, <1>5, <1>6
  <1> QED
    BY <1>1, <1>3, <1>6, <1>7, OnlyNamedTell

\* CT101 reads two records of one type alike if the bytes that it reads are alike.
LEMMA CT101Arms ==
    ASSUME NEW b, NEW s, NEW i, NEW t, Cut(b, i, 2) = t, Cut(s, i, 2) = t,
           t = <<\hff, \h01>> => At(b, i + 2) = At(s, i + 2),
           t = <<\hff, \h09>> => At(b, i + 2) = At(s, i + 2) /\ At(b, i + 3) = At(s, i + 3),
           t = <<\hff, \h0a>> => Cut(b, i + 2, 2) = Cut(s, i + 2, 2),
           t = <<\hff, \h16>> => Cut(b, i + 2, 8) = Cut(s, i + 2, 8),
           t = <<\h03, \h97>> => U32LE(b, i + 2) = U32LE(s, i + 2),
           t = <<\h04, \h98>> => U16LE(b, i + 2) = U16LE(s, i + 2),
           t = <<\h09, \h67>> => U16LE(b, i + 2) = U16LE(s, i + 2) /\ I16LE(b, i + 2) = I16LE(s, i + 2),
           t = <<\h84, \h98>> => /\ U16LE(b, i + 2) = U16LE(s, i + 2) /\ U16LE(b, i + 4) = U16LE(s, i + 4)
                                /\ U16LE(b, i + 6) = U16LE(s, i + 6) /\ At(b, i + 8) = At(s, i + 8),
           t = <<\h89, \h67>> => I16LE(b, i + 2) = I16LE(s, i + 2) /\ At(b, i + 4) = At(s, i + 4),
           t \in {<<\hff, \h01>>, <<\hff, \h09>>, <<\hff, \h0a>>, <<\hff, \h16>>, <<\h03, \h97>>,
                 <<\h04, \h98>>, <<\h09, \h67>>, <<\h84, \h98>>, <<\h89, \h67>>}
    PROVE  CT101Read(b, i) = CT101Read(s, i)
  <1>1. CASE t = <<\hff, \h01>>
    <2>1. At(b, i + 2) = At(s, i + 2)
      BY <1>1
    <2> QED
      BY <1>1, <2>1 DEF CT101Read
  <1>2. CASE t = <<\hff, \h09>>
    <2>1. At(b, i + 2) = At(s, i + 2) /\ At(b, i + 3) = At(s, i + 3)
      BY <1>2
    <2> QED
      BY <1>2, <2>1 DEF CT101Read
  <1>3. CASE t = <<\hff, \h0a>>
    <2>1. Cut(b, i + 2, 2) = Cut(s, i + 2, 2)
      BY <1>3
    <2> QED
      BY <1>3, <2>1 DEF CT101Read
  <1>4. CASE t = <<\hff, \h16>>
    <2>1. Cut(b, i + 2, 8) = Cut(s, i + 2, 8)
      BY <1>4
    <2> QED
      BY <1>4, <2>1 DEF CT101Read
  <1>5. CASE t = <<\h03, \h97>>
    <2>1. U32LE(b, i + 2) = U32LE(s, i + 2)
      BY <1>5
    <2> QED
      BY <1>5, <2>1 DEF CT101Read
  <1>6. CASE t = <<\h04, \h98>>
    <2>1. U16LE(b, i + 2) = U16LE(s, i + 2)
      BY <1>6
    <2> QED
      BY <1>6, <2>1 DEF CT101Read
  <1>7. CASE t = <<\h09, \h67>>
    <2>1. U16LE(b, i + 2) = U16LE(s, i + 2) /\ I16LE(b, i + 2) = I16LE(s, i + 2)
      BY <1>7
    <2> QED
      BY <1>7, <2>1 DEF CT101Read
  <1>8. CASE t = <<\h84, \h98>>
    <2>1. /\ U16LE(b, i + 2) = U16LE(s, i + 2) /\ U16LE(b, i + 4) = U16LE(s, i + 4)
          /\ U16LE(b, i + 6) = U16LE(s, i + 6) /\ At(b, i + 8) = At(s, i + 8)
      BY <1>8
    <2> QED
      BY <1>8, <2>1 DEF CT101Read
  <1>9. CASE t = <<\h89, \h67>>
    <2>1. I16LE(b, i + 2) = I16LE(s, i + 2) /\ At(b, i + 4) = At(s, i + 4)
      BY <1>9
    <2> QED
      BY <1>9, <2>1 DEF CT101Read
  <1> QED
    BY <1>1, <1>2, <1>3, <1>4, <1>5, <1>6, <1>7, <1>8, <1>9

\* A frame of the T1000E holds at least its type and what comes before its readings.
LEMMA FramesAreLong ==
    ASSUME NEW b \in Seq(Octets), NEW i \in Nat, i < Len(b), NEW k \in Nat \ {0}, k = frameSize(b, i)
    PROVE  k >= 7 /\ (At(b, i) = \h1e => k = 13)
  <1>1. PICK n \in Nat : n = Len(b)
    BY LenProperties
  <1>2. ASSUME NEW base \in {21, 15}, NEW off \in {13, 7},
               NEW y, y = (IF n - i > off /\ At(b, i + off) >= 1
                           THEN base + (At(b, i + off) - 1) * 7 ELSE 0)
        PROVE  y = 0 \/ y >= 7
    <2>1. CASE n - i > off /\ At(b, i + off) >= 1
      <3>1. PICK j \in 1 .. Len(b), at \in Nat : at = i + off /\ j = at + 1
        BY <1>1, <1>2, <2>1
      <3>2. b[j] \in Octets
        BY <3>1, ElementOfSeq
      <3>3. At(b, at) \in Octets
        BY <3>1, <3>2 DEF At
      <3>4. PICK c \in Nat : c = At(b, i + off)
        BY <3>1, <3>3 DEF Octets
      <3> QED
        BY <1>2, <2>1, <3>4, SMTT(30)
    <2> QED
      BY <1>2, <2>1
  <1>3. \A base \in {21, 15}, off \in {13, 7} :
          (IF n - i > off /\ At(b, i + off) >= 1 THEN base + (At(b, i + off) - 1) * 7 ELSE 0) \notin 1 .. 6
    BY <1>2, SMTT(30)
  <1>4. k \notin 1 .. 6
    BY <1>1, <1>3 DEF frameSize
  <1>5. At(b, i) = \h1e => k = 13
    BY DEF frameSize
  <1> QED
    BY <1>4, <1>5

\* A record that came whole tells what it told in the message.
LEMMA RecordsReadAlike ==
    ASSUME NEW b, NEW s, Beginning(b, s), NEW model \in StreamModels, NEW i \in 0 .. Len(b),
           model = "RAK2270" => At(s, i + 1) \in {\h67, \h02},
           NEW e, e = RecordEnd(model, s, i), e # i, e <= Len(b)
    PROVE  StatesOf(model, RecordRead(model, b, i)) = StatesOf(model, RecordRead(model, s, i))
  <1>1. PICK n \in Nat, m \in Nat : n = Len(b) /\ m = Len(s) /\ n <= m
    BY LenProperties DEF Beginning
  <1>2. i \in Nat /\ i <= n /\ e <= n
    BY <1>1
  <1>3. /\ \A k \in Nat : i + k < n => At(b, i + k) = At(s, i + k)
        /\ \A k \in Nat : i + k + 1 < n =>
             /\ U16LE(b, i + k) = U16LE(s, i + k) /\ I16LE(b, i + k) = I16LE(s, i + k)
             /\ U16BE(b, i + k) = U16BE(s, i + k) /\ I16BE(b, i + k) = I16BE(s, i + k)
        /\ \A k \in Nat : i + k + 3 < n => U32LE(b, i + k) = U32LE(s, i + k)
    <2> SUFFICES ASSUME NEW k \in Nat
                 PROVE  /\ i + k < n => At(b, i + k) = At(s, i + k)
                        /\ i + k + 1 < n =>
                             /\ U16LE(b, i + k) = U16LE(s, i + k) /\ I16LE(b, i + k) = I16LE(s, i + k)
                             /\ U16BE(b, i + k) = U16BE(s, i + k) /\ I16BE(b, i + k) = I16BE(s, i + k)
                        /\ i + k + 3 < n => U32LE(b, i + k) = U32LE(s, i + k)
      OBVIOUS
    <2>1. PICK j \in Nat : j = i + k
      BY <1>2
    <2> QED
      BY <1>1, <2>1, ReadersAgree
  <1>4. \A k \in Nat, z \in Nat : i + k + z <= n => Cut(b, i + k, z) = Cut(s, i + k, z)
    <2> SUFFICES ASSUME NEW k \in Nat, NEW z \in Nat, i + k + z <= n
                 PROVE  Cut(b, i + k, z) = Cut(s, i + k, z)
      OBVIOUS
    <2>1. PICK j \in Nat : j = i + k
      BY <1>2
    <2> QED
      BY <1>1, <2>1, BeginningCut
  <1>5. i < n => At(b, i) = At(s, i)
    <2>1. i + 0 = i /\ 0 \in Nat
      BY <1>2
    <2> QED
      BY <1>3, <2>1
  <1>6. i + 2 <= n => Cut(b, i, 2) = Cut(s, i, 2)
    <2>1. i + 0 = i /\ 0 \in Nat /\ 2 \in Nat
      BY <1>2
    <2>2. \A z \in Nat : i + z <= n => Cut(b, i, z) = Cut(s, i, z)
      BY <1>4, <2>1
    <2> QED
      BY <2>1, <2>2
  <1>7. CASE model = "AM307"
    <2>1. PICK t, k : t = Cut(s, i, 2) /\ t \in DOMAIN AM307Sizes /\ k = AM307Sizes[t]
                      /\ e = i + 2 + k /\ i + 2 <= m
      BY <1>1, <1>7 DEF AM307End, RecordEnd
    <2>2. k \in Nat \ {0} /\ (t[1] \in {\h03, \h07, \h08, \h09} => k = 2)
      BY <2>1, AM307Records
    <2>3. t[1] = At(s, i)
      <3>1. s \in Seq(Octets) /\ i + 2 <= Len(s)
        BY <1>1, <2>1 DEF Beginning
      <3>2. t = <<At(s, i), At(s, i + 1)>>
        BY <1>2, <2>1, <3>1, CutTwo
      <3> QED
        BY <3>2
    <2>4. At(b, i) = At(s, i) /\ At(b, i + 1) = At(s, i + 1) /\ At(b, i + 2) = At(s, i + 2)
      <3>1. i < n /\ i + 1 < n /\ i + 2 < n
        BY <1>2, <2>1, <2>2
      <3>2. 1 \in Nat /\ 2 \in Nat
        OBVIOUS
      <3> QED
        BY <1>3, <1>5, <3>1, <3>2
    <2>5. At(s, i) \in {\h03, \h07, \h08, \h09} =>
            U16LE(b, i + 2) = U16LE(s, i + 2) /\ I16LE(b, i + 2) = I16LE(s, i + 2)
      BY <1>2, <1>3, <2>1, <2>2, <2>3
    <2>6. AM307Read(b, i) = AM307Read(s, i)
      BY <2>4, <2>5 DEF AM307Read
    <2> QED
      BY <1>7, <2>6 DEF RecordRead
  <1>8. CASE model = "CT101"
    <2>1. PICK t, k : t = Cut(s, i, 2) /\ t \in DOMAIN CT101Sizes /\ k = CT101Sizes[t]
                      /\ e = i + k /\ i + 2 <= m
      BY <1>1, <1>8 DEF CT101End, RecordEnd
    <2>2. /\ k \in Nat /\ k >= 3
          /\ t \in {<<\hff, \h09>>, <<\hff, \h0a>>, <<\h04, \h98>>, <<\h09, \h67>>} => k = 4
          /\ t = <<\h89, \h67>> => k = 5
          /\ t = <<\h03, \h97>> => k = 6
          /\ t = <<\h84, \h98>> => k = 9
          /\ t = <<\hff, \h16>> => k = 10
      BY <2>1, CT101Records
    <2>3. Cut(b, i, 2) = t /\ At(b, i + 2) = At(s, i + 2)
      <3>1. i + 2 <= n /\ i + 2 < n
        BY <1>2, <2>1, <2>2
      <3>2. 2 \in Nat
        OBVIOUS
      <3>3. At(b, i + 2) = At(s, i + 2)
        BY <1>3, <3>1, <3>2
      <3> QED
        BY <1>6, <2>1, <3>1, <3>3
    <2>4. k >= 4 => /\ At(b, i + 3) = At(s, i + 3) /\ Cut(b, i + 2, 2) = Cut(s, i + 2, 2)
                    /\ U16LE(b, i + 2) = U16LE(s, i + 2) /\ I16LE(b, i + 2) = I16LE(s, i + 2)
      BY <1>2, <1>3, <1>4, <2>1, <2>2
    <2>5. k >= 5 => At(b, i + 4) = At(s, i + 4)
      BY <1>2, <1>3, <2>1, <2>2
    <2>6. k >= 6 => U32LE(b, i + 2) = U32LE(s, i + 2)
      BY <1>2, <1>3, <2>1, <2>2
    <2>7. k >= 9 => /\ U16LE(b, i + 4) = U16LE(s, i + 4) /\ U16LE(b, i + 6) = U16LE(s, i + 6)
                    /\ At(b, i + 8) = At(s, i + 8)
      BY <1>2, <1>3, <2>1, <2>2, SMTT(30)
    <2>8. k >= 10 => Cut(b, i + 2, 8) = Cut(s, i + 2, 8)
      <3>1. k >= 10 => i + 2 + 8 <= n
        BY <1>2, <2>1, <2>2
      <3>2. 2 \in Nat /\ 8 \in Nat
        OBVIOUS
      <3> QED
        BY <1>4, <3>1, <3>2
    <2>9. CT101Read(b, i) = CT101Read(s, i)
      <3>1. t \in {<<\hff, \h01>>, <<\hff, \h09>>, <<\hff, \h0a>>, <<\hff, \h16>>, <<\h03, \h97>>,
                   <<\h04, \h98>>, <<\h09, \h67>>, <<\h84, \h98>>, <<\h89, \h67>>}
        BY <2>1 DEF CT101Sizes, Sizes
      <3>2. Cut(b, i, 2) = t /\ Cut(s, i, 2) = t
        BY <2>1, <2>3
      <3>3. /\ t = <<\hff, \h01>> => At(b, i + 2) = At(s, i + 2)
            /\ t = <<\hff, \h09>> => At(b, i + 2) = At(s, i + 2) /\ At(b, i + 3) = At(s, i + 3)
            /\ t = <<\hff, \h0a>> => Cut(b, i + 2, 2) = Cut(s, i + 2, 2)
            /\ t = <<\hff, \h16>> => Cut(b, i + 2, 8) = Cut(s, i + 2, 8)
            /\ t = <<\h03, \h97>> => U32LE(b, i + 2) = U32LE(s, i + 2)
        BY <2>2, <2>3, <2>4, <2>6, <2>8
      <3>4. /\ t = <<\h04, \h98>> => U16LE(b, i + 2) = U16LE(s, i + 2)
            /\ t = <<\h09, \h67>> => U16LE(b, i + 2) = U16LE(s, i + 2) /\ I16LE(b, i + 2) = I16LE(s, i + 2)
            /\ t = <<\h84, \h98>> => /\ U16LE(b, i + 2) = U16LE(s, i + 2) /\ U16LE(b, i + 4) = U16LE(s, i + 4)
                                     /\ U16LE(b, i + 6) = U16LE(s, i + 6) /\ At(b, i + 8) = At(s, i + 8)
            /\ t = <<\h89, \h67>> => I16LE(b, i + 2) = I16LE(s, i + 2) /\ At(b, i + 4) = At(s, i + 4)
        BY <2>2, <2>4, <2>5, <2>7
      <3> QED
        BY <3>1, <3>2, <3>3, <3>4, CT101Arms, SMTT(30)
    <2> QED
      BY <1>8, <2>9 DEF RecordRead
  <1>9. CASE model = "TBEAM"
    <2>1. PICK t, k : t = At(s, i + 1) /\ t \in DOMAIN TBeamSizes /\ k = TBeamSizes[t]
                      /\ e = i + 2 + k
      BY <1>1, <1>9 DEF TBeamEnd, RecordEnd
    <2>2. k \in Nat \ {0} /\ (t \in {\h67, \h73, \h65} => k = 2)
      BY <2>1, TBeamRecords
    <2>3. At(b, i + 1) = At(s, i + 1) /\ At(b, i + 2) = At(s, i + 2)
      BY <1>2, <1>3, <2>1, <2>2
    <2>4. t \in {\h67, \h73, \h65} =>
            U16BE(b, i + 2) = U16BE(s, i + 2) /\ I16BE(b, i + 2) = I16BE(s, i + 2)
      BY <1>2, <1>3, <2>1, <2>2
    <2>5. TBeamRead(b, i) = TBeamRead(s, i)
      BY <2>1, <2>3, <2>4 DEF TBeamRead
    <2> QED
      BY <1>9, <2>5 DEF RecordRead
  <1>10. CASE model = "RAK2270"
    <2>1. e = i + 4
      BY <1>1, <1>2, <1>10 DEF RAK2270End, RecordEnd
    <2>2. /\ At(b, i + 1) = At(s, i + 1)
          /\ U16BE(b, i + 2) = U16BE(s, i + 2) /\ I16BE(b, i + 2) = I16BE(s, i + 2)
      BY <1>2, <1>3, <2>1
    <2>3. RAK2270Read(b, i) = RAK2270Read(s, i)
      BY <2>2 DEF RAK2270Read
    <2> QED
      BY <1>10, <2>3 DEF RecordRead
  <1>11. CASE model = "SENSECAP_T1000E"
    <2>1. PICK k : k = frameSize(s, i) /\ e = i + k /\ i < m
      BY <1>1, <1>11 DEF T1000EEnd, RecordEnd
    <2>2. k \in Nat \ {0} /\ k >= 7 /\ (At(s, i) = \h1e => k = 13)
      <3>1. k \in Nat \ {0}
        <4>1. k \in Nat
          BY <1>1, <1>2, <2>1, T1000EFrames DEF Beginning
        <4> QED
          BY <1>2, <2>1, <4>1
      <3> QED
        BY <1>1, <1>2, <2>1, <3>1, FramesAreLong DEF Beginning
    <2> DEFINE Sensors(c) == IF At(c, i) = \h1e THEN decodeStatus(c, i + 1)
                             ELSE decodeHeaderWithSensor(c, i + 1)
    <2>3. ASSUME NEW c
          PROVE  StatesOf(model, RecordRead(model, c, i)) = StatesOf(model, Sensors(c))
      <3>1. PICK first : first = [packet_id |-> At(c, i)] /\ DOMAIN first = {"packet_id"}
        <4>1. DOMAIN [packet_id |-> At(c, i)] = {"packet_id"}
          OBVIOUS
        <4> QED
          BY <4>1
      <3>2. PICK axes : axes = IF At(c, i) \in {\h1f, \h20, \h21, \h25} THEN ThreeAxes(c, i + 1)
                               ELSE NoReadings
        OBVIOUS
      <3>3. DOMAIN axes \subseteq {"accelerometer_x", "accelerometer_y", "accelerometer_z"}
        BY <3>2 DEF ThreeAxes, NoReadings
      <3>4. PICK scan : scan = CASE At(c, i) = \h20 -> parseScan(c, i + 1 + 12, "wifi_scan")
                                 [] At(c, i) = \h21 -> parseScan(c, i + 1 + 12, "ble_scan")
                                 [] At(c, i) = \h23 -> parseScan(c, i + 1 + 6, "wifi_scan")
                                 [] At(c, i) = \h24 -> parseScan(c, i + 1 + 6, "ble_scan")
                                 [] OTHER -> NoReadings
        OBVIOUS
      <3>5. DOMAIN scan \subseteq {"wifi_scan", "ble_scan"}
        <4>1. ASSUME NEW off, NEW key PROVE DOMAIN parseScan(c, off, key) \subseteq {key}
          BY DEF parseScan, NoReadings
        <4>2. DOMAIN NoReadings = {}
          BY DEF NoReadings
        <4> QED
          BY <3>4, <4>1, <4>2
      <3>6. PICK sensors : sensors = Sensors(c)
        OBVIOUS
      <3>7. RecordRead(model, c, i) = Over(first, Over(sensors, Over(axes, scan)))
        BY <1>11, <3>1, <3>2, <3>4, <3>6 DEF RecordRead, decodeFrame
      <3> QED
        BY <1>11, <3>1, <3>3, <3>5, <3>6, <3>7, SensorsTell
    <2>4. Sensors(b) = Sensors(s)
      <3>1. At(b, i) = At(s, i)
        BY <1>2, <1>5, <2>1, <2>2
      <3>2. PICK d \in Nat : d = i + 1
        BY <1>2
      <3>3. /\ \A j \in Nat : d + j < n => At(b, d + j) = At(s, d + j)
            /\ \A j \in Nat : d + j + 1 < n =>
                 U16BE(b, d + j) = U16BE(s, d + j) /\ I16BE(b, d + j) = I16BE(s, d + j)
            /\ \A j \in Nat : d + j + 2 <= n => Cut(b, d + j, 2) = Cut(s, d + j, 2)
        <4> SUFFICES ASSUME NEW j \in Nat
                     PROVE  /\ d + j < n => At(b, d + j) = At(s, d + j)
                            /\ d + j + 1 < n =>
                                 U16BE(b, d + j) = U16BE(s, d + j) /\ I16BE(b, d + j) = I16BE(s, d + j)
                            /\ d + j + 2 <= n => Cut(b, d + j, 2) = Cut(s, d + j, 2)
          OBVIOUS
        <4>1. PICK g \in Nat : g = d + j
          OBVIOUS
        <4> QED
          BY <1>1, <4>1, ReadersAgree, BeginningCut
      <3>4. d < n => At(b, d) = At(s, d)
        BY <1>1, ReadersAgree
      <3>5. CASE At(s, i) = \h1e
        <4>1. d + 12 <= n
          BY <1>2, <2>1, <2>2, <3>2, <3>5
        <4>2. decodeStatus(b, d) = decodeStatus(s, d)
          <5>1. \A j \in {1, 5, 8, 9, 10, 11} : At(b, d + j) = At(s, d + j)
            BY <3>3, <4>1
          <5>2. U16BE(b, d + 6) = U16BE(s, d + 6)
            BY <3>3, <4>1
          <5>3. \A j \in {1, 3} : Cut(b, d + j, 2) = Cut(s, d + j, 2)
            BY <3>3, <4>1
          <5>4. At(b, d) = At(s, d)
            BY <3>4, <4>1
          <5> QED
            BY <5>1, <5>2, <5>3, <5>4 DEF decodeStatus
        <4> QED
          BY <3>1, <3>2, <3>5, <4>2
      <3>6. CASE At(s, i) # \h1e
        <4>1. d + 6 <= n
          BY <1>2, <2>1, <2>2, <3>2
        <4>2. \A off \in {2, 4} : /\ U16BE(b, d + off) = U16BE(s, d + off)
                                  /\ I16BE(b, d + off) = I16BE(s, d + off)
          BY <3>3, <4>1
        <4>3. At(b, d) = At(s, d) /\ At(b, d + 1) = At(s, d + 1)
          BY <3>3, <3>4, <4>1
        <4>4. decodeHeaderWithSensor(b, d) = decodeHeaderWithSensor(s, d)
          BY <4>2, <4>3 DEF decodeHeaderWithSensor, Nullable
        <4> QED
          BY <3>1, <3>2, <3>6, <4>4
      <3> QED
        BY <3>5, <3>6
    <2> QED
      BY <2>3, <2>4
  <1> QED
    BY <1>7, <1>8, <1>9, <1>10, <1>11 DEF StreamModels


-----------------------------------------------------------------------------
\* Messages cut short: the readings of the records, merged.

\* f[i] is what is merged of the first i.
MergedInto(f, s) ==
    /\ f[0] = NoReadings /\ f[Len(s)] = Merged(s)
    /\ \A i \in DOMAIN s : f[i] = Over(s[i], f[i - 1])

\* The records are merged one by one, the later over the earlier (the stream decoders).
LEMMA MergedRounds ==
    ASSUME NEW X, NEW s \in Seq(X)
    PROVE  \E f : MergedInto(f, s)
  <1> DEFINE D == DOMAIN s
             Eq(iter) == iter = [t \in SUBSET D |->
                            IF t = {} THEN NoReadings ELSE Over(s[Max(t)], iter[t \ {Max(t)}])]
             It == CHOOSE iter : Eq(iter)
  <1>1. Merged(s) = It[D]
    BY DEF Merged, FoldLeft, MapThenFoldSet
  <1>2. D = 1 .. Len(s) /\ IsFiniteSet(D) /\ Len(s) \in Nat /\ \A i \in D : s[i] \in X
    BY FS_Interval
  <1>3. PICK c : c = LastOf(s)
    OBVIOUS
  <1>4. Chooses(c, D) /\ \A t \in SUBSET D : c[t] = Max(t)
    BY <1>3, LastIsMax DEF LastOf
  <1>5. PICK A, W, V : /\ A = UNION {DOMAIN s[i] : i \in D}
                       /\ W = UNION {{s[i][k] : k \in DOMAIN s[i]} : i \in D}
                       /\ V = UNION {[K -> W] : K \in SUBSET A}
    OBVIOUS
  <1>6. PICK G : G = [i \in D |-> [v \in V |-> Over(s[i], v)]]
    OBVIOUS
  <1>7. G \in [D -> [V -> V]] /\ NoReadings \in V
    <2>1. NoReadings \in V
      <3>1. NoReadings \in [{} -> W] /\ {} \in SUBSET A
        BY DEF NoReadings
      <3> QED
        BY <1>5, <3>1
    <2>2. ASSUME NEW i \in D, NEW v \in V PROVE Over(s[i], v) \in V
      <3>1. PICK K \in SUBSET A : v \in [K -> W]
        BY <1>5
      <3>2. DOMAIN v = K /\ \A k \in K : v[k] \in W
        BY <3>1
      <3>3. DOMAIN s[i] \subseteq A /\ \A k \in DOMAIN s[i] : s[i][k] \in W
        BY <1>5
      <3>4. PICK M : M = DOMAIN s[i] \cup K /\ M \in SUBSET A
        BY <3>3
      <3>5. Over(s[i], v) = [k \in M |-> IF k \in DOMAIN s[i] THEN s[i][k] ELSE v[k]]
        BY <3>2, <3>4 DEF Over
      <3>6. Over(s[i], v) \in [M -> W]
        BY <3>2, <3>3, <3>4, <3>5
      <3> QED
        BY <1>5, <3>4, <3>6
    <2> QED
      BY <1>6, <2>1, <2>2
  <1>8. \E iter : Eq(iter)
    <2>1. PICK iter : FoldsTo(iter, D, c, V, NoReadings, G)
      BY <1>2, <1>4, <1>7, FoldsExist
    <2>2. ASSUME NEW t \in SUBSET D
          PROVE  iter[t] = IF t = {} THEN NoReadings ELSE Over(s[Max(t)], iter[t \ {Max(t)}])
      <3>1. CASE t = {}
        BY <2>1, <3>1 DEF FoldsTo
      <3>2. CASE t # {}
        <4>1. c[t] = Max(t) /\ Max(t) \in D /\ t \ {Max(t)} \in SUBSET D
          BY <1>4, <3>2 DEF Chooses
        <4>2. iter[t \ {Max(t)}] \in V /\ iter[t] = G[Max(t)][iter[t \ {Max(t)}]]
          BY <2>1, <3>2, <4>1 DEF FoldsTo
        <4> QED
          BY <1>6, <3>2, <4>1, <4>2
      <3> QED
        BY <3>1, <3>2
    <2>3. iter = [t \in SUBSET D |-> iter[t]]
      BY <2>1 DEF FoldsTo
    <2> QED
      BY <2>2, <2>3
  <1>9. PICK it : it = It
    OBVIOUS
  <1>10. Eq(it)
    BY <1>8, <1>9
  <1>11. FoldsTo(it, D, c, V, NoReadings, G)
    <2>1. it = [t \in SUBSET D |-> it[t]]
      BY <1>10
    <2>2. it[{}] = NoReadings
      BY <1>10
    <2>3. ASSUME NEW t \in SUBSET D, t # {}, it[t \ {c[t]}] \in V
          PROVE  it[t] = G[c[t]][it[t \ {c[t]}]]
      <3>1. c[t] = Max(t) /\ Max(t) \in D
        BY <1>4, <2>3 DEF Chooses
      <3>2. it[t] = Over(s[Max(t)], it[t \ {Max(t)}])
        BY <1>10, <2>3
      <3> QED
        BY <1>6, <2>3, <3>1, <3>2
    <2> HIDE DEF Eq, D, It
    <2> QED
      BY <1>2, <1>4, <1>7, <2>1, <2>2, <2>3, IsAFold
  <1>12. PICK f : Rounds(f, Len(s), V, NoReadings, G) /\ f[Len(s)] = it[D]
    BY <1>3, <1>7, <1>11, RoundsOf
  <1>13. PICK N \in Nat : N = Len(s)
    BY <1>2
  <1>14. f \in [0 .. N -> V] /\ f[0] = NoReadings /\ f[N] = Merged(s)
    <2>1. f \in [0 .. N -> V] /\ f[0] = NoReadings
      BY <1>12, <1>13 DEF Rounds
    <2> QED
      BY <2>1, <1>1, <1>9, <1>12, <1>13
  <1>15. ASSUME NEW i \in D PROVE f[i] = Over(s[i], f[i - 1])
    <2>1. PICK k \in 0 .. N - 1 : k = i - 1
      BY <1>2, <1>13
    <2>2. PICK v \in V : v = f[k]
      BY <1>14
    <2>3. f[k + 1] = G[k + 1][v]
      BY <1>12, <1>13, <2>2 DEF Rounds
    <2>4. k + 1 = i
      BY <1>2, <1>13, <2>1
    <2> QED
      BY <1>6, <2>1, <2>2, <2>3, <2>4
  <1> HIDE DEF Eq, It
  <1> QED
    BY <1>13, <1>14, <1>15 DEF MergedInto

\* The states of readings that override others override the states of those.
LEMMA StatesOfBoth ==
    ASSUME NEW model, NEW x, NEW y
    PROVE  StatesOf(model, Over(x, y)) = Over(StatesOf(model, x), StatesOf(model, y))
  <1>1. PICK K : K = ToSet(Registry[model].keys)
    OBVIOUS
  <1>2. PICK xy, sx, sy : /\ xy = Over(x, y) /\ sx = StatesOf(model, x) /\ sy = StatesOf(model, y)
    OBVIOUS
  <1>3. /\ DOMAIN xy = DOMAIN x \cup DOMAIN y
        /\ \A k \in DOMAIN xy : xy[k] = IF k \in DOMAIN x THEN x[k] ELSE y[k]
    BY <1>2 DEF Over
  <1>4. /\ DOMAIN sx = K \cap DOMAIN x /\ \A k \in K \cap DOMAIN x : sx[k] = AlarmState(k, x[k])
        /\ DOMAIN sy = K \cap DOMAIN y /\ \A k \in K \cap DOMAIN y : sy[k] = AlarmState(k, y[k])
    BY <1>1, <1>2 DEF StatesOf
  <1>5. StatesOf(model, xy) = [k \in K \cap DOMAIN xy |-> AlarmState(k, xy[k])]
    BY <1>1 DEF StatesOf
  <1>6. Over(sx, sy) = [k \in K \cap DOMAIN xy |-> IF k \in DOMAIN sx THEN sx[k] ELSE sy[k]]
    <2>1. DOMAIN sx \cup DOMAIN sy = K \cap DOMAIN xy
      BY <1>3, <1>4
    <2> QED
      BY <2>1 DEF Over
  <1>7. ASSUME NEW k \in K \cap DOMAIN xy
        PROVE  AlarmState(k, xy[k]) = IF k \in DOMAIN sx THEN sx[k] ELSE sy[k]
    BY <1>3, <1>4
  <1> QED
    BY <1>2, <1>5, <1>6, <1>7

\* It is all the same to take the states of the merged readings, or to merge the states.
LEMMA StatesOfMerged ==
    ASSUME NEW model, NEW N \in Nat, NEW X, NEW x \in Seq(X), NEW Y, NEW y \in Seq(Y),
           Len(x) = N, Len(y) = N, \A n \in 1 .. N : y[n] = StatesOf(model, x[n])
    PROVE  StatesOf(model, Merged(x)) = Merged(y)
  <1>1. DOMAIN x = 1 .. N /\ DOMAIN y = 1 .. N
    OBVIOUS
  <1>2. PICK f : MergedInto(f, x)
    BY MergedRounds
  <1>3. PICK g : MergedInto(g, y)
    BY MergedRounds
  <1>4. PICK Q : Q = {n \in 0 .. N : StatesOf(model, f[n]) = g[n]}
    OBVIOUS
  <1>5. 0 \in Q
    <2>1. StatesOf(model, NoReadings) = NoReadings
      BY DEF StatesOf, NoReadings
    <2> QED
      BY <1>2, <1>3, <1>4, <2>1 DEF MergedInto
  <1>6. ASSUME NEW n \in 0 .. N - 1, n \in Q PROVE n + 1 \in Q
    <2>1. n + 1 \in 1 .. N /\ n + 1 \in 0 .. N /\ (n + 1) - 1 = n
      OBVIOUS
    <2>2. f[n + 1] = Over(x[n + 1], f[n]) /\ g[n + 1] = Over(y[n + 1], g[n])
      BY <1>1, <1>2, <1>3, <2>1 DEF MergedInto
    <2>3. StatesOf(model, f[n]) = g[n] /\ y[n + 1] = StatesOf(model, x[n + 1])
      BY <1>4, <1>6, <2>1
    <2>4. StatesOf(model, f[n + 1]) = g[n + 1]
      BY <2>2, <2>3, StatesOfBoth
    <2> QED
      BY <1>4, <2>1, <2>4
  <1>7. N \in Q
    <2>1. 0 .. N \subseteq Q
      BY <1>5, <1>6, UpTo
    <2> QED
      BY <2>1
  <1> QED
    BY <1>2, <1>3, <1>4, <1>7 DEF MergedInto


-----------------------------------------------------------------------------
\* Messages cut short: what is told of them.

\* The records of a message lie one after the other.
LEMMA SumsGrow ==
    ASSUME NEW r, NEW N \in Nat, N = Len(r), NEW end, SumsOf(end, r), \A n \in 1 .. N : r[n].size \in Nat
    PROVE  \A n \in 0 .. N : \A m \in 0 .. n : end[m] <= end[n]
  <1>1. /\ end \in [0 .. N -> Nat] /\ \A n \in 1 .. N : end[n] = end[n - 1] + r[n].size
    BY DEF SumsOf
  <1>2. PICK Q : Q = {n \in 0 .. N : \A m \in 0 .. n : end[m] <= end[n]}
    OBVIOUS
  <1>3. 0 \in Q
    <2>1. end[0] \in Nat
      BY <1>1
    <2> QED
      BY <1>2, <2>1
  <1>4. ASSUME NEW n \in 0 .. N - 1, n \in Q PROVE n + 1 \in Q
    <2>1. PICK p \in 1 .. N : p = n + 1 /\ p - 1 = n /\ p \in 0 .. N /\ n \in 0 .. N
      OBVIOUS
    <2>2. PICK x \in Nat, y \in Nat, z \in Nat : x = end[n] /\ y = end[p] /\ z = r[p].size
      BY <1>1, <2>1
    <2>3. y = x + z
      BY <1>1, <2>1, <2>2
    <2>4. ASSUME NEW m \in 0 .. p PROVE end[m] <= end[p]
      <3>1. CASE m = p
        BY <2>2, <3>1
      <3>2. CASE m # p
        <4>1. m \in 0 .. n /\ m \in 0 .. N
          BY <2>1, <3>2
        <4>2. PICK w \in Nat : w = end[m]
          BY <1>1, <4>1
        <4>3. w <= x
          BY <1>2, <1>4, <2>2, <4>1, <4>2
        <4> QED
          BY <2>2, <2>3, <4>2, <4>3, SMTT(30)
      <3> QED
        BY <3>1, <3>2
    <2> QED
      BY <1>2, <2>1, <2>4
  <1>5. 0 .. N \subseteq Q
    BY <1>3, <1>4, UpTo
  <1> QED
    BY <1>2, <1>5

\* r are records of the message s with their states, of types that model's decoder knows.
RecordsOf(r, end, model, s) ==
    /\ SumsOf(end, r) /\ end[Len(r)] = Len(s)
    /\ \A n \in 1 .. Len(r) :
         /\ r[n].size \in Nat \ {0}
         /\ model = "RAK2270" => At(s, end[n - 1] + 1) \in {\h67, \h02}
         /\ RecordEnd(model, s, end[n - 1]) = end[n]
         /\ r[n].readings = StatesOf(model, RecordRead(model, s, end[n - 1]))

\* Where the records begin that model's decoder finds in b, and what it reads there.
WalkOf(model, b) == Starts([i \in 0 .. Len(b) |-> RecordEnd(model, b, i)])
ReadAlong(model, b) == Merged([n \in DOMAIN WalkOf(model, b) |-> RecordRead(model, b, WalkOf(model, b)[n])])
\* What the first records tell.
ToldByFirst(r, whole) == Merged([n \in 1 .. whole |-> r[n].readings])

\* Of a message cut short the decoder walks the records that came whole, to the end
\* of the last one, and merges their readings.
LEMMA CutIsWalked ==
    ASSUME NEW model \in StreamModels, NEW b, NEW s, Beginning(b, s), NEW X, NEW r \in Seq(X),
           NEW end, RecordsOf(r, end, model, s),
           NEW whole, CameWhole(end, Len(r), Len(b), whole)
    PROVE  /\ WalkOf(model, b) = [n \in 1 .. whole |-> end[n - 1]]
           /\ whole # 0 => RecordEnd(model, b, end[whole - 1]) = end[whole]
           /\ StatesOf(model, ReadAlong(model, b)) = ToldByFirst(r, whole)
  <1>1. PICK N, L, M \in Nat : N = Len(r) /\ L = Len(b) /\ M = Len(s) /\ N \in Nat /\ L \in Nat /\ L <= M
    BY LenProperties DEF Beginning
  <1>2. /\ end \in [0 .. N -> Nat] /\ end[0] = 0 /\ end[N] = M
        /\ \A n \in 1 .. N : end[n] = end[n - 1] + r[n].size
    BY <1>1 DEF RecordsOf, SumsOf
  <1>3. \A n \in 1 .. N :
          /\ r[n].size \in Nat \ {0}
          /\ model = "RAK2270" => At(s, end[n - 1] + 1) \in {\h67, \h02}
          /\ RecordEnd(model, s, end[n - 1]) = end[n]
          /\ r[n].readings = StatesOf(model, RecordRead(model, s, end[n - 1]))
    BY <1>1 DEF RecordsOf
  <1>4. whole \in 0 .. N /\ end[whole] <= L /\ (whole < N => end[whole + 1] > L)
    BY <1>1 DEF CameWhole
  <1>5. \A n \in 0 .. whole : n \in 0 .. N /\ end[n] \in 0 .. L
    <2>1. \A n \in 0 .. N : \A m \in 0 .. n : end[m] <= end[n]
      BY <1>1, <1>3, SumsGrow DEF RecordsOf
    <2>2. ASSUME NEW n \in 0 .. whole PROVE n \in 0 .. N /\ end[n] \in 0 .. L
      <3>1. n \in 0 .. N
        BY <1>1, <1>4
      <3>2. end[n] \in Nat /\ end[whole] \in Nat /\ end[n] <= end[whole]
        BY <1>2, <1>4, <2>1, <3>1
      <3> QED
        BY <1>1, <1>4, <3>1, <3>2
    <2> QED
      BY <2>2
  <1>6. ASSUME NEW n \in 1 .. N, n - 1 \in 0 .. whole
        PROVE  /\ end[n] # end[n - 1] /\ end[n] \in Nat /\ end[n - 1] \in 0 .. L
               /\ RecordEnd(model, b, end[n - 1]) = IF end[n] <= L THEN end[n] ELSE end[n - 1]
               /\ end[n] <= L => StatesOf(model, RecordRead(model, b, end[n - 1])) = r[n].readings
    <2>1. PICK i, e : i = end[n - 1] /\ e = end[n] /\ i \in 0 .. L
      BY <1>5, <1>6
    <2>2. PICK z \in Nat \ {0} : z = r[n].size /\ e = i + z
      BY <1>2, <1>3, <2>1
    <2>3. e \in Nat /\ e # i
      <3>1. i \in Nat
        BY <1>1, <2>1
      <3> QED
        BY <2>2, <3>1, SMTT(30)
    <2>4. /\ model = "RAK2270" => At(s, i + 1) \in {\h67, \h02}
          /\ e = RecordEnd(model, s, i)
          /\ r[n].readings = StatesOf(model, RecordRead(model, s, i))
      BY <1>3, <2>1
    <2>5. RecordEnd(model, b, i) = IF e <= L THEN e ELSE i
      BY <1>1, <2>1, <2>3, <2>4, RecordsEndAlike
    <2>6. e <= L => StatesOf(model, RecordRead(model, b, i)) = StatesOf(model, RecordRead(model, s, i))
      BY <1>1, <2>1, <2>3, <2>4, RecordsReadAlike
    <2> QED
      BY <2>1, <2>3, <2>4, <2>5, <2>6
  <1>7. PICK ends : ends = [i \in 0 .. L |-> RecordEnd(model, b, i)]
    OBVIOUS
  <1>8. Onwards(ends, L)
    <2>1. \A i \in 0 .. L : RecordEnd(model, b, i) \in 0 .. L /\ RecordEnd(model, b, i) >= i
      BY <1>1, DecodersMoveOn DEF Beginning
    <2> QED
      BY <1>1, <1>7, <2>1 DEF Onwards
  <1>9. PICK at : at = [n \in 0 .. whole |-> end[n]]
    OBVIOUS
  <1>10. /\ whole \in Nat /\ at \in [0 .. whole -> 0 .. L] /\ at[0] = 0
         /\ \A n \in 0 .. whole - 1 : ends[at[n]] = at[n + 1] /\ at[n + 1] # at[n]
         /\ ends[at[whole]] = at[whole]
    <2>1. whole \in Nat /\ at \in [0 .. whole -> 0 .. L] /\ at[0] = 0
      <3>1. whole \in Nat
        BY <1>1, <1>4
      <3>2. at \in [0 .. whole -> 0 .. L]
        BY <1>5, <1>9
      <3>3. 0 \in 0 .. whole
        BY <3>1
      <3> QED
        BY <1>2, <1>9, <3>1, <3>2, <3>3
    <2>2. ASSUME NEW n \in 0 .. whole - 1 PROVE ends[at[n]] = at[n + 1] /\ at[n + 1] # at[n]
      <3>1. PICK p \in 1 .. N : p = n + 1 /\ p - 1 = n /\ n \in 0 .. whole /\ p \in 0 .. whole
        BY <1>1, <1>4
      <3>2. end[p] <= L /\ end[p] # end[n] /\ RecordEnd(model, b, end[n]) = end[p]
        <4>1. end[p] \in 0 .. L
          BY <1>5, <3>1
        <4>2. end[p] <= L
          BY <1>1, <4>1
        <4> QED
          BY <1>6, <3>1, <4>2
      <3>3. ends[end[n]] = end[p]
        BY <1>5, <1>7, <3>1, <3>2
      <3> QED
        BY <1>9, <3>1, <3>2, <3>3
    <2>3. ends[at[whole]] = at[whole]
      <3>1. whole \in 0 .. whole /\ end[whole] \in 0 .. L /\ at[whole] = end[whole]
        <4>1. whole \in 0 .. whole
          BY <1>1, <1>4
        <4> QED
          BY <1>5, <1>9, <4>1
      <3>2. CASE whole < N
        <4>1. PICK p \in 1 .. N : p = whole + 1 /\ p - 1 = whole
          BY <1>1, <1>4, <3>2
        <4>2. end[p] > L /\ end[p] \in Nat
          BY <1>4, <1>6, <3>1, <3>2, <4>1
        <4>3. ~(end[p] <= L)
          BY <1>1, <4>2
        <4>4. RecordEnd(model, b, end[whole]) = end[whole]
          BY <1>6, <3>1, <4>1, <4>3
        <4> QED
          BY <1>7, <3>1, <4>4
      <3>3. CASE ~(whole < N)
        <4>1. whole = N /\ end[whole] = L
          BY <1>1, <1>2, <1>4, <3>3
        <4>2. ends[L] \in 0 .. L /\ ends[L] >= L
          BY <1>1, <1>8 DEF Onwards
        <4> QED
          BY <1>1, <3>1, <4>1, <4>2
      <3> QED
        BY <3>2, <3>3
    <2> QED
      BY <2>1, <2>2, <2>3
  <1>11. WalkOf(model, b) = [n \in 1 .. whole |-> end[n - 1]]
    <2>1. Starts(ends) = [n \in 1 .. whole |-> at[n - 1]]
      <3>1. Visits(at, whole, ends, L)
        BY <1>10 DEF Visits
      <3> QED
        BY <1>8, <3>1, StartsAre
    <2>2. \A n \in 1 .. whole : n - 1 \in 0 .. whole
      BY <1>10
    <2>3. \A n \in 1 .. whole : at[n - 1] = end[n - 1]
      BY <1>9, <2>2
    <2>4. WalkOf(model, b) = Starts(ends)
      BY <1>1, <1>7 DEF WalkOf
    <2> QED
      BY <2>1, <2>3, <2>4
  <1>12. ASSUME NEW n \in 1 .. whole
         PROVE  /\ RecordEnd(model, b, end[n - 1]) = end[n]
                /\ StatesOf(model, RecordRead(model, b, end[n - 1])) = r[n].readings
    <2>1. n \in 1 .. N /\ n - 1 \in 0 .. whole /\ n \in 0 .. whole
      BY <1>1, <1>4
    <2>2. end[n] \in 0 .. L
      BY <1>5, <2>1
    <2>3. end[n] <= L
      BY <1>1, <2>2
    <2> QED
      BY <1>6, <2>1, <2>3
  <1>13. whole # 0 => RecordEnd(model, b, end[whole - 1]) = end[whole]
    <2>1. whole # 0 => whole \in 1 .. whole
      BY <1>10
    <2> QED
      BY <1>12, <2>1
  <1>14. PICK x, y : /\ x = [n \in 1 .. whole |-> RecordRead(model, b, end[n - 1])]
                     /\ y = [n \in 1 .. whole |-> r[n].readings]
    OBVIOUS
  <1>15. PICK Z, Y : x \in Seq(Z) /\ y \in Seq(Y) /\ Len(x) = whole /\ Len(y) = whole
    <2>1. PICK Z, Y : Z = {x[n] : n \in 1 .. whole} /\ Y = {y[n] : n \in 1 .. whole}
      OBVIOUS
    <2>2. x \in [1 .. whole -> Z] /\ y \in [1 .. whole -> Y]
      BY <1>14, <2>1
    <2>3. PICK K \in Nat : K = whole
      BY <1>10
    <2>4. x \in [1 .. K -> Z] /\ y \in [1 .. K -> Y]
      BY <2>2, <2>3
    <2>5. x \in Seq(Z) /\ y \in Seq(Y) /\ Len(x) = K /\ Len(y) = K
      BY <2>4
    <2> QED
      BY <2>3, <2>5
  <1>16. StatesOf(model, Merged(x)) = Merged(y)
    <2>1. \A n \in 1 .. whole : y[n] = StatesOf(model, x[n])
      BY <1>12, <1>14
    <2>2. PICK K \in Nat : K = whole
      BY <1>10
    <2>3. Len(x) = K /\ Len(y) = K /\ \A n \in 1 .. K : y[n] = StatesOf(model, x[n])
      BY <1>15, <2>1, <2>2
    <2> QED
      BY <1>15, <2>3, StatesOfMerged
  <1>17. Merged(x) = ReadAlong(model, b)
    <2>1. PICK starts : starts = WalkOf(model, b)
      OBVIOUS
    <2>2. [n \in DOMAIN starts |-> RecordRead(model, b, starts[n])] = x
      BY <1>11, <1>14, <2>1
    <2> QED
      BY <2>1, <2>2 DEF ReadAlong
  <1>18. Merged(y) = ToldByFirst(r, whole)
    BY <1>14 DEF ToldByFirst
  <1> QED
    BY <1>11, <1>13, <1>16, <1>17, <1>18


\* The first byte of an AM307 message is none of a text of hexadecimal digits.
LEMMA NoHexText ==
    ASSUME NEW b, NEW s, Beginning(b, s), NEW X, NEW r \in Seq(X), NEW end, RecordsOf(r, end, "AM307", s)
    PROVE  ~isHexASCII(b)
  <1> SUFFICES ASSUME Len(b) > 0 PROVE b[1] \notin DOMAIN HexValue
    <2>1. Len(b) > 0 => 1 \in DOMAIN b
      BY LenProperties DEF Beginning
    <2> QED
      BY <2>1 DEF isHexASCII
  <1>1. PICK N, L, M \in Nat : N = Len(r) /\ L = Len(b) /\ M = Len(s) /\ N \in Nat /\ L \in Nat /\ L <= M /\ L > 0
    BY LenProperties DEF Beginning
  <1>2. /\ end[0] = 0 /\ end[N] = M
        /\ \A n \in 1 .. N : RecordEnd("AM307", s, end[n - 1]) = end[n]
    BY <1>1 DEF RecordsOf, SumsOf
  <1>3. N # 0 /\ 1 \in 1 .. N
    BY <1>1, <1>2
  <1>4. end[1] # 0
    <2>1. end \in [0 .. N -> Nat] /\ end[1] = end[0] + r[1].size /\ r[1].size \in Nat \ {0}
      <3>1. 1 - 1 = 0
        OBVIOUS
      <3> QED
        BY <1>1, <1>3, <3>1 DEF RecordsOf, SumsOf
    <2> QED
      BY <1>2, <2>1
  <1>5. AM307End(s, 0) # 0
    <2>1. 1 - 1 = 0
      OBVIOUS
    <2>2. RecordEnd("AM307", s, 0) = end[1]
      BY <1>2, <1>3, <2>1
    <2> QED
      BY <1>4, <2>2 DEF RecordEnd
  <1>6. PICK t : t = Cut(s, 0, 2) /\ t \in DOMAIN AM307Sizes /\ 2 <= M
    BY <1>1, <1>5 DEF AM307End
  <1>7. t[1] = At(s, 0)
    <2>1. PICK i \in Nat : i = 0 /\ i + 2 <= Len(s) /\ s \in Seq(Octets)
      BY <1>1, <1>6 DEF Beginning
    <2>2. Cut(s, i, 2) = <<At(s, i), At(s, i + 1)>>
      BY <2>1, CutTwo
    <2> QED
      BY <1>6, <2>1, <2>2
  <1>8. b[1] = t[1]
    <2>1. PICK i \in Nat : i = 0 /\ i < Len(b)
      BY <1>1
    <2>2. At(b, i) = At(s, i)
      BY <2>1, BeginningAt
    <2>3. At(b, 0) = b[1]
      BY DEF At
    <2> QED
      BY <1>7, <2>1, <2>2, <2>3
  <1>9. t[1] \notin DOMAIN HexValue
    <2>1. t[1] \in {\h01, \h03, \h04, \h05, \h06, \h07, \h08, \h09, \h20, \h21, \hfe, \hff}
      BY <1>6, AM307Records
    <2>2. DOMAIN HexValue = (48 .. 57) \cup (65 .. 70) \cup (97 .. 102)
      BY DEF HexValue
    <2>3. PICK c : c = t[1]
      OBVIOUS
    <2>4. c \in Int /\ (c < 48 \/ c > 102)
      BY <2>1, <2>3
    <2>5. c \notin 48 .. 57 /\ c \notin 65 .. 70 /\ c \notin 97 .. 102
      BY <2>4
    <2> QED
      BY <2>2, <2>3, <2>5
  <1> QED
    BY <1>8, <1>9

\* CT101 sees that a record was cut short if its type came, and only then.
LEMMA CutIsNoticed ==
    ASSUME NEW b, NEW s, Beginning(b, s), NEW X, NEW r \in Seq(X), NEW end, RecordsOf(r, end, "CT101", s),
           NEW whole, CameWhole(end, Len(r), Len(b), whole)
    PROVE  CT101Truncated(b, end[whole]) <=> Len(b) - end[whole] >= 2
  <1>1. PICK N, L, M \in Nat : N = Len(r) /\ L = Len(b) /\ M = Len(s) /\ N \in Nat /\ L \in Nat /\ L <= M
    BY LenProperties DEF Beginning
  <1>2. /\ end \in [0 .. N -> Nat] /\ end[N] = M
        /\ \A n \in 1 .. N : /\ end[n] = end[n - 1] + r[n].size /\ r[n].size \in Nat \ {0}
                             /\ RecordEnd("CT101", s, end[n - 1]) = end[n]
    BY <1>1 DEF RecordsOf, SumsOf
  <1>3. whole \in 0 .. N /\ end[whole] <= L
    BY <1>1 DEF CameWhole
  <1>4. PICK i \in Nat : i = end[whole]
    BY <1>2, <1>3
  <1>5. CASE i + 2 <= L
    <2>1. PICK p \in 1 .. N : p = whole + 1 /\ p - 1 = whole
      <3>1. whole # N
        BY <1>1, <1>2, <1>4, <1>5
      <3> QED
        BY <1>1, <1>3, <3>1
    <2>2. PICK z \in Nat \ {0} : z = r[p].size /\ end[p] = i + z
      BY <1>2, <1>4, <2>1
    <2>3. CT101End(s, i) # i
      BY <1>2, <1>4, <2>1, <2>2, SMTT(30) DEF RecordEnd
    <2>4. Cut(s, i, 2) \in DOMAIN CT101Sizes
      BY <2>3 DEF CT101End
    <2>5. Cut(b, i, 2) = Cut(s, i, 2)
      <3>1. PICK two \in Nat : two = 2 /\ i + two <= Len(b)
        BY <1>1, <1>5
      <3> QED
        BY <3>1, BeginningCut
    <2> QED
      BY <1>1, <1>4, <1>5, <2>4, <2>5 DEF CT101Truncated
  <1>6. CASE ~(i + 2 <= L)
    BY <1>1, <1>4, <1>6 DEF CT101Truncated
  <1> QED
    BY <1>5, <1>6

\* What is told of a message that was cut short (Decode of the stream decoders).
LEMMA CutIsDecoded ==
    ASSUME NEW model \in StreamModels, NEW b, NEW s, Beginning(b, s), NEW X, NEW r \in Seq(X),
           NEW end, RecordsOf(r, end, model, s),
           NEW whole, CameWhole(end, Len(r), Len(b), whole),
           NEW raw, raw.bytes = b, raw.fPort \notin {192, 199}
    PROVE  StatesOf(model, Decode(model, raw).readings) =
             IF model = "CT101" /\ (Len(b) - end[whole] >= 2 \/ Len(b) < 4) THEN NoReadings
             ELSE ToldByFirst(r, whole)
  <1>1. PICK starts, merged : starts = WalkOf(model, b) /\ merged = ReadAlong(model, b)
    OBVIOUS
  <1>2. /\ starts = Starts([i \in 0 .. Len(b) |-> RecordEnd(model, b, i)])
        /\ merged = Merged([n \in DOMAIN starts |-> RecordRead(model, b, starts[n])])
    BY <1>1 DEF WalkOf, ReadAlong
  <1>3. /\ starts = [n \in 1 .. whole |-> end[n - 1]]
        /\ whole # 0 => RecordEnd(model, b, end[whole - 1]) = end[whole]
        /\ StatesOf(model, merged) = ToldByFirst(r, whole)
    BY <1>1, CutIsWalked
  <1>4. ASSUME NEW x, NEW y PROVE Decoded(x, y).readings = x
    BY DEF Decoded
  <1>5. CASE model = "AM307"
    <2>1. ~isHexASCII(b)
      BY <1>5, NoHexText
    <2>2. [i \in 0 .. Len(b) |-> RecordEnd(model, b, i)] = [i \in 0 .. Len(b) |-> AM307End(b, i)]
      BY <1>5 DEF RecordEnd
    <2>3. merged = Merged([n \in DOMAIN starts |-> AM307Read(b, starts[n])])
      BY <1>2, <1>5 DEF RecordRead
    <2>4. PICK history : history = AM307History(b, starts) /\ DOMAIN history \subseteq {"history"}
      <3>1. DOMAIN AM307History(b, starts) \subseteq {"history"}
        BY DEF AM307History, NoReadings
      <3> QED
        BY <3>1
    <2>5. Decode(model, raw).readings = Over(merged, history)
      <3>1. Decode(model, raw) = AM307Decode(b)
        BY <1>5 DEF Decode
      <3>2. starts = Starts([i \in 0 .. Len(b) |-> AM307End(b, i)])
        BY <1>2, <2>2
      <3>3. AM307Decode(b) = Decoded(Over(Merged([n \in DOMAIN starts |-> AM307Read(b, starts[n])]),
                                          AM307History(b, starts)), NoFix)
        BY <2>1, <3>2 DEF AM307Decode
      <3>4. AM307Decode(b) = Decoded(Over(merged, history), NoFix)
        BY <2>3, <2>4, <3>3
      <3> QED
        BY <1>4, <3>1, <3>4
    <2>6. StatesOf(model, Over(merged, history)) = StatesOf(model, merged)
      <3>1. PICK K : K = ToSet(Registry[model].keys)
        OBVIOUS
      <3>2. "history" \notin K
        BY <1>5, <3>1 DEF ToSet, Registry, AM307, Profile
      <3>3. PICK all : all = Over(merged, history)
        OBVIOUS
      <3>4. /\ DOMAIN all = DOMAIN merged \cup DOMAIN history
            /\ \A k \in DOMAIN all : k \in DOMAIN merged => all[k] = merged[k]
        BY <3>3 DEF Over
      <3>5. K \cap DOMAIN all = K \cap DOMAIN merged
        BY <2>4, <3>2, <3>4
      <3>6. \A k \in K \cap DOMAIN all : all[k] = merged[k]
        BY <3>4, <3>5
      <3> QED
        BY <3>1, <3>3, <3>5, <3>6, OnlyNamedTell
    <2> QED
      BY <1>3, <1>5, <2>5, <2>6
  <1>6. CASE model = "CT101"
    <2>1. [i \in 0 .. Len(b) |-> RecordEnd(model, b, i)] = [i \in 0 .. Len(b) |-> CT101End(b, i)]
      BY <1>6 DEF RecordEnd
    <2>2. merged = Merged([n \in DOMAIN starts |-> CT101Read(b, starts[n])])
      BY <1>2, <1>6 DEF RecordRead
    <2>3. PICK stop : stop = IF starts = <<>> THEN 0 ELSE CT101End(b, Last(starts))
      OBVIOUS
    <2>4. stop = end[whole]
      <3>1. PICK w \in Nat : w = whole
        <4>1. whole \in 0 .. Len(r)
          BY DEF CameWhole
        <4> QED
          BY <4>1
      <3>2. CASE w = 0
        <4>1. starts = <<>>
          BY <1>3, <3>1, <3>2
        <4>2. end[0] = 0
          BY DEF RecordsOf, SumsOf
        <4> QED
          BY <2>3, <3>1, <3>2, <4>1, <4>2
      <3>3. CASE w # 0
        <4>1. starts # <<>> /\ Len(starts) = w /\ starts[w] = end[w - 1]
          <5>1. starts = [n \in 1 .. w |-> end[n - 1]] /\ w \in 1 .. w
            BY <1>3, <3>1, <3>3
          <5>2. PICK Y : starts \in [1 .. w -> Y]
            <6>1. starts \in [1 .. w -> {starts[n] : n \in 1 .. w}]
              BY <5>1
            <6> QED
              BY <6>1
          <5>3. starts \in Seq(Y) /\ Len(starts) = w
            BY <5>2
          <5>4. starts # <<>>
            BY <3>3, <5>3, EmptySeq
          <5> QED
            BY <5>1, <5>3, <5>4
        <4>2. Last(starts) = end[w - 1]
          BY <4>1 DEF Last
        <4>3. RecordEnd(model, b, end[w - 1]) = CT101End(b, end[w - 1])
          BY <1>6 DEF RecordEnd
        <4> QED
          BY <1>3, <2>3, <3>1, <3>3, <4>1, <4>2, <4>3, ZenonT(60)
      <3> QED
        BY <3>2, <3>3
    <2>5. Decode(model, raw).readings =
            IF Len(b) < 4 \/ CT101Truncated(b, stop) THEN NoReadings ELSE merged
      <3>1. Decode(model, raw) = CT101Decode(b)
        BY <1>6 DEF Decode
      <3>2. CT101Decode(b) =
              Decoded(IF Len(b) < 4 \/ CT101Truncated(b, stop) THEN NoReadings ELSE merged, NoFix)
        BY <1>2, <2>1, <2>2, <2>3 DEF CT101Decode
      <3> QED
        BY <1>4, <3>1, <3>2
    <2>6. CT101Truncated(b, stop) <=> Len(b) - end[whole] >= 2
      BY <1>6, <2>4, CutIsNoticed
    <2>7. StatesOf(model, NoReadings) = NoReadings
      BY DEF StatesOf, NoReadings
    <2> QED
      BY <1>3, <1>6, <2>5, <2>6, <2>7
  <1>7. CASE model = "TBEAM"
    <2>1. [i \in 0 .. Len(b) |-> RecordEnd(model, b, i)] = [i \in 0 .. Len(b) |-> TBeamEnd(b, i)]
      BY <1>7 DEF RecordEnd
    <2>2. merged = Merged([n \in DOMAIN starts |-> TBeamRead(b, starts[n])])
      BY <1>2, <1>7 DEF RecordRead
    <2>3. Decode(model, raw) = TBeamDecode(b)
      BY <1>7 DEF Decode
    <2>4. TBeamDecode(b).readings = merged
      <3>1. starts = Starts([i \in 0 .. Len(b) |-> TBeamEnd(b, i)])
        BY <1>2, <2>1
      <3>2. \E fix : TBeamDecode(b) =
              Decoded(Merged([n \in DOMAIN starts |-> TBeamRead(b, starts[n])]), fix)
        BY <3>1 DEF TBeamDecode
      <3> QED
        BY <1>4, <2>2, <3>2
    <2> QED
      BY <1>3, <1>7, <2>3, <2>4
  <1>8. CASE model = "RAK2270"
    <2>1. [i \in 0 .. Len(b) |-> RecordEnd(model, b, i)] = [i \in 0 .. Len(b) |-> RAK2270End(b, i)]
      BY <1>8 DEF RecordEnd
    <2>2. merged = Merged([n \in DOMAIN starts |-> RAK2270Read(b, starts[n])])
      BY <1>2, <1>8 DEF RecordRead
    <2>3. Decode(model, raw) = RAK2270Decode(b)
      BY <1>8 DEF Decode
    <2>4. RAK2270Decode(b).readings = merged
      <3>1. starts = Starts([i \in 0 .. Len(b) |-> RAK2270End(b, i)])
        BY <1>2, <2>1
      <3>2. RAK2270Decode(b) = Decoded(Merged([n \in DOMAIN starts |-> RAK2270Read(b, starts[n])]), NoFix)
        BY <3>1 DEF RAK2270Decode
      <3> QED
        BY <1>4, <2>2, <3>2
    <2> QED
      BY <1>3, <1>8, <2>3, <2>4
  <1>9. CASE model = "SENSECAP_T1000E"
    <2>1. [i \in 0 .. Len(b) |-> RecordEnd(model, b, i)] = [i \in 0 .. Len(b) |-> T1000EEnd(b, i)]
      BY <1>9 DEF RecordEnd
    <2>2. merged = Merged([n \in DOMAIN starts |-> decodeFrame(b, starts[n])])
      BY <1>2, <1>9 DEF RecordRead
    <2>3. Decode(model, raw) = T1000EDecode(raw.fPort, b)
      BY <1>9 DEF Decode
    <2>4. T1000EDecode(raw.fPort, b).readings = merged
      <3>0. raw.fPort \notin {199, 192}
        OBVIOUS
      <3>1. starts = Starts([i \in 0 .. Len(b) |-> T1000EEnd(b, i)])
        BY <1>2, <2>1
      <3>2. \E fix : T1000EDecode(raw.fPort, b) =
              Decoded(Merged([n \in DOMAIN starts |-> decodeFrame(b, starts[n])]), fix)
        BY <3>0, <3>1 DEF T1000EDecode
      <3> QED
        BY <1>4, <2>2, <3>2
    <2> QED
      BY <1>3, <1>9, <2>3, <2>4
  <1> QED
    BY <1>5, <1>6, <1>7, <1>8, <1>9 DEF StreamModels

\* Each message cut short is the beginning of one made of whole records.
CutMessagesAreCut == \A n \in DOMAIN Deliveries : IsCut(Deliveries[n])

\* How many records came whole.
WholeOf(r, end, came) ==
    CHOOSE n \in 0 .. Len(r) : end[n] <= came /\ (n < Len(r) => end[n + 1] > came)

\* A message cut short is told of as its records that came whole.
LEMMA CutTells ==
    ASSUME NEW d, IsCut(d), d.kind = "cut", NEW r, r = d.records, NEW end, end = Ends(r),
           NEW whole, whole = WholeOf(r, end, d.came)
    PROVE  StatesOf(d.profile, Decode(d.profile, RawByParser(d)).readings) =
             IF d.profile = "CT101" /\ (d.came - end[whole] >= 2 \/ d.came < 4) THEN NoReadings
             ELSE ToldByFirst(r, whole)
  <1>1. PICK model, raw, s, b : model = d.profile /\ raw = RawByParser(d) /\ s = d.sent /\ b = raw.bytes
    OBVIOUS
  <1>2. /\ r \in Seq(ToSet(r)) /\ model \in StreamModels /\ raw.fPort \notin {192, 199}
        /\ s \in Seq(Octets) /\ d.came \in 0 .. Len(s) /\ b = SubSeq(s, 1, d.came)
        /\ end[Len(r)] = Len(s)
        /\ \A n \in DOMAIN r :
             /\ r[n].size \in Nat \ {0}
             /\ model = "RAK2270" => At(s, end[n - 1] + 1) \in {\h67, \h02}
             /\ RecordEnd(model, s, end[n - 1]) = end[n]
             /\ r[n].readings = StatesOf(model, RecordRead(model, s, end[n - 1]))
    BY <1>1 DEF IsCut, StreamModels, Octets
  <1>3. PICK X : r \in Seq(X) /\ DOMAIN r = 1 .. Len(r) /\ Len(r) \in Nat
    BY <1>2, LenProperties
  <1>4. RecordsOf(r, end, model, s)
    <2>1. SumsOf(end, r)
      BY <1>2, <1>3, EndsAreSums
    <2> QED
      BY <1>2, <1>3, <2>1 DEF RecordsOf
  <1>5. Beginning(b, s) /\ Len(b) = d.came
    <2>1. PICK c \in 0 .. Len(s) : c = d.came /\ b = SubSeq(s, 1, c) /\ s \in Seq(Octets)
      BY <1>2
    <2> QED
      BY <2>1, BeginningIs
  <1>6. CameWhole(end, Len(r), Len(b), whole)
    <2>1. end \in [0 .. Len(r) -> Nat] /\ end[0] = 0
      BY <1>4 DEF RecordsOf, SumsOf
    <2>2. d.came \in Nat
      BY <1>2
    <2>3. \E n : CameWhole(end, Len(r), d.came, n)
      BY <1>3, <2>1, <2>2, SomeCameWhole
    <2>4. \E n \in 0 .. Len(r) : end[n] <= d.came /\ (n < Len(r) => end[n + 1] > d.came)
      BY <2>3 DEF CameWhole
    <2>5. whole \in 0 .. Len(r) /\ end[whole] <= d.came /\ (whole < Len(r) => end[whole + 1] > d.came)
      BY <2>4 DEF WholeOf
    <2> QED
      BY <1>5, <2>5 DEF CameWhole
  <1>7. StatesOf(model, Decode(model, raw).readings) =
             IF model = "CT101" /\ (Len(b) - end[whole] >= 2 \/ Len(b) < 4) THEN NoReadings
             ELSE ToldByFirst(r, whole)
    <2>1. model \in StreamModels /\ raw.fPort \notin {192, 199} /\ raw.bytes = b /\ Beginning(b, s)
      BY <1>1, <1>2, <1>5
    <2>2. r \in Seq(X)
      BY <1>3
    <2>3. RecordsOf(r, end, model, s) /\ CameWhole(end, Len(r), Len(b), whole)
      BY <1>4, <1>6
    <2> QED
      BY ONLY <2>1, <2>2, <2>3, CutIsDecoded
  <1> QED
    BY <1>1, <1>5, <1>7

\* A message that was cut short anywhere tells all of the records that came whole and
\* nothing of the rest, and CT101 discards it if more than one byte of a record came
\* (Decode of the stream decoders): for any records and any place of the cut.
THEOREM TailLossStays ==
    ASSUME UplinksAreNoApiMessages, MessagesAreMarked, UplinksAreComplete, CutMessagesAreCut
    PROVE  Spec => []TailLossOnly
  <1>1. Init => PublishedInv
    BY DEF Init, Idling, ToldInv, RoutedInv, PublishedInv
  <1>2. PublishedInv /\ [Next]_<<vars, apiVars, gateways>> => PublishedInv'
    <2>1. ASSUME PublishedInv, UNCHANGED vars PROVE PublishedInv'
      BY <2>1 DEF vars, PublishedInv, RoutedInv, ToldInv, Declared, EntityKeys, RawByParser
    <2> QED
      BY <2>1, PublishedStep DEF Next, Consume, Serve, Locate
  <1>3. PublishedInv => TailLossOnly
    <2> SUFFICES ASSUME PublishedInv, Done("cut"), NEW r, r = delivery.records, NEW end, end = Ends(r),
                        NEW whole, whole = WholeOf(r, end, delivery.came)
                 PROVE  Tell(IF delivery.profile = "CT101"
                                /\ (delivery.came - end[whole] >= 2 \/ delivery.came < 4)
                             THEN NoReadings ELSE ToldByFirst(r, whole))
      BY DEF TailLossOnly, ToldByFirst, WholeOf
    <2>1. phase \in Ended /\ delivery.kind = "cut" /\ phase # "idle"
      BY DEF Done, Ended
    <2>2. phase = "published"
      BY <2>1 DEF PublishedInv, Ended
    <2>3. PICK device : entities = ParseToEntities(delivery.profile, RawByParser(delivery), device)
      BY <2>1, <2>2 DEF PublishedInv
    <2>4. PICK d, n : n \in DOMAIN Deliveries /\ d = Deliveries[n] /\ d = delivery
      BY <2>1 DEF PublishedInv, RoutedInv, ToldInv
    <2>5. CanHandle(d.profile) /\ IsCut(d) /\ d.kind = "cut"
      <3>1. IsComplete(d) /\ IsCut(d) /\ d.kind = "cut"
        BY <2>1, <2>4 DEF UplinksAreComplete, CutMessagesAreCut
      <3> QED
        BY <3>1 DEF IsComplete
    <2>6. PICK raw : raw = RawByParser(d)
      OBVIOUS
    <2>7. Tell(StatesOf(delivery.profile, Decode(delivery.profile, raw).readings))
      BY <2>3, <2>4, <2>5, <2>6, TellsItsReadings
    <2>8. StatesOf(d.profile, Decode(d.profile, raw).readings) =
             IF d.profile = "CT101" /\ (d.came - end[whole] >= 2 \/ d.came < 4) THEN NoReadings
             ELSE ToldByFirst(r, whole)
      BY <2>4, <2>5, <2>6, CutTells
    <2> QED
      BY <2>4, <2>7, <2>8
  <1> QED
    BY <1>1, <1>2, <1>3, PTL DEF Spec

=============================================================================
