------------------------- MODULE HookSettingsProofs -------------------------
(* What the adapters' merges and removals keep of what is not thlibo's, and  *)
(* how many hooks of thlibo's they leave, for every content of the files     *)
(* (HookSettings).  The model builds its lists by recursion on their length; *)
(* the first sections prove, by induction, what is needed of such lists.     *)
EXTENDS HookSettings, SequenceTheorems, WellFoundedInduction, TLAPS

-----------------------------------------------------------------------------
(* Lists.                                                                    *)

\* Lists over a set are lists over a larger one.
LEMMA SeqGrows ==
  ASSUME NEW S, NEW T, S \subseteq T
  PROVE  Seq(S) \subseteq Seq(T)
<1> SUFFICES ASSUME NEW s \in Seq(S) PROVE s \in Seq(T)
  OBVIOUS
<1>1. Len(s) \in Nat /\ s \in [1..Len(s) -> T]
  OBVIOUS
<1> QED
  BY <1>1

\* One list behind another.
LEMMA Joined ==
  ASSUME NEW E, NEW a \in Seq(E), NEW b \in Seq(E)
  PROVE  /\ Len(b) \in Nat /\ DOMAIN (a \o b) = 1..(Len(a) + Len(b))
         /\ \A i \in 1..Len(a) : (a \o b)[i] = a[i]
OBVIOUS

\* Whatever a user writes, and what thlibo does.
Names ==
  STRING \cup Headers \cup Flags \cup {OurCommand.sh, OurCommand.ps1}
    \cup {"sh", "ps1", "Bash", "PowerShell", "Read", "Write", "Edit", "^Bash$", "Shell", "any"}
    \cup {"exec", "read", "write", "post", "pre", "shell", "file", "thlibo", "flag", "user"}

Hooks == Names \X Names
Groups == [matcher : Names, hooks : Seq(Hooks)]

\* Those that are not thlibo's.
UsersHooks == {h \in Hooks : IsUser(h)}

\* Induction over the numbers, as a statement about a set: it follows from
\* every set of numbers having a least element.
LEMMA Induction ==
  ASSUME NEW S, 0 \in S, \A n \in Nat : n \in S => n + 1 \in S
  PROVE  \A n \in Nat : n \in S
<1> DEFINE T == Nat \ S
           R == OpToRel(<, Nat)
<1> SUFFICES ASSUME T # {} PROVE FALSE
  OBVIOUS
<1>1. IsWellFoundedOn(R, Nat)
  BY NatLessThanWellFounded
<1>2. \A x, y \in Nat : x < y => <<x, y>> \in R
  BY DEF OpToRel
<1>3. T \subseteq Nat
  OBVIOUS
<1> HIDE DEF R
<1>4. PICK x \in T : \A y \in T : ~(<<y, x>> \in R)
  <2> HIDE DEF T
  <2> QED
    BY <1>1, <1>3, WFMin
<1>5. x \in Nat /\ x # 0 /\ x - 1 \in Nat /\ x - 1 < x
  BY <1>4
<1>6. x - 1 \in S
  BY <1>2, <1>4, <1>5
<1>7. (x - 1) + 1 \in S
  BY <1>5, <1>6
<1> QED
  BY <1>4, <1>5, <1>7

\* A function on the numbers up to m that is given by recursion.
Recurs(f, m, base, G) == f[0] = base /\ \A n \in 1..m : f[n] = G[<<f[n - 1], n>>]

\* What a recursive function needs: a step from each value to the next.
LEMMA Recursion ==
  ASSUME NEW m \in Nat, NEW T, NEW base \in T, NEW G \in [T \X (1..m) -> T]
  PROVE  \E f \in [0..m -> T] : Recurs(f, m, base, G)
<1> DEFINE Good(k, f) == f[0] = base /\ \A n \in 1..k : f[n] = G[<<f[n - 1], n>>]
           S == {k \in Nat : k <= m => \E f \in [0..k -> T] : Good(k, f)}
<1>1. 0 \in S
  <2> DEFINE f == [n \in 0..0 |-> base]
  <2>1. f \in [0..0 -> T] /\ Good(0, f)
    OBVIOUS
  <2> QED
    BY <2>1
<1>2. \A k \in Nat : k \in S => k + 1 \in S
  <2> SUFFICES ASSUME NEW k \in Nat, k \in S, k + 1 <= m
               PROVE  \E g \in [0..k + 1 -> T] : Good(k + 1, g)
    OBVIOUS
  <2>1. PICK f \in [0..k -> T] : Good(k, f)
    OBVIOUS
  <2> DEFINE g == [n \in 0..k + 1 |-> IF n = k + 1 THEN G[<<f[k], k + 1>>] ELSE f[n]]
  <2>2. G[<<f[k], k + 1>>] \in T
    <3>1. <<f[k], k + 1>> \in T \X (1..m)
      BY <2>1
    <3> QED
      BY <3>1
  <2>3. g \in [0..k + 1 -> T]
    BY <2>1, <2>2
  <2>4. g[0] = base
    BY <2>1
  <2>5. ASSUME NEW n \in 1..k + 1 PROVE g[n] = G[<<g[n - 1], n>>]
    <3>1. CASE n = k + 1
      <4>1. n \in 0..k + 1 /\ n - 1 \in 0..k + 1 /\ n - 1 # k + 1 /\ n - 1 = k
        BY <3>1
      <4>2. g[n] = G[<<f[k], n>>] /\ g[n - 1] = f[n - 1]
        BY <3>1, <4>1
      <4> QED
        BY <4>1, <4>2
    <3>2. CASE n # k + 1
      <4>1. n \in 1..k /\ n - 1 \in 0..k /\ n - 1 # k + 1 /\ n \in 0..k + 1 /\ n - 1 \in 0..k + 1
        BY <3>2
      <4>2. g[n] = f[n] /\ g[n - 1] = f[n - 1]
        BY <3>2, <4>1
      <4> QED
        BY <2>1, <4>1, <4>2
    <3> QED
      BY <3>1, <3>2
  <2> QED
    BY <2>3, <2>4, <2>5
<1> HIDE DEF S
<1>3. m \in S
  BY <1>1, <1>2, Induction
<1> QED
  BY <1>3 DEF S, Recurs

\* Two functions that go on alike from like values.
SameSteps(f, g, m) == \A n \in 1..m : f[n - 1] = g[n - 1] => f[n] = g[n]

\* Two such functions that take the same steps agree.
LEMMA RecursionUnique ==
  ASSUME NEW m \in Nat, NEW f, NEW g, f[0] = g[0], SameSteps(f, g, m)
  PROVE  \A n \in 0..m : f[n] = g[n]
<1> DEFINE S == {k \in Nat : k <= m => f[k] = g[k]}
<1>1. 0 \in S
  OBVIOUS
<1>2. ASSUME NEW k \in Nat, k \in S PROVE k + 1 \in S
  <2> SUFFICES ASSUME k + 1 <= m PROVE f[k + 1] = g[k + 1]
    OBVIOUS
  <2>1. k + 1 \in 1..m /\ (k + 1) - 1 = k /\ k <= m
    OBVIOUS
  <2> QED
    BY <1>2, <2>1 DEF SameSteps
<1>3. \A k \in Nat : k \in S
  <2> HIDE DEF S
  <2> QED
    BY <1>1, <1>2, Induction
<1> QED
  BY <1>3

\* The function within AtPlaces.
PlacesUpTo(seq, places) ==
  CHOOSE upTo : upTo = [n \in 0..Len(seq) |->
    IF n = 0 THEN <<>> ELSE IF n \in places THEN Append(upTo[n - 1], seq[n]) ELSE upTo[n - 1]]

\* The recursion of AtPlaces, unrolled.
LEMMA AtPlacesDef ==
  ASSUME NEW E, NEW seq \in Seq(E), NEW places
  PROVE  LET upTo == PlacesUpTo(seq, places)
         IN  /\ AtPlaces(seq, places) = upTo[Len(seq)]
             /\ upTo[0] = <<>>
             /\ \A n \in 1..Len(seq) :
                  upTo[n] = IF n \in places THEN Append(upTo[n - 1], seq[n]) ELSE upTo[n - 1]
<1> DEFINE m == Len(seq)
           Next(x, n) == IF n \in places THEN Append(x, seq[n]) ELSE x
           G == [p \in Seq(E) \X (1..m) |-> Next(p[1], p[2])]
<1>1. m \in Nat /\ <<>> \in Seq(E) /\ G \in [Seq(E) \X (1..m) -> Seq(E)]
  <2>1. ASSUME NEW p \in Seq(E) \X (1..m) PROVE Next(p[1], p[2]) \in Seq(E)
    OBVIOUS
  <2> QED
    BY <2>1
<1>2. PICK f \in [0..m -> Seq(E)] : Recurs(f, m, <<>>, G)
  <2> HIDE DEF m, G
  <2> QED
    BY <1>1, Recursion
<1>3. f = [n \in 0..m |-> IF n = 0 THEN <<>> ELSE Next(f[n - 1], n)]
  <2>1. ASSUME NEW n \in 1..m PROVE f[n] = Next(f[n - 1], n)
    <3>1. n - 1 \in 0..m
      BY <1>1
    <3>2. f[n - 1] \in Seq(E)
      BY <3>1
    <3> QED
      BY <1>2, <3>2 DEF Recurs
  <2> HIDE DEF Next
  <2> QED
    BY <1>2, <2>1 DEF Recurs
<1> DEFINE upTo == PlacesUpTo(seq, places)
<1>4. upTo = [n \in 0..m |-> IF n = 0 THEN <<>> ELSE Next(upTo[n - 1], n)]
  BY <1>3 DEF PlacesUpTo
<1>5. AtPlaces(seq, places) = upTo[m]
  BY DEF AtPlaces, PlacesUpTo
<1> HIDE DEF upTo
<1>6. upTo[0] = <<>> /\ \A n \in 1..m : upTo[n] = Next(upTo[n - 1], n)
  <2> HIDE DEF Next
  <2> QED
    BY <1>1, <1>4
<1> QED
  BY <1>5, <1>6 DEF upTo

\* Where the elements are that are in a set.
PlacesOf(seq, set) == {i \in DOMAIN seq : seq[i] \in set}

\* The elements of a sequence that are in a set.
Only(seq, set) == AtPlaces(seq, PlacesOf(seq, set))

\* The function within Only.
OnlyUpTo(seq, set) == PlacesUpTo(seq, PlacesOf(seq, set))

\* The recursion of Only, unrolled.
LEMMA OnlyDef ==
  ASSUME NEW E, NEW seq \in Seq(E), NEW set
  PROVE  LET upTo == OnlyUpTo(seq, set)
         IN  /\ Only(seq, set) = upTo[Len(seq)]
             /\ upTo[0] = <<>>
             /\ \A n \in 1..Len(seq) :
                  upTo[n] = IF seq[n] \in set THEN Append(upTo[n - 1], seq[n]) ELSE upTo[n - 1]
<1> DEFINE places == PlacesOf(seq, set)
           upTo == PlacesUpTo(seq, places)
<1>1. /\ AtPlaces(seq, places) = upTo[Len(seq)]
      /\ upTo[0] = <<>>
      /\ \A n \in 1..Len(seq) :
           upTo[n] = IF n \in places THEN Append(upTo[n - 1], seq[n]) ELSE upTo[n - 1]
  <2> HIDE DEF places
  <2> QED
    BY AtPlacesDef
<1>2. \A n \in 1..Len(seq) : n \in places <=> seq[n] \in set
  BY DEF PlacesOf
<1> HIDE DEF places
<1>3. Only(seq, set) = AtPlaces(seq, places) /\ OnlyUpTo(seq, set) = upTo
  BY DEF Only, OnlyUpTo, places
<1> HIDE DEF upTo
<1> QED
  BY <1>1, <1>2, <1>3

\* Nothing is selected of nothing.
LEMMA OnlyEmpty ==
  ASSUME NEW set
  PROVE  Only(<<>>, set) = <<>>
<1>1. <<>> \in Seq({}) /\ Len(<<>>) = 0
  OBVIOUS
<1>2. Only(<<>>, set) = OnlyUpTo(<<>>, set)[Len(<<>>)] /\ OnlyUpTo(<<>>, set)[0] = <<>>
  <2>1. \A seq \in Seq({}) : Only(seq, set) = OnlyUpTo(seq, set)[Len(seq)] /\ OnlyUpTo(seq, set)[0] = <<>>
    BY OnlyDef
  <2> QED
    BY <1>1, <2>1
<1> QED
  BY <1>1, <1>2

\* What is selected of a list that is one longer.
LEMMA OnlyAppend ==
  ASSUME NEW E, NEW seq \in Seq(E), NEW e \in E, NEW set
  PROVE  Only(Append(seq, e), set) = IF e \in set THEN Append(Only(seq, set), e) ELSE Only(seq, set)
<1> DEFINE m == Len(seq)
           long == Append(seq, e)
           f == OnlyUpTo(seq, set)
           g == OnlyUpTo(long, set)
<1>1. m \in Nat /\ long \in Seq(E) /\ Len(long) = m + 1 /\ long[m + 1] = e
  OBVIOUS
<1>2. \A n \in 1..m : long[n] = seq[n]
  OBVIOUS
<1>3. /\ Only(seq, set) = f[m] /\ f[0] = <<>>
      /\ \A n \in 1..m : f[n] = IF seq[n] \in set THEN Append(f[n - 1], seq[n]) ELSE f[n - 1]
  BY OnlyDef
<1>4. /\ Only(long, set) = g[m + 1] /\ g[0] = <<>>
      /\ \A n \in 1..m + 1 : g[n] = IF long[n] \in set THEN Append(g[n - 1], long[n]) ELSE g[n - 1]
  <2> HIDE DEF long, m
  <2> QED
    BY <1>1, OnlyDef
<1> HIDE DEF f, g, long, m
<1>5. \A n \in 0..m : f[n] = g[n]
  <2>1. SameSteps(f, g, m)
    BY <1>1, <1>2, <1>3, <1>4 DEF SameSteps
  <2> QED
    BY <1>1, <1>3, <1>4, <2>1, RecursionUnique
<1>6. f[m] = g[m] /\ m + 1 \in 1..m + 1 /\ (m + 1) - 1 = m
  BY <1>1, <1>5
<1> QED
  BY <1>1, <1>3, <1>4, <1>6 DEF long

\* Induction over the lists, by their length.
LEMMA SeqInduction ==
  ASSUME NEW E, NEW S, <<>> \in S, \A s \in Seq(E), e \in E : s \in S => Append(s, e) \in S
  PROVE  \A s \in Seq(E) : s \in S
<1> DEFINE T == {n \in Nat : \A s \in Seq(E) : Len(s) = n => s \in S}
<1>1. 0 \in T
  <2>1. \A s \in Seq(E) : Len(s) = 0 => s = <<>>
    OBVIOUS
  <2> QED
    BY <2>1
<1>2. ASSUME NEW n \in Nat, n \in T PROVE n + 1 \in T
  <2> SUFFICES ASSUME NEW s \in Seq(E), Len(s) = n + 1 PROVE s \in S
    OBVIOUS
  <2> DEFINE t == SubSeq(s, 1, n)
  <2>1. t \in Seq(E) /\ Len(t) = n /\ s[n + 1] \in E
    OBVIOUS
  <2>2. s = Append(t, s[n + 1])
    OBVIOUS
  <2>3. t \in S
    BY <1>2, <2>1
  <2> HIDE DEF t
  <2> QED
    BY <2>1, <2>2, <2>3
<1>3. \A n \in Nat : n \in T
  <2> HIDE DEF T
  <2> QED
    BY <1>1, <1>2, Induction
<1> QED
  BY <1>3

\* What is selected are elements of the list that are in the set.
LEMMA OnlyType ==
  ASSUME NEW E, NEW seq \in Seq(E), NEW set
  PROVE  Only(seq, set) \in Seq(E) /\ Only(seq, set) \in Seq(E \cap set)
<1> DEFINE S == {s \in Seq(E) : Only(s, set) \in Seq(E) /\ Only(s, set) \in Seq(E \cap set)}
<1>1. <<>> \in S
  <2>1. <<>> \in Seq(E) /\ <<>> \in Seq(E \cap set) /\ Only(<<>>, set) = <<>>
    BY OnlyEmpty
  <2> QED
    BY <2>1
<1>2. ASSUME NEW s \in Seq(E), NEW e \in E, s \in S PROVE Append(s, e) \in S
  <2>1. Only(Append(s, e), set) = IF e \in set THEN Append(Only(s, set), e) ELSE Only(s, set)
    <3> HIDE DEF S
    <3> QED
      BY OnlyAppend
  <2>2. Append(s, e) \in Seq(E)
    OBVIOUS
  <2>3. Only(s, set) \in Seq(E) /\ Only(s, set) \in Seq(E \cap set)
    BY <1>2
  <2>4. Only(Append(s, e), set) \in Seq(E) /\ Only(Append(s, e), set) \in Seq(E \cap set)
    <3>1. CASE e \in set
      <4>1. e \in E \cap set
        BY <3>1
      <4>2. Append(Only(s, set), e) \in Seq(E) /\ Append(Only(s, set), e) \in Seq(E \cap set)
        <5> HIDE DEF S
        <5> QED
          BY <2>3, <4>1
      <4> HIDE DEF S
      <4> QED
        BY <2>1, <3>1, <4>2
    <3>2. CASE e \notin set
      BY <2>1, <2>3, <3>2
    <3> QED
      BY <3>1, <3>2
  <2> QED
    BY <2>2, <2>4
<1>3. \A s \in Seq(E) : s \in S
  <2> HIDE DEF S
  <2> QED
    BY <1>1, <1>2, SeqInduction
<1> QED
  BY <1>3

\* Two selections in a row.
LEMMA OnlyTwice ==
  ASSUME NEW E, NEW seq \in Seq(E), NEW one, NEW two
  PROVE  Only(Only(seq, one), two) = Only(seq, one \cap two)
<1> DEFINE S == {s \in Seq(E) : Only(Only(s, one), two) = Only(s, one \cap two)}
<1>1. <<>> \in S
  BY OnlyEmpty
<1>2. ASSUME NEW s \in Seq(E), NEW e \in E, s \in S PROVE Append(s, e) \in S
  <2>1. Only(Append(s, e), one) = IF e \in one THEN Append(Only(s, one), e) ELSE Only(s, one)
    <3> HIDE DEF S
    <3> QED
      BY OnlyAppend
  <2>2. Only(Append(s, e), one \cap two) = IF e \in one \cap two THEN Append(Only(s, one \cap two), e) ELSE Only(s, one \cap two)
    <3> HIDE DEF S
    <3> QED
      BY OnlyAppend
  <2>3. Only(Append(Only(s, one), e), two)
          = IF e \in two THEN Append(Only(Only(s, one), two), e) ELSE Only(Only(s, one), two)
    <3> HIDE DEF S
    <3>1. Only(s, one) \in Seq(E)
      BY OnlyType
    <3> QED
      BY <3>1, OnlyAppend
  <2>4. Append(s, e) \in Seq(E)
    OBVIOUS
  <2>5. Only(Only(s, one), two) = Only(s, one \cap two)
    BY <1>2
  <2>6. Only(Only(Append(s, e), one), two) = Only(Append(s, e), one \cap two)
    <3> HIDE DEF S
    <3>1. CASE e \in one /\ e \in two
      BY <2>1, <2>2, <2>3, <2>5, <3>1, Zenon
    <3>2. CASE e \in one /\ e \notin two
      BY <2>1, <2>2, <2>3, <2>5, <3>2, Zenon
    <3>3. CASE e \notin one
      BY <2>1, <2>2, <2>5, <3>3, Zenon
    <3> QED
      BY <3>1, <3>2, <3>3
  <2> QED
    BY <2>4, <2>6
<1>3. \A s \in Seq(E) : s \in S
  <2> HIDE DEF S
  <2> QED
    BY <1>1, <1>2, SeqInduction
<1> QED
  BY <1>3

\* Sets that agree on the elements select the same.
LEMMA OnlySame ==
  ASSUME NEW E, NEW seq \in Seq(E), NEW one, NEW two, \A e \in E : e \in one <=> e \in two
  PROVE  Only(seq, one) = Only(seq, two)
<1> DEFINE S == {s \in Seq(E) : Only(s, one) = Only(s, two)}
<1>1. <<>> \in S
  BY OnlyEmpty
<1>2. ASSUME NEW s \in Seq(E), NEW e \in E, s \in S PROVE Append(s, e) \in S
  <2>1. Only(Append(s, e), one) = IF e \in one THEN Append(Only(s, one), e) ELSE Only(s, one)
    <3> HIDE DEF S
    <3> QED
      BY OnlyAppend
  <2>2. Only(Append(s, e), two) = IF e \in two THEN Append(Only(s, two), e) ELSE Only(s, two)
    <3> HIDE DEF S
    <3> QED
      BY OnlyAppend
  <2>3. Append(s, e) \in Seq(E)
    OBVIOUS
  <2>4. Only(s, one) = Only(s, two)
    BY <1>2
  <2>5. Only(Append(s, e), one) = Only(Append(s, e), two)
    <3> HIDE DEF S
    <3> QED
      BY <2>1, <2>2, <2>4
  <2> QED
    BY <2>3, <2>5
<1>3. \A s \in Seq(E) : s \in S
  <2> HIDE DEF S
  <2> QED
    BY <1>1, <1>2, SeqInduction
<1> QED
  BY <1>3

\* What is selected of two lists, one behind the other.
LEMMA OnlyConcat ==
  ASSUME NEW E, NEW seq \in Seq(E), NEW set, NEW a \in Seq(E)
  PROVE  Only(a \o seq, set) = Only(a, set) \o Only(seq, set)
<1> DEFINE S == {s \in Seq(E) : Only(a \o s, set) = Only(a, set) \o Only(s, set)}
<1>1. <<>> \in S
  <2>1. Only(a, set) \in Seq(E)
    BY OnlyType
  <2>2. a \o <<>> = a /\ Only(a, set) \o <<>> = Only(a, set)
    BY <2>1
  <2>3. Only(<<>>, set) = <<>>
    BY OnlyEmpty
  <2>4. <<>> \in Seq(E)
    OBVIOUS
  <2> QED
    BY <2>2, <2>3, <2>4
<1>2. ASSUME NEW s \in Seq(E), NEW e \in E, s \in S PROVE Append(s, e) \in S
  <2>1. Only(Append(s, e), set) = IF e \in set THEN Append(Only(s, set), e) ELSE Only(s, set)
    <3> HIDE DEF S
    <3> QED
      BY OnlyAppend
  <2>2. a \o Append(s, e) = Append(a \o s, e) /\ a \o s \in Seq(E) /\ Append(s, e) \in Seq(E)
    OBVIOUS
  <2>3. Only(Append(a \o s, e), set) = IF e \in set THEN Append(Only(a \o s, set), e) ELSE Only(a \o s, set)
    <3> HIDE DEF S
    <3> QED
      BY <2>2, OnlyAppend
  <2>4. Only(a, set) \in Seq(E) /\ Only(s, set) \in Seq(E)
    <3> HIDE DEF S
    <3> QED
      BY OnlyType
  <2>5. Only(a, set) \o Append(Only(s, set), e) = Append(Only(a, set) \o Only(s, set), e)
    BY <2>4
  <2>6. Only(a \o s, set) = Only(a, set) \o Only(s, set)
    BY <1>2
  <2>7. Only(a \o Append(s, e), set) = Only(a, set) \o Only(Append(s, e), set)
    <3>1. CASE e \in set
      <4> HIDE DEF S
      <4> QED
        BY <2>1, <2>2, <2>3, <2>5, <2>6, <3>1, Zenon
    <3>2. CASE e \notin set
      <4> HIDE DEF S
      <4> QED
        BY <2>1, <2>2, <2>3, <2>6, <3>2, Zenon
    <3> QED
      BY <3>1, <3>2
  <2> QED
    BY <2>2, <2>7
<1>3. \A s \in Seq(E) : s \in S
  <2> HIDE DEF S
  <2> QED
    BY <1>1, <1>2, SeqInduction
<1> QED
  BY <1>3

\* All is selected.
LEMMA OnlyAll ==
  ASSUME NEW E, NEW seq \in Seq(E), NEW set, E \subseteq set
  PROVE  Only(seq, set) = seq
<1> DEFINE S == {s \in Seq(E) : Only(s, set) = s}
<1>1. <<>> \in S
  BY OnlyEmpty
<1>2. ASSUME NEW s \in Seq(E), NEW e \in E, s \in S PROVE Append(s, e) \in S
  <2>1. Only(Append(s, e), set) = IF e \in set THEN Append(Only(s, set), e) ELSE Only(s, set)
    <3> HIDE DEF S
    <3> QED
      BY OnlyAppend
  <2> QED
    BY <1>2, <2>1
<1>3. \A s \in Seq(E) : s \in S
  <2> HIDE DEF S
  <2> QED
    BY <1>1, <1>2, SeqInduction
<1> QED
  BY <1>3

\* None is selected.
LEMMA OnlyNone ==
  ASSUME NEW E, NEW seq \in Seq(E), NEW set, E \cap set = {}
  PROVE  Only(seq, set) = <<>>
<1> DEFINE S == {s \in Seq(E) : Only(s, set) = <<>>}
<1>1. <<>> \in S
  BY OnlyEmpty
<1>2. ASSUME NEW s \in Seq(E), NEW e \in E, s \in S PROVE Append(s, e) \in S
  <2>1. Only(Append(s, e), set) = IF e \in set THEN Append(Only(s, set), e) ELSE Only(s, set)
    <3> HIDE DEF S
    <3> QED
      BY OnlyAppend
  <2> QED
    BY <1>2, <2>1
<1>3. \A s \in Seq(E) : s \in S
  <2> HIDE DEF S
  <2> QED
    BY <1>1, <1>2, SeqInduction
<1> QED
  BY <1>3

\* What is selected of two lists that differ only where neither is selected.
LEMMA OnlyAlike ==
  ASSUME NEW E, NEW a \in Seq(E), NEW b \in Seq(E), NEW set, Len(a) = Len(b),
         \A n \in 1..Len(a) : a[n] = b[n] \/ (a[n] \notin set /\ b[n] \notin set)
  PROVE  Only(a, set) = Only(b, set)
<1> DEFINE m == Len(a)
           f == OnlyUpTo(a, set)
           g == OnlyUpTo(b, set)
<1>1. m \in Nat
  OBVIOUS
<1>6. \A n \in 1..m : a[n] = b[n] \/ (a[n] \notin set /\ b[n] \notin set)
  OBVIOUS
<1>2. /\ Only(a, set) = f[m] /\ f[0] = <<>>
      /\ \A n \in 1..m : f[n] = IF a[n] \in set THEN Append(f[n - 1], a[n]) ELSE f[n - 1]
  BY OnlyDef
<1>3. /\ Only(b, set) = g[m] /\ g[0] = <<>>
      /\ \A n \in 1..m : g[n] = IF b[n] \in set THEN Append(g[n - 1], b[n]) ELSE g[n - 1]
  BY OnlyDef
<1> HIDE DEF f, g, m
<1>4. SameSteps(f, g, m)
  BY <1>1, <1>2, <1>3, <1>6 DEF SameSteps
<1>5. \A n \in 0..m : f[n] = g[n]
  <2>1. f[0] = g[0]
    BY <1>2, <1>3
  <2> QED
    BY <1>1, <1>4, <2>1, RecursionUnique
<1> QED
  BY <1>1, <1>2, <1>3, <1>5

-----------------------------------------------------------------------------
(* Matcher groups, and what is the user's in them.                           *)

\* The function within HooksOf.
HooksUpTo(groups) ==
  CHOOSE upTo : upTo = [n \in 0..Len(groups) |-> IF n = 0 THEN <<>> ELSE upTo[n - 1] \o groups[n].hooks]

\* The recursion of HooksOf, unrolled.
LEMMA HooksOfDef ==
  ASSUME NEW groups \in Seq(Groups)
  PROVE  /\ HooksOf(groups) = HooksUpTo(groups)[Len(groups)]
         /\ HooksUpTo(groups)[0] = <<>>
         /\ \A n \in 1..Len(groups) : HooksUpTo(groups)[n] = HooksUpTo(groups)[n - 1] \o groups[n].hooks
<1> DEFINE m == Len(groups)
           Next(x, n) == x \o groups[n].hooks
           G == [p \in Seq(Hooks) \X (1..m) |-> Next(p[1], p[2])]
<1>1. m \in Nat /\ <<>> \in Seq(Hooks) /\ G \in [Seq(Hooks) \X (1..m) -> Seq(Hooks)]
  <2>1. ASSUME NEW p \in Seq(Hooks) \X (1..m) PROVE Next(p[1], p[2]) \in Seq(Hooks)
    <3>1. groups[p[2]] \in Groups
      OBVIOUS
    <3>2. groups[p[2]].hooks \in Seq(Hooks)
      BY <3>1 DEF Groups
    <3> QED
      BY <3>2
  <2> QED
    BY <2>1
<1>2. PICK f \in [0..m -> Seq(Hooks)] : Recurs(f, m, <<>>, G)
  <2> HIDE DEF m, G
  <2> QED
    BY <1>1, Recursion
<1>3. f = [n \in 0..m |-> IF n = 0 THEN <<>> ELSE Next(f[n - 1], n)]
  <2>1. ASSUME NEW n \in 1..m PROVE f[n] = Next(f[n - 1], n)
    <3>1. n - 1 \in 0..m
      BY <1>1
    <3>2. f[n - 1] \in Seq(Hooks)
      BY <3>1
    <3> QED
      BY <1>2, <3>2 DEF Recurs
  <2> HIDE DEF Next
  <2> QED
    BY <1>2, <2>1 DEF Recurs
<1> DEFINE upTo == HooksUpTo(groups)
<1>4. upTo = [n \in 0..m |-> IF n = 0 THEN <<>> ELSE Next(upTo[n - 1], n)]
  BY <1>3 DEF HooksUpTo
<1>5. HooksOf(groups) = upTo[m]
  BY DEF HooksOf, HooksUpTo
<1> HIDE DEF upTo
<1>6. upTo[0] = <<>> /\ \A n \in 1..m : upTo[n] = Next(upTo[n - 1], n)
  <2> HIDE DEF Next
  <2> QED
    BY <1>1, <1>4
<1> QED
  BY <1>5, <1>6 DEF upTo

\* The hooks of no groups.
LEMMA HooksOfEmpty == HooksOf(<<>>) = <<>>
<1>1. <<>> \in Seq(Groups) /\ Len(<<>>) = 0
  OBVIOUS
<1> QED
  BY <1>1, HooksOfDef

\* The hooks of one group more.
LEMMA HooksOfAppend ==
  ASSUME NEW groups \in Seq(Groups), NEW g \in Groups
  PROVE  HooksOf(Append(groups, g)) = HooksOf(groups) \o g.hooks
<1> DEFINE m == Len(groups)
           long == Append(groups, g)
           f == HooksUpTo(groups)
           h == HooksUpTo(long)
<1>1. m \in Nat /\ long \in Seq(Groups) /\ Len(long) = m + 1 /\ long[m + 1] = g
  OBVIOUS
<1>2. \A n \in 1..m : long[n] = groups[n]
  OBVIOUS
<1>3. HooksOf(groups) = f[m] /\ f[0] = <<>> /\ \A n \in 1..m : f[n] = f[n - 1] \o groups[n].hooks
  BY HooksOfDef
<1>4. HooksOf(long) = h[m + 1] /\ h[0] = <<>> /\ \A n \in 1..m + 1 : h[n] = h[n - 1] \o long[n].hooks
  <2> HIDE DEF long, m
  <2> QED
    BY <1>1, HooksOfDef
<1> HIDE DEF f, h, long, m
<1>5. \A n \in 0..m : f[n] = h[n]
  <2>1. SameSteps(f, h, m)
    <3> SUFFICES ASSUME NEW n \in 1..m, f[n - 1] = h[n - 1] PROVE f[n] = h[n]
      BY DEF SameSteps
    <3>1. f[n] = f[n - 1] \o groups[n].hooks /\ long[n] = groups[n]
      BY <1>2, <1>3
    <3>2. n \in 1..m + 1
      BY <1>1
    <3>3. h[n] = h[n - 1] \o long[n].hooks
      BY <1>4, <3>2
    <3> QED
      BY <3>1, <3>3
  <2> QED
    BY <1>1, <1>3, <1>4, <2>1, RecursionUnique
<1>6. f[m] = h[m] /\ m + 1 \in 1..m + 1 /\ (m + 1) - 1 = m
  BY <1>1, <1>5
<1> QED
  BY <1>1, <1>3, <1>4, <1>6 DEF long

\* The hooks of groups are hooks.
LEMMA HooksOfType ==
  ASSUME NEW groups \in Seq(Groups)
  PROVE  HooksOf(groups) \in Seq(Hooks)
<1> DEFINE S == {s \in Seq(Groups) : HooksOf(s) \in Seq(Hooks)}
<1>1. <<>> \in S
  <2>1. <<>> \in Seq(Groups) /\ <<>> \in Seq(Hooks) /\ HooksOf(<<>>) = <<>>
    BY HooksOfEmpty
  <2> QED
    BY <2>1
<1>2. ASSUME NEW s \in Seq(Groups), NEW g \in Groups, s \in S PROVE Append(s, g) \in S
  <2>1. HooksOf(Append(s, g)) = HooksOf(s) \o g.hooks
    BY HooksOfAppend
  <2>2. g.hooks \in Seq(Hooks)
    BY DEF Groups
  <2>3. HooksOf(s) \in Seq(Hooks)
    BY <1>2
  <2>4. HooksOf(Append(s, g)) \in Seq(Hooks) /\ Append(s, g) \in Seq(Groups)
    <3> HIDE DEF S
    <3> QED
      BY <2>1, <2>2, <2>3
  <2> QED
    BY <2>4
<1>3. \A s \in Seq(Groups) : s \in S
  <2> HIDE DEF S
  <2> QED
    BY <1>1, <1>2, SeqInduction
<1> QED
  BY <1>3

\* What is not thlibo's under a matcher.
With(matcher) == {g \in Groups : g.matcher = matcher}
UsersOf(groups, matcher) == Only(HooksOf(Only(groups, With(matcher))), UsersHooks)

\* What is the user's in one group more.
LEMMA UsersOfAppend ==
  ASSUME NEW groups \in Seq(Groups), NEW g \in Groups, NEW matcher
  PROVE  UsersOf(Append(groups, g), matcher)
           = IF g.matcher = matcher THEN UsersOf(groups, matcher) \o Only(g.hooks, UsersHooks)
             ELSE UsersOf(groups, matcher)
<1>1. Only(Append(groups, g), With(matcher))
        = IF g \in With(matcher) THEN Append(Only(groups, With(matcher)), g)
          ELSE Only(groups, With(matcher))
  BY OnlyAppend
<1>2. Only(groups, With(matcher)) \in Seq(Groups)
  BY OnlyType
<1>3. g \in With(matcher) <=> g.matcher = matcher
  BY DEF With
<1>4. CASE g.matcher = matcher
  <2>1. HooksOf(Only(Append(groups, g), With(matcher))) = HooksOf(Only(groups, With(matcher))) \o g.hooks
    BY <1>1, <1>2, <1>3, <1>4, HooksOfAppend
  <2>2. HooksOf(Only(groups, With(matcher))) \in Seq(Hooks) /\ g.hooks \in Seq(Hooks)
    BY <1>2, HooksOfType DEF Groups
  <2> QED
    BY <1>4, <2>1, <2>2, OnlyConcat DEF UsersOf
<1>5. CASE g.matcher # matcher
  BY <1>1, <1>3, <1>5 DEF UsersOf
<1> QED
  BY <1>4, <1>5

\* What is the user's are hooks.
LEMMA UsersOfType ==
  ASSUME NEW groups \in Seq(Groups), NEW matcher
  PROVE  UsersOf(groups, matcher) \in Seq(Hooks)
<1>1. HooksOf(Only(groups, With(matcher))) \in Seq(Hooks)
  BY OnlyType, HooksOfType
<1> QED
  BY <1>1, OnlyType DEF UsersOf

\* The groups with thlibo's hooks gone.
Stripped(groups) == [i \in DOMAIN groups |-> [groups[i] EXCEPT !.hooks = Only(@, UsersHooks)]]

\* The model's selections are these.
LEMMA Selected ==
  ASSUME NEW hooks \in Seq(Hooks)
  PROVE  /\ Select(hooks, IsUser) = Only(hooks, UsersHooks)
         /\ \A family : Select(hooks, LAMBDA h : h[1] # family) = Only(hooks, {h \in Hooks : h[1] # family})
         /\ \A family : Select(hooks, LAMBDA h : h[1] = family) = Only(hooks, {h \in Hooks : h[1] = family})
         /\ Select(hooks, LAMBDA l : l[2] = "user") = Only(hooks, {l \in Hooks : l[2] = "user"})
<1>1. \A i \in DOMAIN hooks : hooks[i] \in Hooks
  OBVIOUS
<1>2. {i \in DOMAIN hooks : IsUser(hooks[i])} = PlacesOf(hooks, UsersHooks)
  BY <1>1 DEF PlacesOf, UsersHooks
<1>3. \A family : {i \in DOMAIN hooks : hooks[i][1] # family} = PlacesOf(hooks, {h \in Hooks : h[1] # family})
  BY <1>1 DEF PlacesOf
<1>4. \A family : {i \in DOMAIN hooks : hooks[i][1] = family} = PlacesOf(hooks, {h \in Hooks : h[1] = family})
  BY <1>1 DEF PlacesOf
<1>5. {i \in DOMAIN hooks : hooks[i][2] = "user"} = PlacesOf(hooks, {l \in Hooks : l[2] = "user"})
  BY <1>1 DEF PlacesOf
<1> QED
  BY <1>2, <1>3, <1>4, <1>5 DEF Select, Only

\* The same of the selections of groups.
LEMMA GroupsSelected ==
  ASSUME NEW groups \in Seq(Groups)
  PROVE  /\ Select(groups, LAMBDA g : g.hooks # <<>>) = Only(groups, {g \in Groups : g.hooks # <<>>})
         /\ \A matcher : Select(groups, LAMBDA g : g.matcher = matcher) = Only(groups, With(matcher))
<1>1. \A i \in DOMAIN groups : groups[i] \in Groups
  OBVIOUS
<1>2. {i \in DOMAIN groups : groups[i].hooks # <<>>} = PlacesOf(groups, {g \in Groups : g.hooks # <<>>})
  BY <1>1 DEF PlacesOf
<1>3. \A matcher : {i \in DOMAIN groups : groups[i].matcher = matcher} = PlacesOf(groups, With(matcher))
  BY <1>1 DEF PlacesOf, With
<1> QED
  BY <1>2, <1>3 DEF Select, Only

\* Groups without thlibo's hooks are groups.
LEMMA StrippedType ==
  ASSUME NEW groups \in Seq(Groups)
  PROVE  /\ Stripped(groups) \in Seq(Groups) /\ Len(Stripped(groups)) = Len(groups)
         /\ \A i \in 1..Len(groups) :
              /\ Stripped(groups)[i] = [matcher |-> groups[i].matcher, hooks |-> Only(groups[i].hooks, UsersHooks)]
              /\ Stripped(groups)[i] \in Groups
<1>1. ASSUME NEW i \in 1..Len(groups)
      PROVE  /\ Stripped(groups)[i] = [matcher |-> groups[i].matcher, hooks |-> Only(groups[i].hooks, UsersHooks)]
             /\ Stripped(groups)[i] \in Groups
  <2>1. groups[i] \in Groups /\ i \in DOMAIN groups
    OBVIOUS
  <2>2. groups[i].hooks \in Seq(Hooks) /\ groups[i].matcher \in Names
    BY <2>1 DEF Groups
  <2>3. Only(groups[i].hooks, UsersHooks) \in Seq(Hooks)
    BY <2>2, OnlyType
  <2>4. Stripped(groups)[i] = [groups[i] EXCEPT !.hooks = Only(groups[i].hooks, UsersHooks)]
    BY <2>1 DEF Stripped
  <2>5. [groups[i] EXCEPT !.hooks = Only(groups[i].hooks, UsersHooks)]
          = [matcher |-> groups[i].matcher, hooks |-> Only(groups[i].hooks, UsersHooks)]
    BY <2>1 DEF Groups
  <2> QED
    BY <2>2, <2>3, <2>4, <2>5 DEF Groups
<1>2. DOMAIN Stripped(groups) = 1..Len(groups)
  BY DEF Stripped
<1>3. Stripped(groups) = [i \in 1..Len(groups) |-> Stripped(groups)[i]]
  BY DEF Stripped
<1>4. Stripped(groups) \in [1..Len(groups) -> Groups]
  BY <1>1, <1>3
<1> QED
  BY <1>1, <1>2, <1>4

\* One group more, without thlibo's hooks.
LEMMA StrippedAppend ==
  ASSUME NEW groups \in Seq(Groups), NEW g \in Groups
  PROVE  /\ [matcher |-> g.matcher, hooks |-> Only(g.hooks, UsersHooks)] \in Groups
         /\ Stripped(Append(groups, g))
              = Append(Stripped(groups), [matcher |-> g.matcher, hooks |-> Only(g.hooks, UsersHooks)])
<1> DEFINE long == Append(groups, g)
           last == [matcher |-> g.matcher, hooks |-> Only(g.hooks, UsersHooks)]
           m == Len(groups)
<1>1. long \in Seq(Groups) /\ Len(long) = m + 1 /\ m \in Nat /\ long[m + 1] = g
      /\ \A i \in 1..m : long[i] = groups[i]
  OBVIOUS
<1>2. /\ Stripped(long) \in Seq(Groups) /\ Len(Stripped(long)) = m + 1
      /\ \A i \in 1..m + 1 :
           /\ Stripped(long)[i] = [matcher |-> long[i].matcher, hooks |-> Only(long[i].hooks, UsersHooks)]
           /\ Stripped(long)[i] \in Groups
  BY <1>1, StrippedType
<1>3. /\ Stripped(groups) \in Seq(Groups) /\ Len(Stripped(groups)) = m
      /\ \A i \in 1..m :
           Stripped(groups)[i] = [matcher |-> groups[i].matcher, hooks |-> Only(groups[i].hooks, UsersHooks)]
  BY StrippedType
<1>4. m + 1 \in 1..m + 1 /\ \A i \in 1..m + 1 : i = m + 1 \/ i \in 1..m
  BY <1>1
<1> HIDE DEF long, m
<1>5. last \in Groups
  BY <1>1, <1>2, <1>4
<1>6. \A i \in 1..m + 1 : Stripped(long)[i] = Append(Stripped(groups), last)[i]
  <2> SUFFICES ASSUME NEW i \in 1..m + 1 PROVE Stripped(long)[i] = Append(Stripped(groups), last)[i]
    OBVIOUS
  <2> HIDE DEF last
  <2>1. CASE i = m + 1
    BY <1>1, <1>2, <1>3, <1>4, <2>1 DEF last
  <2>2. CASE i \in 1..m
    <3>1. Append(Stripped(groups), last)[i] = Stripped(groups)[i]
      BY <1>1, <1>3, <1>5, <2>2
    <3> QED
      BY <1>1, <1>2, <1>3, <2>2, <3>1
  <2> QED
    BY <1>4, <2>1, <2>2
<1>7. Append(Stripped(groups), last) \in Seq(Groups) /\ Len(Append(Stripped(groups), last)) = m + 1
  <2> HIDE DEF last
  <2> QED
    BY <1>3, <1>5
<1>8. Stripped(long) = Append(Stripped(groups), last)
  <2> HIDE DEF last
  <2> QED
    BY <1>2, <1>6, <1>7, SeqEqual
<1> QED
  BY <1>5, <1>8 DEF long

\* With thlibo's hooks gone, what is the user's is what it was.
LEMMA UsersOfStripped ==
  ASSUME NEW groups \in Seq(Groups), NEW matcher
  PROVE  UsersOf(Stripped(groups), matcher) = UsersOf(groups, matcher)
<1> DEFINE S == {s \in Seq(Groups) : UsersOf(Stripped(s), matcher) = UsersOf(s, matcher)}
<1>1. <<>> \in S
  <2>1. Stripped(<<>>) = <<>>
    BY DEF Stripped
  <2> QED
    BY <2>1
<1>2. ASSUME NEW s \in Seq(Groups), NEW g \in Groups, s \in S PROVE Append(s, g) \in S
  <2> DEFINE last == [matcher |-> g.matcher, hooks |-> Only(g.hooks, UsersHooks)]
  <2>1. UsersOf(Stripped(s), matcher) = UsersOf(s, matcher)
    BY <1>2
  <2>2. Append(s, g) \in Seq(Groups)
    OBVIOUS
  <2> HIDE DEF S
  <2>3. Stripped(s) \in Seq(Groups) /\ last \in Groups /\ Stripped(Append(s, g)) = Append(Stripped(s), last)
    BY StrippedType, StrippedAppend
  <2>4. Only(last.hooks, UsersHooks) = Only(g.hooks, UsersHooks) /\ last.matcher = g.matcher
    <3>1. g.hooks \in Seq(Hooks)
      BY DEF Groups
    <3>2. Only(Only(g.hooks, UsersHooks), UsersHooks) = Only(g.hooks, UsersHooks \cap UsersHooks)
      BY <3>1, OnlyTwice
    <3>3. UsersHooks \cap UsersHooks = UsersHooks
      OBVIOUS
    <3> QED
      BY <3>2, <3>3
  <2> HIDE DEF last
  <2>5. UsersOf(Append(Stripped(s), last), matcher)
          = IF last.matcher = matcher THEN UsersOf(Stripped(s), matcher) \o Only(last.hooks, UsersHooks)
            ELSE UsersOf(Stripped(s), matcher)
    BY <2>3, UsersOfAppend
  <2>6. UsersOf(Append(s, g), matcher)
          = IF g.matcher = matcher THEN UsersOf(s, matcher) \o Only(g.hooks, UsersHooks)
            ELSE UsersOf(s, matcher)
    BY UsersOfAppend
  <2>7. UsersOf(Stripped(Append(s, g)), matcher) = UsersOf(Append(s, g), matcher)
    BY <2>1, <2>3, <2>4, <2>5, <2>6
  <2> QED
    BY <2>2, <2>7 DEF S
<1>3. \A s \in Seq(Groups) : s \in S
  <2> HIDE DEF S
  <2> QED
    BY <1>1, <1>2, SeqInduction
<1> QED
  BY <1>3

\* A list of groups with the same matchers and the same hooks of the user's.
LEMMA UsersOfAlike ==
  ASSUME NEW a \in Seq(Groups), NEW b \in Seq(Groups), NEW matcher, Len(a) = Len(b),
         \A i \in 1..Len(a) : /\ a[i].matcher = b[i].matcher
                              /\ Only(a[i].hooks, UsersHooks) = Only(b[i].hooks, UsersHooks)
  PROVE  UsersOf(a, matcher) = UsersOf(b, matcher)
<1>1. Stripped(a) = Stripped(b)
  <2>1. /\ Stripped(a) \in Seq(Groups) /\ Len(Stripped(a)) = Len(a)
        /\ \A i \in 1..Len(a) :
             Stripped(a)[i] = [matcher |-> a[i].matcher, hooks |-> Only(a[i].hooks, UsersHooks)]
    BY StrippedType
  <2>2. /\ Stripped(b) \in Seq(Groups) /\ Len(Stripped(b)) = Len(b)
        /\ \A i \in 1..Len(b) :
             Stripped(b)[i] = [matcher |-> b[i].matcher, hooks |-> Only(b[i].hooks, UsersHooks)]
    BY StrippedType
  <2>3. \A i \in 1..Len(a) : Stripped(a)[i] = Stripped(b)[i]
    BY <2>1, <2>2
  <2> QED
    BY <2>1, <2>2, <2>3, SeqEqual
<1>2. UsersOf(Stripped(a), matcher) = UsersOf(a, matcher) /\ UsersOf(Stripped(b), matcher) = UsersOf(b, matcher)
  BY UsersOfStripped
<1> QED
  BY <1>1, <1>2

\* Groups that hold hooks.
Filled == {g \in Groups : g.hooks # <<>>}

\* With the empty groups gone, too.
LEMMA UsersOfFilled ==
  ASSUME NEW groups \in Seq(Groups), NEW matcher
  PROVE  UsersOf(Only(groups, Filled), matcher) = UsersOf(groups, matcher)
<1> DEFINE S == {s \in Seq(Groups) : UsersOf(Only(s, Filled), matcher) = UsersOf(s, matcher)}
<1>1. <<>> \in S
  <2>1. Only(<<>>, Filled) = <<>>
    BY OnlyEmpty
  <2> QED
    BY <2>1
<1>2. ASSUME NEW s \in Seq(Groups), NEW g \in Groups, s \in S PROVE Append(s, g) \in S
  <2>1. UsersOf(Only(s, Filled), matcher) = UsersOf(s, matcher)
    BY <1>2
  <2>2. Append(s, g) \in Seq(Groups)
    OBVIOUS
  <2> HIDE DEF S
  <2>3. Only(Append(s, g), Filled) = IF g \in Filled THEN Append(Only(s, Filled), g) ELSE Only(s, Filled)
    BY OnlyAppend
  <2>4. Only(s, Filled) \in Seq(Groups)
    BY OnlyType
  <2>5. UsersOf(Append(s, g), matcher)
          = IF g.matcher = matcher THEN UsersOf(s, matcher) \o Only(g.hooks, UsersHooks)
            ELSE UsersOf(s, matcher)
    BY UsersOfAppend
  <2>6. UsersOf(Append(Only(s, Filled), g), matcher)
          = IF g.matcher = matcher THEN UsersOf(Only(s, Filled), matcher) \o Only(g.hooks, UsersHooks)
            ELSE UsersOf(Only(s, Filled), matcher)
    BY <2>4, UsersOfAppend
  <2>7. CASE g \in Filled
    <3>1. UsersOf(Append(Only(s, Filled), g), matcher) = UsersOf(Append(s, g), matcher)
      BY <2>1, <2>5, <2>6
    <3> QED
      BY <2>2, <2>3, <2>7, <3>1 DEF S
  <2>8. CASE g \notin Filled
    <3>1. g.hooks = <<>>
      BY <2>8 DEF Filled
    <3>2. Only(g.hooks, UsersHooks) = <<>>
      BY <3>1, OnlyEmpty
    <3>3. UsersOf(s, matcher) \o <<>> = UsersOf(s, matcher)
      <4>1. UsersOf(s, matcher) \in Seq(Hooks)
        BY UsersOfType
      <4> QED
        BY <4>1
    <3>4. UsersOf(Append(s, g), matcher) = UsersOf(s, matcher)
      BY <2>5, <3>2, <3>3
    <3> QED
      BY <2>1, <2>2, <2>3, <2>8, <3>4 DEF S
  <2> QED
    BY <2>7, <2>8
<1>3. \A s \in Seq(Groups) : s \in S
  <2> HIDE DEF S
  <2> QED
    BY <1>1, <1>2, SeqInduction
<1> QED
  BY <1>3

\* removePreToolUseHooks and RemoveStaleHooksJSON.
LEMMA WithoutOursKeeps ==
  ASSUME NEW groups \in Seq(Groups)
  PROVE  /\ WithoutOurs(groups) \in Seq(Groups)
         /\ \A matcher : UsersOf(WithoutOurs(groups), matcher) = UsersOf(groups, matcher)
<1>2. Stripped(groups) \in Seq(Groups)
  BY StrippedType
<1>1. WithoutOurs(groups) = Only(Stripped(groups), Filled)
  <2>1. \A i \in DOMAIN groups : Select(groups[i].hooks, IsUser) = Only(groups[i].hooks, UsersHooks)
    <3> SUFFICES ASSUME NEW i \in DOMAIN groups
                 PROVE  Select(groups[i].hooks, IsUser) = Only(groups[i].hooks, UsersHooks)
      OBVIOUS
    <3>1. groups[i] \in Groups
      OBVIOUS
    <3>2. groups[i].hooks \in Seq(Hooks)
      BY <3>1 DEF Groups
    <3> QED
      BY <3>2, Selected
  <2>2. [i \in DOMAIN groups |-> [groups[i] EXCEPT !.hooks = Select(groups[i].hooks, IsUser)]] = Stripped(groups)
    BY <2>1 DEF Stripped
  <2>3. Select(Stripped(groups), LAMBDA g : g.hooks # <<>>) = Only(Stripped(groups), Filled)
    BY <1>2, GroupsSelected DEF Filled
  <2>4. WithoutOurs(groups)
          = Select([i \in DOMAIN groups |-> [groups[i] EXCEPT !.hooks = Select(groups[i].hooks, IsUser)]],
                   LAMBDA g : g.hooks # <<>>)
    BY DEF WithoutOurs
  <2> QED
    BY <2>2, <2>3, <2>4
<1>3. Only(Stripped(groups), Filled) \in Seq(Groups)
  BY <1>2, OnlyType
<1>4. ASSUME NEW matcher
      PROVE  UsersOf(Only(Stripped(groups), Filled), matcher) = UsersOf(groups, matcher)
  BY <1>2, UsersOfFilled, UsersOfStripped
<1> QED
  BY <1>1, <1>3, <1>4

-----------------------------------------------------------------------------
(* Merging into groups: Claude Code and Codex' hooks.json.                   *)

\* The least of a set of numbers.
LEMMA MinOf ==
  ASSUME NEW I, I \subseteq Nat, I # {}
  PROVE  Min(I) \in I /\ \A i \in I : Min(I) <= i
<1>1. \E i \in I : \A j \in I : i <= j
  <2> SUFFICES ASSUME \A i \in I : \E j \in I : ~(i <= j) PROVE FALSE
    OBVIOUS
  <2> DEFINE S == {n \in Nat : \A i \in 0..n : i \notin I}
  <2>1. 0 \in S
    <3>1. 0 \notin I
      <4> SUFFICES ASSUME 0 \in I PROVE FALSE
        OBVIOUS
      <4>1. PICK j \in I : ~(0 <= j)
        OBVIOUS
      <4> QED
        BY <4>1
    <3> QED
      BY <3>1
  <2>2. ASSUME NEW n \in Nat, n \in S PROVE n + 1 \in S
    <3>1. n + 1 \notin I
      <4> SUFFICES ASSUME n + 1 \in I PROVE FALSE
        OBVIOUS
      <4>1. PICK j \in I : ~(n + 1 <= j)
        OBVIOUS
      <4>2. j \in 0..n
        BY <4>1
      <4> QED
        BY <2>2, <4>2
    <3> QED
      BY <2>2, <3>1
  <2>3. \A n \in Nat : n \in S
    <3> HIDE DEF S
    <3> QED
      BY <2>1, <2>2, Induction
  <2>4. \A n \in Nat : n \notin I
    BY <2>3
  <2> QED
    BY <2>4
<1> QED
  BY <1>1 DEF Min

\* One element that is not the user's, wherever it stands.
LEMMA OnlyOne ==
  ASSUME NEW E, NEW x \in E, NEW set, x \notin set
  PROVE  Only(<<x>>, set) = <<>>
<1>1. <<x>> = Append(<<>>, x) /\ <<>> \in Seq(E)
  OBVIOUS
<1>2. \A s \in Seq(E) : Only(Append(s, x), set) = Only(s, set)
  BY OnlyAppend
<1>3. Only(Append(<<>>, x), set) = Only(<<>>, set)
  BY <1>1, <1>2
<1> QED
  BY <1>1, <1>3, OnlyEmpty

\* A list with x in the middle.
Around(a, x, c) == a \o <<x>> \o c

\* An element that is not selected, in the middle.
LEMMA OnlyAround ==
  ASSUME NEW E, NEW a \in Seq(E), NEW x \in E, NEW y \in E, NEW c \in Seq(E), NEW d \in Seq(E),
         NEW set, x \notin set, y \notin set, Only(c, set) = Only(d, set)
  PROVE  Around(a, x, c) \in Seq(E) /\ Only(Around(a, x, c), set) = Only(Around(a, y, d), set)
<1>1. ASSUME NEW z \in E, NEW e \in Seq(E), z \notin set
      PROVE  /\ Around(a, z, e) \in Seq(E)
             /\ Only(Around(a, z, e), set) = Only(a, set) \o Only(e, set)
  <2> DEFINE b == <<z>>
  <2>1. b \in Seq(E) /\ Only(b, set) = <<>>
    BY <1>1, OnlyOne
  <2> HIDE DEF b
  <2>2. a \o b \in Seq(E)
    BY <2>1
  <2>3. Only((a \o b) \o e, set) = Only(a \o b, set) \o Only(e, set)
    BY <2>2, OnlyConcat
  <2>4. Only(a \o b, set) = Only(a, set) \o Only(b, set)
    BY <2>1, OnlyConcat
  <2>5. Only(a, set) \o <<>> = Only(a, set)
    <3>1. Only(a, set) \in Seq(E)
      BY OnlyType
    <3> QED
      BY <3>1
  <2>6. (a \o b) \o e \in Seq(E)
    BY <2>2
  <2>7. Around(a, z, e) = (a \o b) \o e
    BY DEF Around, b
  <2> QED
    BY <2>1, <2>3, <2>4, <2>5, <2>6, <2>7
<1> QED
  BY <1>1

\* A list, taken apart at one of its elements.
LEMMA SplitAt ==
  ASSUME NEW E, NEW s \in Seq(E), NEW k \in 1..Len(s)
  PROVE  /\ SubSeq(s, 1, k - 1) \in Seq(E) /\ SubSeq(s, k + 1, Len(s)) \in Seq(E) /\ s[k] \in E
         /\ s = Around(SubSeq(s, 1, k - 1), s[k], SubSeq(s, k + 1, Len(s)))
<1> DEFINE a == SubSeq(s, 1, k - 1)
           c == SubSeq(s, k + 1, Len(s))
           t == a \o <<s[k]>> \o c
<1>1. a \in Seq(E) /\ c \in Seq(E) /\ s[k] \in E /\ Len(a) = k - 1 /\ Len(c) = Len(s) - k
      /\ (\A i \in 1..k - 1 : a[i] = s[i]) /\ (\A i \in 1..Len(s) - k : c[i] = s[k + i])
  OBVIOUS
<1> HIDE DEF a, c
<1>2. t \in Seq(E) /\ Len(t) = Len(s)
  BY <1>1
<1>3. ASSUME NEW i \in 1..Len(s) PROVE t[i] = s[i]
  <2> DEFINE d == a \o <<s[k]>>
  <2>1. d \in Seq(E) /\ Len(d) = k /\ d[k] = s[k] /\ \A j \in 1..k - 1 : d[j] = s[j]
    BY <1>1
  <2>2. t = d \o c
    OBVIOUS
  <2> HIDE DEF d, t
  <2>3. CASE i <= k
    <3>1. t[i] = d[i]
      BY <1>1, <2>1, <2>2, <2>3
    <3> QED
      BY <2>1, <2>3, <3>1
  <2>4. CASE i > k
    <3>1. i - k \in 1..Len(s) - k /\ k + (i - k) = i
      BY <2>4
    <3>2. c[i - k] = s[i]
      BY <1>1, <3>1
    <3>3. t[i] = c[i - k]
      <4>1. Len(d \o c) = Len(d) + Len(c)
            /\ \A j \in 1..Len(d) + Len(c) : (d \o c)[j] = IF j <= Len(d) THEN d[j] ELSE c[j - Len(d)]
        BY <1>1, <2>1, ConcatProperties
      <4>2. i \in 1..Len(d) + Len(c)
        BY <1>1, <2>1
      <4> QED
        BY <2>1, <2>2, <2>4, <4>1, <4>2
    <3> QED
      BY <3>2, <3>3
  <2> QED
    BY <2>3, <2>4
<1>4. t = s
  <2> HIDE DEF t
  <2> QED
    BY <1>2, <1>3, SeqEqual
<1> QED
  BY <1>1, <1>4 DEF a, c, Around

\* What SelectInSeq returns of the places that are meant.
LEMMA FirstPlace ==
  ASSUME NEW n \in Nat, NEW I, I \subseteq 1..n, I # {}
  PROVE  Min(I) \in I /\ Min(I) \in 1..n /\ Min(I) # 0
<1>1. I \subseteq Nat
  OBVIOUS
<1>2. Min(I) \in I
  BY <1>1, MinOf
<1>3. Min(I) \in 1..n
  BY <1>2
<1>4. \A k \in 1..n : k # 0
  OBVIOUS
<1> QED
  BY <1>2, <1>3, <1>4

\* addPreToolUseHook's splice: further hooks of the family go, the user's stay.
LEMMA PlacedKeeps ==
  ASSUME NEW hooks \in Seq(Hooks), NEW hook \in Hooks, ~IsUser(hook)
  PROVE  Placed(hooks, hook) \in Seq(Hooks) /\ Only(Placed(hooks, hook), UsersHooks) = Only(hooks, UsersHooks)
<1> DEFINE I == {i \in 1..Len(hooks) : hooks[i][1] = hook[1]}
           others == {h \in Hooks : h[1] # hook[1]}
           k == Min(I)
           before == SubSeq(hooks, 1, k - 1)
           after == SubSeq(hooks, k + 1, Len(hooks))
<1>1. Placed(hooks, hook) = IF I = {} THEN Append(hooks, hook)
                            ELSE IF k = 0 THEN Append(hooks, hook)
                            ELSE Around(before, hook, Only(after, others))
  <2>1. Select(after, LAMBDA h : h[1] # hook[1]) = Only(after, others) \/ I = {} \/ k = 0
    <3>1. CASE I # {}
      <4>1. I \subseteq 1..Len(hooks) /\ Len(hooks) \in Nat
        OBVIOUS
      <4>2. k \in 1..Len(hooks)
        <5> HIDE DEF I
        <5> QED
          BY <3>1, <4>1, FirstPlace
      <4> HIDE DEF k, I
      <4>3. after \in Seq(Hooks)
        BY <4>2, SplitAt
      <4> HIDE DEF after
      <4> QED
        BY <4>3, Selected
    <3> QED
      BY <3>1
  <2>2. Placed(hooks, hook) = IF I = {} THEN Append(hooks, hook)
                              ELSE IF k = 0 THEN Append(hooks, hook)
                              ELSE Around(before, hook, Select(after, LAMBDA h : h[1] # hook[1]))
    BY DEF Placed, SelectInSeq, Around
  <2> HIDE DEF I, k, before, after, others
  <2> QED
    BY <2>1, <2>2
<1>2. hook \notin UsersHooks
  BY DEF UsersHooks
<1>3. CASE I = {}
  BY <1>1, <1>2, <1>3, OnlyAppend
<1>4. CASE I # {}
  <2>1. k \in 1..Len(hooks) /\ k # 0 /\ hooks[k][1] = hook[1]
    <3>1. I \subseteq 1..Len(hooks) /\ Len(hooks) \in Nat
      OBVIOUS
    <3>2. k \in I /\ k \in 1..Len(hooks) /\ k # 0
      <4> HIDE DEF I
      <4> QED
        BY <1>4, <3>1, FirstPlace
    <3> HIDE DEF k
    <3> QED
      BY <3>2
  <2>2. Placed(hooks, hook) = Around(before, hook, Only(after, others))
    BY <1>1, <1>4, <2>1
  <2> HIDE DEF k, I
  <2>3. before \in Seq(Hooks) /\ after \in Seq(Hooks) /\ hooks[k] \in Hooks
        /\ hooks = Around(before, hooks[k], after)
    BY <2>1, SplitAt
  <2>4. hooks[k] \notin UsersHooks
    BY <2>1 DEF UsersHooks, IsUser
  <2> DEFINE x == hooks[k]
             rest == Only(after, others)
  <2>5. rest \in Seq(Hooks) /\ Only(rest, UsersHooks) = Only(after, UsersHooks)
    <3> HIDE DEF before, after
    <3>1. Only(Only(after, others), UsersHooks) = Only(after, others \cap UsersHooks)
      <4> HIDE DEF others
      <4> QED
        BY <2>3, OnlyTwice
    <3>2. \A h \in Hooks : h \in others \cap UsersHooks <=> h \in UsersHooks
      BY DEF UsersHooks, IsUser
    <3> HIDE DEF others
    <3>3. Only(after, others \cap UsersHooks) = Only(after, UsersHooks)
      BY <2>3, <3>2, OnlySame
    <3>4. Only(after, others) \in Seq(Hooks)
      BY <2>3, OnlyType
    <3> QED
      BY <3>1, <3>3, <3>4
  <2>6. before \in Seq(Hooks) /\ after \in Seq(Hooks) /\ x \in Hooks /\ x \notin UsersHooks
    BY <2>3, <2>4
  <2> HIDE DEF before, after, x, rest
  <2>7. /\ Around(before, hook, rest) \in Seq(Hooks)
        /\ Only(Around(before, hook, rest), UsersHooks) = Only(Around(before, x, after), UsersHooks)
    BY <1>2, <2>5, <2>6, OnlyAround
  <2> QED
    BY <2>2, <2>3, <2>7 DEF rest, x
<1> QED
  BY <1>3, <1>4

\* Nothing of the user's behind what is the user's.
LEMMA ConcatNothing ==
  ASSUME NEW groups \in Seq(Groups), NEW matcher
  PROVE  UsersOf(groups, matcher) \o <<>> = UsersOf(groups, matcher)
<1>1. UsersOf(groups, matcher) \in Seq(Hooks)
  BY UsersOfType
<1> QED
  BY <1>1

\* A new group of thlibo's own.
LEMMA NewGroupKeeps ==
  ASSUME NEW groups \in Seq(Groups), NEW hook \in Hooks, ~IsUser(hook), NEW matcher \in Names
  PROVE  /\ Append(groups, [matcher |-> matcher, hooks |-> <<hook>>]) \in Seq(Groups)
         /\ \A m : UsersOf(Append(groups, [matcher |-> matcher, hooks |-> <<hook>>]), m) = UsersOf(groups, m)
<1> DEFINE g == [matcher |-> matcher, hooks |-> <<hook>>]
<1>1. g \in Groups /\ g.hooks = <<hook>>
  BY DEF Groups
<1>2. Only(g.hooks, UsersHooks) = <<>>
  <2>1. hook \notin UsersHooks
    BY DEF UsersHooks
  <2> QED
    BY <1>1, <2>1, OnlyOne
<1> HIDE DEF g
<1>3. \A m : UsersOf(Append(groups, g), m) = UsersOf(groups, m)
  <2> SUFFICES ASSUME NEW m PROVE UsersOf(Append(groups, g), m) = UsersOf(groups, m)
    OBVIOUS
  <2>1. UsersOf(Append(groups, g), m)
          = IF g.matcher = m THEN UsersOf(groups, m) \o Only(g.hooks, UsersHooks) ELSE UsersOf(groups, m)
    BY <1>1, UsersOfAppend
  <2>2. UsersOf(groups, m) \o <<>> = UsersOf(groups, m)
    BY ConcatNothing
  <2> QED
    BY <1>2, <2>1, <2>2
<1>4. Append(groups, g) \in Seq(Groups)
  BY <1>1
<1> QED
  BY <1>3, <1>4 DEF g

\* Other hooks in one of the groups, the user's among them as they were.
LEMMA ChangedGroupKeeps ==
  ASSUME NEW groups \in Seq(Groups), NEW i \in 1..Len(groups), NEW hooks \in Seq(Hooks),
         Only(hooks, UsersHooks) = Only(groups[i].hooks, UsersHooks)
  PROVE  /\ [groups EXCEPT ![i].hooks = hooks] \in Seq(Groups)
         /\ \A m : UsersOf([groups EXCEPT ![i].hooks = hooks], m) = UsersOf(groups, m)
<1> DEFINE new == [groups EXCEPT ![i].hooks = hooks]
<1>1. new \in Seq(Groups) /\ Len(new) = Len(groups)
  <2>1. groups[i] \in Groups
    OBVIOUS
  <2>2. [groups[i] EXCEPT !.hooks = hooks] \in Groups
    BY <2>1 DEF Groups
  <2> QED
    BY <2>2
<1>2. \A j \in 1..Len(groups) :
        /\ new[j].matcher = groups[j].matcher
        /\ Only(new[j].hooks, UsersHooks) = Only(groups[j].hooks, UsersHooks)
  <2> SUFFICES ASSUME NEW j \in 1..Len(groups)
               PROVE  /\ new[j].matcher = groups[j].matcher
                      /\ Only(new[j].hooks, UsersHooks) = Only(groups[j].hooks, UsersHooks)
    OBVIOUS
  <2>1. CASE j # i
    <3>1. new[j] = groups[j]
      BY <2>1
    <3> QED
      BY <3>1
  <2>2. CASE j = i
    <3>1. new[j] = [groups[i] EXCEPT !.hooks = hooks] /\ groups[i] \in Groups
      BY <2>2
    <3>2. new[j].matcher = groups[i].matcher /\ new[j].hooks = hooks
      BY <3>1 DEF Groups
    <3> QED
      BY <2>2, <3>2
  <2> QED
    BY <2>1, <2>2
<1> HIDE DEF new
<1>3. \A m : UsersOf(new, m) = UsersOf(groups, m)
  BY <1>1, <1>2, UsersOfAlike
<1> QED
  BY <1>1, <1>3 DEF new

\* addPreToolUseHook, wherever the hook goes.
LEMMA AddKeeps ==
  ASSUME NEW groups \in Seq(Groups), NEW hook \in Hooks, ~IsUser(hook), NEW matcher \in Names
  PROVE  /\ AddPreToolUseHook(groups, matcher, hook) \in Seq(Groups)
         /\ \A m : UsersOf(AddPreToolUseHook(groups, matcher, hook), m) = UsersOf(groups, m)
<1> DEFINE I == {i \in 1..Len(groups) : groups[i].matcher = matcher}
           k == Min(I)
<1>1. CASE I = {}
  <2>1. AddPreToolUseHook(groups, matcher, hook) = Append(groups, [matcher |-> matcher, hooks |-> <<hook>>])
    BY <1>1 DEF AddPreToolUseHook, SelectInSeq
  <2> QED
    BY <2>1, NewGroupKeeps
<1>2. CASE I # {}
  <2>1. k \in 1..Len(groups) /\ k # 0
    <3>1. I \subseteq 1..Len(groups) /\ Len(groups) \in Nat
      OBVIOUS
    <3> HIDE DEF I
    <3> QED
      BY <1>2, <3>1, FirstPlace
  <2>2. AddPreToolUseHook(groups, matcher, hook) = [groups EXCEPT ![k].hooks = Placed(groups[k].hooks, hook)]
    BY <1>2, <2>1 DEF AddPreToolUseHook, SelectInSeq
  <2> HIDE DEF k, I
  <2>3. groups[k].hooks \in Seq(Hooks)
    <3>1. groups[k] \in Groups
      BY <2>1
    <3> QED
      BY <3>1 DEF Groups
  <2> DEFINE new == Placed(groups[k].hooks, hook)
  <2>4. new \in Seq(Hooks) /\ Only(new, UsersHooks) = Only(groups[k].hooks, UsersHooks)
    BY <2>3, PlacedKeeps
  <2> HIDE DEF new
  <2>5. /\ [groups EXCEPT ![k].hooks = new] \in Seq(Groups)
        /\ \A m : UsersOf([groups EXCEPT ![k].hooks = new], m) = UsersOf(groups, m)
    BY <2>1, <2>4, ChangedGroupKeeps
  <2> QED
    BY <2>2, <2>5 DEF new
<1> QED
  BY <1>1, <1>2

\* The hook that MergeSettingsAll comes to next.
AddNext(groups, windows, n) == AddPreToolUseHook(groups, Registered[n][1], <<Registered[n][2], Variant(windows)>>)

\* The function within MergeSettingsAll.
MergedUpTo(groups, windows) ==
  CHOOSE upTo : upTo = [n \in 0..Len(Registered) |->
    IF n = 0 THEN groups ELSE AddNext(upTo[n - 1], windows, n)]

\* The hooks that are registered are thlibo's.
LEMMA RegisteredType ==
  /\ Len(Registered) = 5
  /\ \A n \in 1..5 : Registered[n][1] \in Names /\ Registered[n][2] \in Names \ {"user"}
<1>1. /\ Len(Registered) = 5
      /\ Registered[1] = <<"Bash", "exec">> /\ Registered[2] = <<"PowerShell", "exec">>
      /\ Registered[3] = <<"Read", "read">> /\ Registered[4] = <<"Write", "write">>
      /\ Registered[5] = <<"Edit", "write">>
  BY DEF Registered
<1>2. {"Bash", "PowerShell", "Read", "Write", "Edit"} \subseteq Names
      /\ {"exec", "read", "write"} \subseteq Names
  BY DEF Names
<1>3. \A n \in 1..5 : n = 1 \/ n = 2 \/ n = 3 \/ n = 4 \/ n = 5
  OBVIOUS
<1> QED
  BY <1>1, <1>2, <1>3

\* The names of the platforms' scripts.
LEMMA VariantType ==
  ASSUME NEW w
  PROVE  Variant(w) \in Names /\ Variant(w) \in {"sh", "ps1"}
BY DEF Variant, Names

\* mergeSettings: one hook after the other.
LEMMA MergeSettingsAllKeeps ==
  ASSUME NEW groups \in Seq(Groups), NEW w
  PROVE  /\ MergeSettingsAll(groups, w) \in Seq(Groups)
         /\ \A m : UsersOf(MergeSettingsAll(groups, w), m) = UsersOf(groups, m)
<1> DEFINE T == {x \in Seq(Groups) : \A m : UsersOf(x, m) = UsersOf(groups, m)}
           G == [p \in T \X (1..5) |-> AddNext(p[1], w, p[2])]
<1>1. ASSUME NEW x \in T, NEW n \in 1..5 PROVE AddNext(x, w, n) \in T
  <2> DEFINE hook == <<Registered[n][2], Variant(w)>>
  <2>1. hook \in Hooks /\ ~IsUser(hook) /\ Registered[n][1] \in Names
    BY RegisteredType, VariantType DEF Hooks, IsUser
  <2>2. x \in Seq(Groups) /\ \A m : UsersOf(x, m) = UsersOf(groups, m)
    OBVIOUS
  <2> HIDE DEF hook, T
  <2>3. /\ AddPreToolUseHook(x, Registered[n][1], hook) \in Seq(Groups)
        /\ \A m : UsersOf(AddPreToolUseHook(x, Registered[n][1], hook), m) = UsersOf(x, m)
    BY <2>1, <2>2, AddKeeps
  <2> QED
    BY <2>2, <2>3 DEF AddNext, hook, T
<1>2. groups \in T
  OBVIOUS
<1> HIDE DEF T
<1>3. G \in [T \X (1..5) -> T] /\ 5 \in Nat
  <2>1. ASSUME NEW p \in T \X (1..5) PROVE AddNext(p[1], w, p[2]) \in T
    BY <1>1
  <2> QED
    BY <2>1
<1>4. PICK f \in [0..5 -> T] : Recurs(f, 5, groups, G)
  <2> HIDE DEF G
  <2> QED
    BY <1>2, <1>3, Recursion
<1>5. f = [n \in 0..5 |-> IF n = 0 THEN groups ELSE AddNext(f[n - 1], w, n)]
  <2>1. ASSUME NEW n \in 1..5 PROVE f[n] = AddNext(f[n - 1], w, n)
    <3>1. f[n - 1] \in T
      OBVIOUS
    <3> QED
      BY <1>4, <3>1 DEF Recurs
  <2> QED
    BY <1>4, <2>1 DEF Recurs
<1> DEFINE upTo == MergedUpTo(groups, w)
<1>6. upTo = [n \in 0..5 |-> IF n = 0 THEN groups ELSE AddNext(upTo[n - 1], w, n)]
  BY <1>5, RegisteredType DEF MergedUpTo
<1>7. MergeSettingsAll(groups, w) = upTo[5]
  BY RegisteredType DEF MergeSettingsAll, MergedUpTo, AddNext
<1> HIDE DEF upTo
<1>8. SameSteps(f, upTo, 5)
  <2> SUFFICES ASSUME NEW n \in 1..5, f[n - 1] = upTo[n - 1] PROVE f[n] = upTo[n]
    BY DEF SameSteps
  <2>1. n \in 0..5 /\ n # 0
    OBVIOUS
  <2>2. f[n] = AddNext(f[n - 1], w, n)
    BY <1>5, <2>1
  <2>3. upTo[n] = AddNext(upTo[n - 1], w, n)
    BY <1>6, <2>1
  <2> QED
    BY <2>2, <2>3
<1>9. f[0] = upTo[0]
  BY <1>5, <1>6
<1>10. f[5] = upTo[5]
  BY <1>3, <1>8, <1>9, RecursionUnique
<1>11. upTo[5] \in T
  BY <1>10
<1> QED
  BY <1>7, <1>11 DEF T

\* A hook of thlibo's in the place of another of thlibo's.
LEMMA ReplacedKeeps ==
  ASSUME NEW hooks \in Seq(Hooks), NEW k \in 1..Len(hooks), NEW hook \in Hooks,
         ~IsUser(hook), ~IsUser(hooks[k])
  PROVE  /\ [hooks EXCEPT ![k] = hook] \in Seq(Hooks)
         /\ Only([hooks EXCEPT ![k] = hook], UsersHooks) = Only(hooks, UsersHooks)
<1> DEFINE new == [hooks EXCEPT ![k] = hook]
<1>1. new \in Seq(Hooks) /\ Len(new) = Len(hooks) /\ \A n \in 1..Len(hooks) : n # k => new[n] = hooks[n]
  OBVIOUS
<1>2. new[k] = hook
  OBVIOUS
<1>3. hook \notin UsersHooks /\ hooks[k] \notin UsersHooks
  BY DEF UsersHooks
<1> HIDE DEF new
<1>4. \A n \in 1..Len(new) : new[n] = hooks[n] \/ (new[n] \notin UsersHooks /\ hooks[n] \notin UsersHooks)
  BY <1>1, <1>2, <1>3
<1>5. Only(new, UsersHooks) = Only(hooks, UsersHooks)
  BY <1>1, <1>4, OnlyAlike
<1> QED
  BY <1>1, <1>5 DEF new

\* Codex' hooks.json.
LEMMA MergeHooksJSONHookKeeps ==
  ASSUME NEW groups \in Seq(Groups), NEW variant \in Names
  PROVE  /\ MergeHooksJSONHook(groups, variant) \in Seq(Groups)
         /\ \A m : UsersOf(MergeHooksJSONHook(groups, variant), m) = UsersOf(groups, m)
<1> DEFINE hook == <<"post", variant>>
           I == {i \in 1..Len(groups) : \E j \in DOMAIN groups[i].hooks : IsThlibo(groups[i].hooks[j])}
           i == Min(I)
           J == {j \in 1..Len(groups[i].hooks) : IsThlibo(groups[i].hooks[j])}
           j == Min(J)
<1>1. hook \in Hooks /\ ~IsUser(hook) /\ "^Bash$" \in Names
  BY DEF Hooks, Names, IsUser
<1>2. CASE I = {}
  <2>1. MergeHooksJSONHook(groups, variant) = Append(groups, [matcher |-> "^Bash$", hooks |-> <<hook>>])
    BY <1>2 DEF MergeHooksJSONHook, SelectInSeq
  <2> HIDE DEF hook, I
  <2> QED
    BY <1>1, <2>1, NewGroupKeeps
<1>3. CASE I # {}
  <2>1. i \in I /\ i \in 1..Len(groups) /\ i # 0
    <3>1. I \subseteq 1..Len(groups) /\ Len(groups) \in Nat
      OBVIOUS
    <3> HIDE DEF I
    <3> QED
      BY <1>3, <3>1, FirstPlace
  <2>2. groups[i].hooks \in Seq(Hooks)
    <3> HIDE DEF i
    <3>1. groups[i] \in Groups
      BY <2>1
    <3> QED
      BY <3>1 DEF Groups
  <2>3. J # {}
    <3> HIDE DEF i
    <3>1. PICK k \in DOMAIN groups[i].hooks : IsThlibo(groups[i].hooks[k])
      BY <2>1
    <3>2. k \in 1..Len(groups[i].hooks)
      BY <2>2, <3>1
    <3> QED
      BY <3>1, <3>2
  <2>4. j \in J /\ j \in 1..Len(groups[i].hooks) /\ j # 0
    <3>1. J \subseteq 1..Len(groups[i].hooks) /\ Len(groups[i].hooks) \in Nat
      <4> HIDE DEF i
      <4> QED
        BY <2>2
    <3> HIDE DEF J
    <3> QED
      BY <2>3, <3>1, FirstPlace
  <2>5. ~IsUser(groups[i].hooks[j])
    <3> HIDE DEF i, j
    <3> QED
      BY <2>4 DEF IsUser, IsThlibo
  <2>6. MergeHooksJSONHook(groups, variant) = [groups EXCEPT ![i].hooks = [groups[i].hooks EXCEPT ![j] = hook]]
    BY <1>3, <2>1, <2>3, <2>4 DEF MergeHooksJSONHook, SelectInSeq, ReplaceAt
  <2> HIDE DEF i, j, hook, I, J
  <2> DEFINE old == groups[i].hooks
             new == [old EXCEPT ![j] = hook]
  <2>7. new \in Seq(Hooks) /\ Only(new, UsersHooks) = Only(old, UsersHooks)
    <3> HIDE DEF old
    <3>1. old \in Seq(Hooks) /\ j \in 1..Len(old) /\ ~IsUser(old[j])
      BY <2>2, <2>4, <2>5 DEF old
    <3> QED
      BY <1>1, <3>1, ReplacedKeeps
  <2> HIDE DEF new
  <2>8. /\ [groups EXCEPT ![i].hooks = new] \in Seq(Groups)
        /\ \A m : UsersOf([groups EXCEPT ![i].hooks = new], m) = UsersOf(groups, m)
    BY <2>1, <2>7, ChangedGroupKeeps
  <2> QED
    BY <2>6, <2>8 DEF new
<1> QED
  BY <1>2, <1>3

\* Cursor's hooks.json.
LEMMA UpsertKeeps ==
  ASSUME NEW flat \in Seq(Hooks), NEW matcher \in Names, NEW family \in Names \ {"user"}
  PROVE  /\ UpsertPreToolUseHook(flat, matcher, family) \in Seq(Hooks)
         /\ Only(UpsertPreToolUseHook(flat, matcher, family), UsersHooks) = Only(flat, UsersHooks)
<1> DEFINE hook == <<family, matcher>>
           I == {i \in 1..Len(flat) : flat[i][1] = family}
           k == Min(I)
<1>1. hook \in Hooks /\ ~IsUser(hook) /\ hook \notin UsersHooks
  BY DEF Hooks, IsUser, UsersHooks
<1>2. CASE I = {}
  <2>1. UpsertPreToolUseHook(flat, matcher, family) = Append(flat, hook)
    BY <1>2 DEF UpsertPreToolUseHook, SelectInSeq
  <2> HIDE DEF hook, I
  <2>2. Append(flat, hook) \in Seq(Hooks)
    BY <1>1
  <2> QED
    BY <1>1, <2>1, <2>2, OnlyAppend
<1>3. CASE I # {}
  <2>1. k \in I /\ k \in 1..Len(flat) /\ k # 0
    <3>1. I \subseteq 1..Len(flat) /\ Len(flat) \in Nat
      OBVIOUS
    <3> HIDE DEF I
    <3> QED
      BY <1>3, <3>1, FirstPlace
  <2>2. UpsertPreToolUseHook(flat, matcher, family) = [flat EXCEPT ![k] = hook]
    BY <1>3, <2>1 DEF UpsertPreToolUseHook, SelectInSeq
  <2>3. ~IsUser(flat[k])
    <3> HIDE DEF k
    <3> QED
      BY <2>1 DEF IsUser
  <2> HIDE DEF k, hook, I
  <2>4. /\ [flat EXCEPT ![k] = hook] \in Seq(Hooks)
        /\ Only([flat EXCEPT ![k] = hook], UsersHooks) = Only(flat, UsersHooks)
    <3>1. k \in 1..Len(flat) /\ hook \in Hooks /\ ~IsUser(hook) /\ ~IsUser(flat[k])
      BY <1>1, <2>1, <2>3
    <3> QED
      BY <3>1, ReplacedKeeps
  <2> QED
    BY <2>2, <2>4
<1> QED
  BY <1>2, <1>3

\* Both of Cursor's hooks.
LEMMA MergeHooksJSONKeeps ==
  ASSUME NEW flat \in Seq(Hooks)
  PROVE  /\ MergeHooksJSON(flat) \in Seq(Hooks)
         /\ Only(MergeHooksJSON(flat), UsersHooks) = Only(flat, UsersHooks)
<1> DEFINE once == UpsertPreToolUseHook(flat, "Shell", "shell")
<1>1. {"Shell", "Read"} \subseteq Names /\ {"shell", "file"} \subseteq Names \ {"user"}
  BY DEF Names
<1>2. once \in Seq(Hooks) /\ Only(once, UsersHooks) = Only(flat, UsersHooks)
  BY <1>1, UpsertKeeps
<1>3. MergeHooksJSON(flat) = UpsertPreToolUseHook(once, "Read", "file")
  BY DEF MergeHooksJSON
<1> HIDE DEF once
<1>4. /\ UpsertPreToolUseHook(once, "Read", "file") \in Seq(Hooks)
      /\ Only(UpsertPreToolUseHook(once, "Read", "file"), UsersHooks) = Only(once, UsersHooks)
  BY <1>1, <1>2, UpsertKeeps
<1> QED
  BY <1>2, <1>3, <1>4

\* What is removed from Cursor's hooks.
LEMMA RemoveHooksJSONEntriesKeeps ==
  ASSUME NEW flat \in Seq(Hooks)
  PROVE  /\ RemoveHooksJSONEntries(flat) \in Seq(Hooks)
         /\ Only(RemoveHooksJSONEntries(flat), UsersHooks) = Only(flat, UsersHooks)
<1>1. RemoveHooksJSONEntries(flat) = Only(flat, UsersHooks)
  BY Selected DEF RemoveHooksJSONEntries
<1>2. Only(Only(flat, UsersHooks), UsersHooks) = Only(flat, UsersHooks \cap UsersHooks)
  BY OnlyTwice
<1>3. UsersHooks \cap UsersHooks = UsersHooks
  OBVIOUS
<1>4. Only(flat, UsersHooks) \in Seq(Hooks)
  BY OnlyType
<1> QED
  BY <1>1, <1>2, <1>3, <1>4

-----------------------------------------------------------------------------
(* config.toml: sections, and which of them go.                              *)

\* Lines of config.toml that are not thlibo's; flags are nobody's.
UsersLines == {l \in Hooks : l[2] = "user"}

\* The headers of the block that thlibo appends.
OurGroup == <<Group, "thlibo">>
OurGroupHook == <<GroupHook, "thlibo">>
Owned == {OurGroup, OurGroupHook}

\* What can be the first line, and what can come under another.
Starts(line) == Text(line) \in Headers /\ line # OurGroupHook

\* A command of thlibo's comes under its hook header, that under its group, and
\* nothing else comes under either.
Follows(line, above) ==
  IF IsOurCommand(line) THEN above = OurGroupHook
  ELSE IF line = OurGroupHook THEN above = OurGroup
  ELSE ~IsOurCommand(above) /\ above \notin Owned

\* Lines say whose they are.
Sound(line) ==
  /\ Text(line) # TrustedState
  /\ IsOurCommand(line) => line[2] = "thlibo"
  /\ Text(line) \in Flags => line[2] = "flag"

WellPlaced(lines, i) == Starts(lines[i]) \/ (i > 1 /\ Follows(lines[i], lines[i - 1]))

\* What config.toml may hold: what thlibo has put there is in whole blocks, or
\* in the first lines of one, and whatever else is under headers of its own.
WellFormed(lines) ==
  /\ lines \in Seq(Hooks)
  /\ \A i \in 1..Len(lines) : Sound(lines[i]) /\ WellPlaced(lines, i)

\* Headers, flags and commands are different lines.
LEMMA TextsDiffer ==
  /\ Group # GroupHook /\ {Group, GroupHook} \subseteq Headers
  /\ TrustedState \notin {Group, GroupHook, "[features]"} /\ "[features]" \in Headers
  /\ \A line : IsOurCommand(line) => Text(line) \notin Headers /\ Text(line) \notin Flags
  /\ Headers \cap Flags = {}
  /\ OurGroup \notin {OurGroupHook} /\ OurGroup[2] = "thlibo" /\ OurGroupHook[2] = "thlibo"
  /\ Text(OurGroup) = Group /\ Text(OurGroupHook) = GroupHook
  /\ ~IsOurCommand(OurGroup) /\ ~IsOurCommand(OurGroupHook)
BY DEF Group, GroupHook, TrustedState, Headers, Flags, IsOurCommand, Text, OurCommand, OurGroup, OurGroupHook

\* A line's section is that of the line above, or its own.
LEMMA HeaderStep ==
  ASSUME NEW lines, NEW i \in Nat \ {0}
  PROVE  HeaderOf(lines, i) = IF Text(lines[i]) \in Headers THEN i ELSE HeaderOf(lines, i - 1)
<1> DEFINE above(k) == {h \in 1..k : Text(lines[h]) \in Headers}
<1>1. CASE Text(lines[i]) \in Headers
  <2>1. i \in above(i) /\ \A k \in above(i) : k <= i
    BY <1>1
  <2>2. HeaderOf(lines, i) = CHOOSE h \in above(i) : \A k \in above(i) : k <= h
    BY <2>1 DEF HeaderOf
  <2>3. \A h \in above(i) : h \in Nat
    OBVIOUS
  <2> HIDE DEF above
  <2> DEFINE c == CHOOSE h \in above(i) : \A k \in above(i) : k <= h
  <2>4. c \in above(i) /\ \A k \in above(i) : k <= c
    BY <2>1
  <2> HIDE DEF c
  <2>5. c = i
    BY <2>1, <2>3, <2>4
  <2> QED
    BY <1>1, <2>2, <2>5 DEF c
<1>2. CASE Text(lines[i]) \notin Headers
  <2>1. above(i) = above(i - 1)
    <3>1. 1..i = (1..i - 1) \cup {i}
      OBVIOUS
    <3> QED
      BY <1>2, <3>1
  <2> DEFINE last(A) == IF A = {} THEN 0 ELSE CHOOSE h \in A : \A k \in A : k <= h
  <2>2. HeaderOf(lines, i) = last(above(i)) /\ HeaderOf(lines, i - 1) = last(above(i - 1))
    BY DEF HeaderOf
  <2> HIDE DEF last, above
  <2> QED
    BY <1>2, <2>1, <2>2
<1> QED
  BY <1>1, <1>2

\* There is no header above the first line.
LEMMA HeaderFirst == \A lines : HeaderOf(lines, 0) = 0
<1>1. 1..0 = {}
  OBVIOUS
<1> QED
  BY <1>1 DEF HeaderOf

\* The header that a line stands under.
LEMMA HeaderIs ==
  ASSUME NEW lines, NEW i \in Nat
  PROVE  HeaderOf(lines, i) = 0
         \/ (HeaderOf(lines, i) \in 1..i /\ Text(lines[HeaderOf(lines, i)]) \in Headers)
<1> DEFINE Good(k) == HeaderOf(lines, k) = 0
                      \/ (HeaderOf(lines, k) \in 1..k /\ Text(lines[HeaderOf(lines, k)]) \in Headers)
           S == {k \in Nat : Good(k)}
<1>1. 0 \in S
  BY HeaderFirst
<1>2. ASSUME NEW k \in Nat, k \in S PROVE k + 1 \in S
  <2>1. HeaderOf(lines, k + 1) = IF Text(lines[k + 1]) \in Headers THEN k + 1 ELSE HeaderOf(lines, k)
    <3>1. k + 1 \in Nat \ {0} /\ (k + 1) - 1 = k
      OBVIOUS
    <3> HIDE DEF S
    <3>2. HeaderOf(lines, k + 1)
            = IF Text(lines[k + 1]) \in Headers THEN k + 1 ELSE HeaderOf(lines, (k + 1) - 1)
      BY <3>1, HeaderStep
    <3> QED
      BY <3>1, <3>2
  <2>2. Good(k)
    BY <1>2
  <2>3. Good(k + 1)
    <3> HIDE DEF S
    <3>1. \A h : h \in 1..k => h \in 1..k + 1
      OBVIOUS
    <3>2. k + 1 \in 1..k + 1
      OBVIOUS
    <3> QED
      BY <2>1, <2>2, <3>1, <3>2
  <2> QED
    BY <2>3
<1>3. \A k \in Nat : k \in S
  <2> HIDE DEF S
  <2> QED
    BY <1>1, <1>2, Induction
<1> QED
  BY <1>3

\* A command of thlibo's stands right under its own two headers.
LEMMA CommandsPlace ==
  ASSUME NEW lines, WellFormed(lines), NEW i \in 1..Len(lines), IsOurCommand(lines[i])
  PROVE  i - 1 \in 1..Len(lines) /\ lines[i - 1] = OurGroupHook /\ HeaderOf(lines, i) = i - 1
<1>1. Len(lines) \in Nat /\ WellPlaced(lines, i)
  BY DEF WellFormed
<1>2. Text(lines[i]) \notin Headers
  BY TextsDiffer
<1>3. i > 1 /\ lines[i - 1] = OurGroupHook
  BY <1>1, <1>2 DEF WellPlaced, Starts, Follows
<1>4. i - 1 \in 1..Len(lines) /\ i \in Nat \ {0} /\ i - 1 \in Nat \ {0}
  BY <1>1, <1>3
<1>5. HeaderOf(lines, i) = HeaderOf(lines, i - 1)
  BY <1>2, <1>4, HeaderStep
<1>6. HeaderOf(lines, i - 1) = i - 1
  <2>1. Text(lines[i - 1]) \in Headers
    BY <1>3, TextsDiffer
  <2> QED
    BY <1>4, <2>1, HeaderStep
<1> QED
  BY <1>3, <1>4, <1>5, <1>6

\* Neither header nor command of thlibo's.
Plain(line) == Text(line) \notin Headers /\ ~IsOurCommand(line)

\* What is neither header nor command is not in a section of thlibo's.
LEMMA PlainsSection ==
  ASSUME NEW lines, WellFormed(lines)
  PROVE  \A i \in 1..Len(lines) :
           Plain(lines[i]) => HeaderOf(lines, i) # 0 /\ lines[HeaderOf(lines, i)] \notin Owned
<1> DEFINE Good(k) == Plain(lines[k]) => HeaderOf(lines, k) # 0 /\ lines[HeaderOf(lines, k)] \notin Owned
           S == {k \in Nat : k \in 1..Len(lines) => Good(k)}
<1>0. Len(lines) \in Nat
  BY DEF WellFormed
<1>1. 0 \in S
  OBVIOUS
<1>2. ASSUME NEW k \in Nat, k \in S PROVE k + 1 \in S
  <2> SUFFICES ASSUME k + 1 \in 1..Len(lines), Plain(lines[k + 1]) PROVE Good(k + 1)
    OBVIOUS
  <2>1. k \in 1..Len(lines) => Good(k)
    BY <1>2
  <2> HIDE DEF S
  <2>2. k + 1 \in Nat \ {0} /\ (k + 1) - 1 = k
    OBVIOUS
  <2>3. HeaderOf(lines, k + 1) = HeaderOf(lines, (k + 1) - 1)
    BY <2>2, HeaderStep DEF Plain
  <2>4. WellPlaced(lines, k + 1)
    BY DEF WellFormed
  <2>5. k + 1 > 1 /\ ~IsOurCommand(lines[k]) /\ lines[k] \notin Owned
    BY <2>2, <2>4, TextsDiffer DEF WellPlaced, Starts, Follows, Plain
  <2>6. k \in 1..Len(lines) /\ k \in Nat \ {0}
    BY <1>0, <2>5
  <2>7. CASE Text(lines[k]) \in Headers
    <3>1. HeaderOf(lines, k) = k
      BY <2>6, <2>7, HeaderStep
    <3> QED
      BY <2>2, <2>3, <2>5, <2>6, <3>1
  <2>8. CASE Text(lines[k]) \notin Headers
    <3>1. Good(k) /\ Plain(lines[k])
      BY <2>1, <2>5, <2>6, <2>8 DEF Plain
    <3> QED
      BY <2>2, <2>3, <3>1
  <2> QED
    BY <2>7, <2>8
<1>3. \A k \in Nat : k \in S
  <2> HIDE DEF S
  <2> QED
    BY <1>1, <1>2, Induction
<1> QED
  BY <1>0, <1>3

\* Only sections of thlibo's own are removed.
LEMMA OurSection ==
  ASSUME NEW lines, WellFormed(lines), NEW h \in 1..Len(lines), SectionIsOurs(lines, h)
  PROVE  lines[h] = OurGroupHook
<1>1. Text(lines[h]) # TrustedState
  BY DEF WellFormed, Sound
<1>2. DOMAIN lines = 1..Len(lines)
  BY DEF WellFormed
<1>3. PICK i \in 1..Len(lines) : HeaderOf(lines, i) = h /\ IsOurCommand(lines[i])
  BY <1>1, <1>2 DEF SectionIsOurs
<1> QED
  BY <1>3, CommandsPlace

\* Nor does another section go with them.
LEMMA SectionThatGoes ==
  ASSUME NEW lines, WellFormed(lines), NEW h \in 1..Len(lines), SectionGoes(lines, h)
  PROVE  lines[h] \in Owned
<1>1. CASE SectionIsOurs(lines, h)
  BY <1>1, OurSection DEF Owned
<1>2. CASE ~SectionIsOurs(lines, h)
  <2>1. /\ Text(lines[h]) = Group
        /\ ChildrenOf(lines, h) # {}
        /\ \A k \in ChildrenOf(lines, h) : SectionIsOurs(lines, k)
    BY <1>2 DEF SectionGoes
  <2>2. PICK k \in ChildrenOf(lines, h) : SectionIsOurs(lines, k)
    BY <2>1
  <2>3. /\ k \in (h + 1)..Len(lines)
        /\ \A j \in (h + 1)..k : Text(lines[j]) \in Headers => Text(lines[j]) = GroupHook
    BY <2>2 DEF ChildrenOf
  <2>4. Len(lines) \in Nat
    BY DEF WellFormed
  <2>5. k \in 1..Len(lines) /\ k - 1 \in h..k
    BY <2>3, <2>4
  <2>6. lines[k] = OurGroupHook
    BY <2>2, <2>5, OurSection
  <2>7. WellPlaced(lines, k)
    BY <2>5 DEF WellFormed
  <2>8. lines[k - 1] = OurGroup
    BY <2>6, <2>7, TextsDiffer DEF WellPlaced, Starts, Follows
  <2>9. k - 1 = h
    <3> SUFFICES ASSUME k - 1 # h PROVE FALSE
      OBVIOUS
    <3>1. k - 1 \in (h + 1)..k
      BY <2>3, <2>4, <2>5
    <3> QED
      BY <2>3, <2>8, <3>1, TextsDiffer
  <2> QED
    BY <2>8, <2>9 DEF Owned
<1> QED
  BY <1>1, <1>2

\* The lines that removeInlineHookBlocks leaves.
Stays(lines) ==
  {i \in DOMAIN lines : HeaderOf(lines, i) = 0 \/ ~SectionGoes(lines, HeaderOf(lines, i))}

\* No line of the user's is in a section that goes.
LEMMA UsersStay ==
  ASSUME NEW lines, WellFormed(lines), NEW i \in 1..Len(lines), lines[i][2] = "user"
  PROVE  i \in Stays(lines)
<1>1. DOMAIN lines = 1..Len(lines) /\ Len(lines) \in Nat
  BY DEF WellFormed
<1>2. i \in Nat \ {0} /\ i \in Nat
  BY <1>1
<1> DEFINE h == HeaderOf(lines, i)
<1>3. h = 0 \/ lines[h] \notin Owned
  <2>1. CASE Text(lines[i]) \in Headers
    <3>1. h = i
      BY <1>2, <2>1, HeaderStep
    <3>2. lines[i] \notin Owned
      BY TextsDiffer DEF Owned
    <3> QED
      BY <3>1, <3>2
  <2>2. CASE Text(lines[i]) \notin Headers
    <3>1. ~IsOurCommand(lines[i])
      BY DEF WellFormed, Sound
    <3> QED
      BY <2>2, <3>1, PlainsSection DEF Plain
  <2> QED
    BY <2>1, <2>2
<1>4. h = 0 \/ h \in 1..Len(lines)
  <2>1. h = 0 \/ h \in 1..i
    BY <1>2, HeaderIs
  <2> HIDE DEF h
  <2> QED
    BY <1>1, <2>1
<1> HIDE DEF h
<1>5. h = 0 \/ ~SectionGoes(lines, h)
  BY <1>3, <1>4, SectionThatGoes
<1> QED
  BY <1>1, <1>5 DEF Stays, h

\* With a line that is not a header, the one above stays too; with a hook of
\* thlibo's, its group.
LEMMA AboveStays ==
  ASSUME NEW lines, WellFormed(lines), NEW i \in Stays(lines)
  PROVE  /\ i \in 1..Len(lines) /\ ~IsOurCommand(lines[i])
         /\ Starts(lines[i]) \/ (i > 1 /\ i - 1 \in Stays(lines) /\ Follows(lines[i], lines[i - 1]))
<1>1. DOMAIN lines = 1..Len(lines) /\ Len(lines) \in Nat
  BY DEF WellFormed
<1>2. i \in 1..Len(lines) /\ i \in Nat \ {0}
  BY <1>1 DEF Stays
<1>3. HeaderOf(lines, i) = 0 \/ ~SectionGoes(lines, HeaderOf(lines, i))
  BY DEF Stays
<1>4. ~IsOurCommand(lines[i])
  <2> SUFFICES ASSUME IsOurCommand(lines[i]) PROVE FALSE
    OBVIOUS
  <2>1. i - 1 \in 1..Len(lines) /\ lines[i - 1] = OurGroupHook /\ HeaderOf(lines, i) = i - 1
    BY <1>2, CommandsPlace
  <2>2. i - 1 # 0
    BY <2>1
  <2>3. SectionIsOurs(lines, i - 1)
    BY <1>1, <1>2, <2>1, TextsDiffer DEF SectionIsOurs
  <2> QED
    BY <1>3, <2>1, <2>2, <2>3 DEF SectionGoes
<1>5. WellPlaced(lines, i)
  BY <1>2 DEF WellFormed
<1>6. ASSUME ~Starts(lines[i]) PROVE i > 1 /\ i - 1 \in Stays(lines) /\ Follows(lines[i], lines[i - 1])
  <2>1. i > 1 /\ Follows(lines[i], lines[i - 1])
    BY <1>5, <1>6 DEF WellPlaced
  <2>2. i - 1 \in 1..Len(lines) /\ i - 1 \in Nat \ {0}
    BY <1>1, <1>2, <2>1
  <2>3. CASE lines[i] = OurGroupHook
    <3>1. lines[i - 1] = OurGroup
      BY <1>4, <2>1, <2>3 DEF Follows
    <3>2. HeaderOf(lines, i - 1) = i - 1 /\ HeaderOf(lines, i) = i
      <4>1. Text(lines[i - 1]) \in Headers /\ Text(lines[i]) \in Headers
        BY <2>3, <3>1, TextsDiffer
      <4> QED
        BY <1>2, <2>2, <4>1, HeaderStep
    <3>3. ~SectionIsOurs(lines, i)
      <4>1. i # 0
        BY <1>2
      <4> QED
        BY <1>3, <3>2, <4>1 DEF SectionGoes
    <3>4. ~SectionIsOurs(lines, i - 1)
      BY <2>2, <3>1, OurSection, TextsDiffer
    <3>5. i \in ChildrenOf(lines, i - 1)
      <4>1. (i - 1) + 1 = i /\ i \in i..Len(lines) /\ i..i = {i}
        BY <1>1, <1>2
      <4>2. Text(lines[i]) = GroupHook
        BY <2>3, TextsDiffer
      <4> QED
        BY <4>1, <4>2 DEF ChildrenOf
    <3>6. ~SectionGoes(lines, i - 1)
      BY <3>3, <3>4, <3>5 DEF SectionGoes
    <3> QED
      BY <1>1, <2>1, <2>2, <3>2, <3>6 DEF Stays
  <2>4. CASE lines[i] # OurGroupHook
    <3>1. Text(lines[i]) \notin Headers
      BY <1>6, <2>4 DEF Starts
    <3>2. HeaderOf(lines, i) = HeaderOf(lines, i - 1)
      BY <1>2, <3>1, HeaderStep
    <3> QED
      BY <1>1, <1>3, <2>1, <2>2, <3>2 DEF Stays
  <2> QED
    BY <2>3, <2>4
<1> QED
  BY <1>2, <1>4, <1>6

\* A selection by places leaves those in a set, if it takes them all.
LEMMA PlacesType ==
  ASSUME NEW E, NEW seq \in Seq(E), NEW places
  PROVE  \A n \in 0..Len(seq) : PlacesUpTo(seq, places)[n] \in Seq(E)
<1> DEFINE f == PlacesUpTo(seq, places)
           S == {n \in Nat : n <= Len(seq) => f[n] \in Seq(E)}
<1>1. /\ f[0] = <<>>
      /\ \A n \in 1..Len(seq) : f[n] = IF n \in places THEN Append(f[n - 1], seq[n]) ELSE f[n - 1]
  BY AtPlacesDef
<1> HIDE DEF f
<1>2. 0 \in S
  <2>1. <<>> \in Seq(E)
    OBVIOUS
  <2> QED
    BY <1>1, <2>1
<1>3. ASSUME NEW n \in Nat, n \in S PROVE n + 1 \in S
  <2> SUFFICES ASSUME n + 1 <= Len(seq) PROVE f[n + 1] \in Seq(E)
    OBVIOUS
  <2>1. Len(seq) \in Nat
    OBVIOUS
  <2>2. n + 1 \in 1..Len(seq) /\ (n + 1) - 1 = n /\ n <= Len(seq)
    BY <2>1
  <2>3. f[n] \in Seq(E)
    BY <1>3, <2>2
  <2>4. seq[n + 1] \in E
    BY <2>2
  <2> HIDE DEF S
  <2>5. Append(f[n], seq[n + 1]) \in Seq(E)
    BY <2>3, <2>4
  <2> QED
    BY <1>1, <2>2, <2>3, <2>5
<1>4. \A n \in Nat : n \in S
  <2> HIDE DEF S
  <2> QED
    BY <1>2, <1>3, Induction
<1> QED
  BY <1>4 DEF f

\* What is in the set is selected with them.
LEMMA PlacesKeep ==
  ASSUME NEW E, NEW seq \in Seq(E), NEW places, NEW set, PlacesOf(seq, set) \subseteq places
  PROVE  AtPlaces(seq, places) \in Seq(E) /\ Only(AtPlaces(seq, places), set) = Only(seq, set)
<1> DEFINE f == PlacesUpTo(seq, places)
           g == OnlyUpTo(seq, set)
           S == {n \in Nat : n <= Len(seq) => Only(f[n], set) = g[n]}
<1>1. /\ AtPlaces(seq, places) = f[Len(seq)]
      /\ f[0] = <<>>
      /\ \A n \in 1..Len(seq) : f[n] = IF n \in places THEN Append(f[n - 1], seq[n]) ELSE f[n - 1]
  BY AtPlacesDef
<1>2. /\ Only(seq, set) = g[Len(seq)]
      /\ g[0] = <<>>
      /\ \A n \in 1..Len(seq) : g[n] = IF seq[n] \in set THEN Append(g[n - 1], seq[n]) ELSE g[n - 1]
  BY OnlyDef
<1>3. \A n \in 0..Len(seq) : f[n] \in Seq(E)
  BY PlacesType
<1>4. \A n \in 1..Len(seq) : seq[n] \in set => n \in places
  BY DEF PlacesOf
<1>5. Len(seq) \in Nat
  OBVIOUS
<1> HIDE DEF f, g
<1>6. 0 \in S
  BY <1>1, <1>2, OnlyEmpty
<1>7. ASSUME NEW n \in Nat, n \in S PROVE n + 1 \in S
  <2> SUFFICES ASSUME n + 1 <= Len(seq) PROVE Only(f[n + 1], set) = g[n + 1]
    OBVIOUS
  <2>1. n + 1 \in 1..Len(seq) /\ (n + 1) - 1 = n /\ n <= Len(seq) /\ n \in 0..Len(seq)
    BY <1>5
  <2>2. Only(f[n], set) = g[n]
    BY <1>7, <2>1
  <2> HIDE DEF S
  <2>3. f[n] \in Seq(E) /\ seq[n + 1] \in E
    BY <1>3, <2>1
  <2>4. Only(Append(f[n], seq[n + 1]), set)
          = IF seq[n + 1] \in set THEN Append(Only(f[n], set), seq[n + 1]) ELSE Only(f[n], set)
    <3> DEFINE r == f[n]
               e == seq[n + 1]
    <3>1. r \in Seq(E) /\ e \in E
      BY <2>3
    <3> HIDE DEF r, e
    <3>2. Only(Append(r, e), set) = IF e \in set THEN Append(Only(r, set), e) ELSE Only(r, set)
      BY <3>1, OnlyAppend
    <3> QED
      BY <3>2 DEF r, e
  <2>5. f[n + 1] = IF n + 1 \in places THEN Append(f[n], seq[n + 1]) ELSE f[n]
    BY <1>1, <2>1
  <2>6. g[n + 1] = IF seq[n + 1] \in set THEN Append(g[n], seq[n + 1]) ELSE g[n]
    BY <1>2, <2>1
  <2>7. seq[n + 1] \in set => n + 1 \in places
    BY <1>4, <2>1
  <2> QED
    BY <2>2, <2>4, <2>5, <2>6, <2>7
<1>8. \A n \in Nat : n \in S
  <2> HIDE DEF S
  <2> QED
    BY <1>6, <1>7, Induction
<1>9. Len(seq) \in 0..Len(seq) /\ Len(seq) <= Len(seq)
  BY <1>5
<1>10. Only(f[Len(seq)], set) = g[Len(seq)]
  BY <1>5, <1>8, <1>9
<1> QED
  BY <1>1, <1>2, <1>3, <1>9, <1>10

\* One line more.
LEMMA WellFormedAppend ==
  ASSUME NEW r, WellFormed(r), NEW line \in Hooks, Sound(line),
         Starts(line) \/ (r # <<>> /\ Follows(line, r[Len(r)]))
  PROVE  WellFormed(Append(r, line))
<1> DEFINE long == Append(r, line)
           m == Len(r)
<1>1. /\ r \in Seq(Hooks) /\ m \in Nat /\ long \in Seq(Hooks) /\ Len(long) = m + 1 /\ long[m + 1] = line
      /\ \A i \in 1..m : long[i] = r[i]
  BY DEF WellFormed
<1>2. ASSUME NEW i \in 1..m + 1 PROVE Sound(long[i]) /\ WellPlaced(long, i)
  <2>1. CASE i \in 1..m
    <3>1. Sound(r[i]) /\ WellPlaced(r, i) /\ long[i] = r[i]
      BY <1>1, <2>1 DEF WellFormed
    <3>2. i > 1 => i - 1 \in 1..m /\ long[i - 1] = r[i - 1]
      BY <1>1, <2>1
    <3> HIDE DEF long
    <3> QED
      BY <3>1, <3>2 DEF WellPlaced
  <2>2. CASE i = m + 1
    <3>1. long[i] = line
      BY <1>1, <2>2
    <3>2. r # <<>> => i > 1 /\ i - 1 = m /\ long[i - 1] = r[m]
      <4>1. r # <<>> => m > 0
        BY <1>1
      <4>2. m > 0 => m \in 1..m
        BY <1>1
      <4> HIDE DEF long, m
      <4> QED
        BY <1>1, <2>2, <4>1, <4>2
    <3> HIDE DEF long, m
    <3>3. Starts(line) \/ (r # <<>> /\ Follows(line, r[m]))
      BY DEF m
    <3> QED
      BY <3>1, <3>2, <3>3 DEF WellPlaced
  <2>3. i \in 1..m \/ i = m + 1
    BY <1>1
  <2> QED
    BY <2>1, <2>2, <2>3
<1> HIDE DEF long, m
<1> QED
  BY <1>1, <1>2 DEF WellFormed, long

\* No line calls thlibo.
NoCommands(lines) == \A i \in DOMAIN lines : ~IsOurCommand(lines[i])

\* What removeInlineHookBlocks leaves.
LEMMA RemoveInlineHookBlocksKeeps ==
  ASSUME NEW lines, WellFormed(lines)
  PROVE  /\ WellFormed(RemoveInlineHookBlocks(lines))
         /\ NoCommands(RemoveInlineHookBlocks(lines))
         /\ Only(RemoveInlineHookBlocks(lines), UsersLines) = Only(lines, UsersLines)
<1> DEFINE places == Stays(lines)
           f == PlacesUpTo(lines, places)
           m == Len(lines)
           EndsIn(n) == f[n] # <<>> /\ f[n][Len(f[n])] = lines[n]
           Good(n) == WellFormed(f[n]) /\ NoCommands(f[n]) /\ (n \in places => EndsIn(n))
           S == {n \in Nat : n <= m => Good(n)}
<1>0. lines \in Seq(Hooks) /\ m \in Nat /\ DOMAIN lines = 1..m
  BY DEF WellFormed
<1>1. RemoveInlineHookBlocks(lines) = AtPlaces(lines, places)
  BY DEF RemoveInlineHookBlocks, Stays
<1>2. /\ AtPlaces(lines, places) = f[m]
      /\ f[0] = <<>>
      /\ \A n \in 1..m : f[n] = IF n \in places THEN Append(f[n - 1], lines[n]) ELSE f[n - 1]
  <2> HIDE DEF places
  <2> QED
    BY <1>0, AtPlacesDef
<1>3. Only(AtPlaces(lines, places), UsersLines) = Only(lines, UsersLines)
  <2>1. PlacesOf(lines, UsersLines) \subseteq places
    BY <1>0, UsersStay DEF PlacesOf, UsersLines
  <2> HIDE DEF places
  <2> QED
    BY <1>0, <2>1, PlacesKeep
<1>4. places \subseteq 1..m
  BY <1>0 DEF Stays
<1> HIDE DEF f
<1>5. 0 \in S
  <2>1. WellFormed(<<>>) /\ NoCommands(<<>>)
    BY DEF WellFormed, NoCommands
  <2>2. 0 \notin places
    BY <1>4
  <2> QED
    BY <1>2, <2>1, <2>2
<1>6. ASSUME NEW n \in Nat, n \in S PROVE n + 1 \in S
  <2> SUFFICES ASSUME n + 1 <= m PROVE Good(n + 1)
    OBVIOUS
  <2>1. n + 1 \in 1..m /\ (n + 1) - 1 = n /\ n <= m
    BY <1>0
  <2>2. Good(n)
    BY <1>6, <2>1
  <2> HIDE DEF S, m
  <2>3. f[n + 1] = IF n + 1 \in places THEN Append(f[n], lines[n + 1]) ELSE f[n]
    BY <1>2, <2>1
  <2>4. CASE n + 1 \notin places
    <3>1. f[n + 1] = f[n]
      BY <2>3, <2>4
    <3> HIDE DEF places
    <3> QED
      BY <2>2, <2>4, <3>1
  <2>5. CASE n + 1 \in places
    <3> DEFINE r == f[n]
               line == lines[n + 1]
               long == Append(r, line)
    <3>1. line \in Hooks /\ Sound(line)
      BY <1>0, <2>1 DEF WellFormed, m
    <3>2. ~IsOurCommand(line) /\ (Starts(line) \/ (n \in places /\ Follows(line, lines[n])))
      <4>1. /\ ~IsOurCommand(lines[n + 1])
            /\ Starts(lines[n + 1])
               \/ (n + 1 > 1 /\ (n + 1) - 1 \in Stays(lines) /\ Follows(lines[n + 1], lines[(n + 1) - 1]))
        BY <2>5, AboveStays
      <4> QED
        BY <2>1, <4>1
    <3>3. WellFormed(r) /\ NoCommands(r) /\ (n \in places => r # <<>> /\ r[Len(r)] = lines[n])
      BY <2>2
    <3>4. f[n + 1] = long
      BY <2>3, <2>5
    <3> HIDE DEF r, line, places
    <3>5. WellFormed(long)
      <4>1. Starts(line) \/ (r # <<>> /\ Follows(line, r[Len(r)]))
        BY <3>2, <3>3
      <4> QED
        BY <3>1, <3>3, <4>1, WellFormedAppend
    <3>6. NoCommands(long) /\ long # <<>> /\ long[Len(long)] = line
      <4>1. r \in Seq(Hooks)
        BY <3>3 DEF WellFormed
      <4>2. /\ long \in Seq(Hooks) /\ Len(long) = Len(r) + 1 /\ long[Len(r) + 1] = line /\ Len(r) \in Nat
            /\ \A i \in 1..Len(r) : long[i] = r[i]
        BY <3>1, <4>1
      <4>3. \A i \in 1..Len(r) + 1 : i \in 1..Len(r) \/ i = Len(r) + 1
        BY <4>2
      <4>4. DOMAIN long = 1..Len(r) + 1 /\ DOMAIN r = 1..Len(r)
        BY <4>1, <4>2
      <4> HIDE DEF long
      <4> QED
        BY <3>2, <3>3, <4>2, <4>3, <4>4 DEF NoCommands
    <3> HIDE DEF long
    <3> QED
      BY <3>4, <3>5, <3>6 DEF line
  <2> QED
    BY <2>4, <2>5
<1>7. \A n \in Nat : n \in S
  <2> HIDE DEF S
  <2> QED
    BY <1>5, <1>6, Induction
<1>8. WellFormed(f[m]) /\ NoCommands(f[m])
  BY <1>0, <1>7
<1> QED
  BY <1>1, <1>2, <1>3, <1>8

-----------------------------------------------------------------------------
(* config.toml: what is merged into it.                                      *)

\* Lines under others.
LEMMA WellFormedJoin ==
  ASSUME NEW a, NEW b \in Seq(Hooks), WellFormed(a),
         \A i \in 1..Len(b) :
           Sound(b[i]) /\ \/ WellPlaced(b, i)
                          \/ i = 1 /\ a # <<>> /\ Follows(b[1], a[Len(a)])
  PROVE  WellFormed(a \o b)
<1> DEFINE long == a \o b
           m == Len(a)
           k == Len(b)
<1>1. /\ a \in Seq(Hooks) /\ b \in Seq(Hooks) /\ m \in Nat /\ k \in Nat
      /\ long \in Seq(Hooks) /\ Len(long) = m + k
      /\ \A i \in 1..m + k : long[i] = IF i <= m THEN a[i] ELSE b[i - m]
  BY ConcatProperties DEF WellFormed
<1>2. ASSUME NEW i \in 1..m + k PROVE Sound(long[i]) /\ WellPlaced(long, i)
  <2>0. a # <<>> => m > 0
    BY <1>1
  <2> HIDE DEF long
  <2>1. CASE i <= m
    <3> HIDE DEF m, k
    <3>1. i \in 1..m /\ long[i] = a[i]
      BY <1>1, <2>1
    <3>2. Sound(a[i]) /\ WellPlaced(a, i)
      BY <3>1 DEF WellFormed, m
    <3>3. i > 1 => i - 1 \in 1..m + k /\ i - 1 <= m
      BY <1>1, <3>1
    <3>4. i > 1 => long[i - 1] = a[i - 1]
      BY <1>1, <3>3
    <3> QED
      BY <3>1, <3>2, <3>4 DEF WellPlaced
  <2>2. CASE i > m
    <3>0. i - m \in 1..k /\ ~(i <= m)
      <4> HIDE DEF m, k
      <4> QED
        BY <1>1, <2>2
    <3>3. Sound(b[i - m]) /\ \/ WellPlaced(b, i - m)
                             \/ i - m = 1 /\ a # <<>> /\ Follows(b[1], a[m])
      BY <3>0
    <3> HIDE DEF m, k
    <3>2. long[i] = b[i - m]
      BY <1>1, <3>0
    <3>4. i - m > 1 => i > 1 /\ i - 1 \in 1..m + k /\ ~(i - 1 <= m) /\ (i - 1) - m = (i - m) - 1
      BY <1>1, <3>0
    <3>5. i - m > 1 => i > 1 /\ long[i - 1] = b[(i - m) - 1]
      BY <1>1, <3>4
    <3>6. CASE WellPlaced(b, i - m)
      BY <3>2, <3>3, <3>5, <3>6 DEF WellPlaced
    <3>7. CASE i - m = 1 /\ a # <<>> /\ Follows(b[1], a[m])
      <4>1. i > 1 /\ i - 1 = m /\ m \in 1..m + k /\ m <= m
        BY <1>1, <2>0, <3>7
      <4>2. long[i - 1] = a[m]
        BY <1>1, <4>1
      <4> QED
        BY <3>2, <3>3, <3>7, <4>1, <4>2 DEF WellPlaced
    <3> QED
      BY <3>3, <3>6, <3>7
  <2>3. i <= m \/ i > m
    BY <1>1
  <2> QED
    BY <2>1, <2>2, <2>3
<1> HIDE DEF long, m, k
<1> QED
  BY <1>1, <1>2 DEF WellFormed, long

\* A whole file under another.
LEMMA WellFormedConcat ==
  ASSUME NEW a, NEW b, WellFormed(a), WellFormed(b)
  PROVE  WellFormed(a \o b)
<1>1. b \in Seq(Hooks) /\ \A i \in 1..Len(b) : Sound(b[i]) /\ WellPlaced(b, i)
  BY DEF WellFormed
<1> QED
  BY <1>1, WellFormedJoin

\* The first lines of a file.
LEMMA WellFormedPrefix ==
  ASSUME NEW a, WellFormed(a), NEW k \in Nat, k <= Len(a)
  PROVE  WellFormed(SubSeq(a, 1, k))
<1> DEFINE s == SubSeq(a, 1, k)
<1>1. a \in Seq(Hooks) /\ Len(a) \in Nat
  BY DEF WellFormed
<1>2. s \in Seq(Hooks) /\ Len(s) = k /\ \A i \in 1..k : s[i] = a[i]
  BY <1>1
<1> HIDE DEF s
<1>3. ASSUME NEW i \in 1..k PROVE Sound(s[i]) /\ WellPlaced(s, i)
  <2>1. i \in 1..Len(a) /\ (i > 1 => i - 1 \in 1..k)
    BY <1>1
  <2>2. Sound(a[i]) /\ WellPlaced(a, i)
    BY <2>1 DEF WellFormed
  <2> QED
    BY <1>2, <2>1, <2>2 DEF WellPlaced
<1> QED
  BY <1>2, <1>3 DEF WellFormed, s

\* Lines that take the place of like ones.
LEMMA WellFormedAlike ==
  ASSUME NEW a, WellFormed(a), NEW b \in Seq(Hooks), Len(a) = Len(b),
         \A i \in 1..Len(a) : \/ b[i] = a[i]
                              \/ /\ Sound(b[i]) /\ a[i][2] # "user" /\ b[i][2] # "user"
                                 /\ IsOurCommand(a[i]) <=> IsOurCommand(b[i])
                                 /\ Text(a[i]) \notin Headers /\ Text(b[i]) \notin Headers
  PROVE  WellFormed(b) /\ Only(b, UsersLines) = Only(a, UsersLines)
<1> DEFINE m == Len(a)
           Alike(i) == \/ b[i] = a[i]
                       \/ /\ Sound(b[i]) /\ a[i][2] # "user" /\ b[i][2] # "user"
                          /\ IsOurCommand(a[i]) <=> IsOurCommand(b[i])
                          /\ Text(a[i]) \notin Headers /\ Text(b[i]) \notin Headers
<1>1. a \in Seq(Hooks) /\ m \in Nat /\ Len(b) = m /\ \A i \in 1..m : Alike(i)
  BY DEF WellFormed
<1>2. ASSUME NEW i \in 1..m
      PROVE  /\ Starts(a[i]) <=> Starts(b[i])
             /\ IsOurCommand(a[i]) <=> IsOurCommand(b[i])
             /\ a[i] \in Owned \/ b[i] \in Owned => b[i] = a[i]
             /\ Sound(a[i]) => Sound(b[i])
  <2>1. Alike(i)
    BY <1>1
  <2> QED
    BY <2>1, TextsDiffer DEF Starts, Owned
<1> HIDE DEF m, Alike
<1>3. ASSUME NEW i \in 1..m PROVE Sound(b[i]) /\ WellPlaced(b, i)
  <2>1. Sound(a[i]) /\ WellPlaced(a, i)
    BY DEF WellFormed, m
  <2>2. Sound(b[i]) /\ (Starts(a[i]) <=> Starts(b[i]))
    BY <1>2, <2>1
  <2>3. ASSUME i > 1, ~Starts(a[i]), Follows(a[i], a[i - 1]) PROVE Follows(b[i], b[i - 1])
    <3>1. i - 1 \in 1..m
      BY <1>1, <2>3
    <3>2. /\ IsOurCommand(a[i]) <=> IsOurCommand(b[i])
          /\ a[i] \in Owned \/ b[i] \in Owned => b[i] = a[i]
          /\ IsOurCommand(a[i - 1]) <=> IsOurCommand(b[i - 1])
          /\ a[i - 1] \in Owned \/ b[i - 1] \in Owned => b[i - 1] = a[i - 1]
      BY <1>2, <3>1
    <3> QED
      BY <2>3, <3>2 DEF Follows, Owned
  <2> QED
    BY <2>1, <2>2, <2>3 DEF WellPlaced
<1>4. WellFormed(b)
  BY <1>1, <1>3 DEF WellFormed
<1>5. \A i \in 1..m : b[i] = a[i] \/ (b[i] \notin UsersLines /\ a[i] \notin UsersLines)
  BY <1>1 DEF Alike, UsersLines
<1>6. Only(b, UsersLines) = Only(a, UsersLines)
  BY <1>1, <1>5, OnlyAlike
<1> QED
  BY <1>4, <1>6

\* The lines that are merged.
LEMMA OurLines ==
  ASSUME NEW variant \in {"sh", "ps1"}
  PROVE  /\ <<OurCommand[variant], "thlibo">> \in Hooks
         /\ IsOurCommand(<<OurCommand[variant], "thlibo">>)
         /\ Sound(<<OurCommand[variant], "thlibo">>)
         /\ OurGroup \in Hooks /\ OurGroupHook \in Hooks /\ Sound(OurGroup) /\ Sound(OurGroupHook)
<1>1. OurCommand[variant] \in {OurCommand.sh, OurCommand.ps1}
  BY DEF OurCommand
<1>2. Names \X Names = Hooks /\ "thlibo" \in Names /\ Headers \subseteq Names
      /\ {OurCommand.sh, OurCommand.ps1} \subseteq Names
  BY DEF Names, Hooks
<1>3. /\ <<OurCommand[variant], "thlibo">> \in Hooks
      /\ IsOurCommand(<<OurCommand[variant], "thlibo">>)
      /\ Text(<<OurCommand[variant], "thlibo">>) = OurCommand[variant]
      /\ <<OurCommand[variant], "thlibo">>[2] = "thlibo"
  BY <1>1, <1>2 DEF IsOurCommand, Text
<1>4. OurCommand[variant] # TrustedState /\ OurCommand[variant] \notin Flags
  BY <1>1 DEF OurCommand, TrustedState, Flags
<1>5. Sound(<<OurCommand[variant], "thlibo">>)
  BY <1>3, <1>4 DEF Sound
<1>6. OurGroup \in Hooks /\ OurGroupHook \in Hooks
  BY <1>2, TextsDiffer DEF OurGroup, OurGroupHook
<1>7. Sound(OurGroup) /\ Sound(OurGroupHook)
  BY TextsDiffer DEF Sound
<1> QED
  BY <1>3, <1>5, <1>6, <1>7

\* mergeConfigTOMLHook, whether a command is replaced or a block appended.
LEMMA MergeConfigTOMLHookKeeps ==
  ASSUME NEW lines, WellFormed(lines), NEW variant \in {"sh", "ps1"}
  PROVE  /\ WellFormed(MergeConfigTOMLHook(lines, variant))
         /\ Only(MergeConfigTOMLHook(lines, variant), UsersLines) = Only(lines, UsersLines)
<1> DEFINE com == <<OurCommand[variant], "thlibo">>
           block == <<OurGroup, OurGroupHook, com>>
<1>0. lines \in Seq(Hooks) /\ DOMAIN lines = 1..Len(lines) /\ Len(lines) \in Nat
  BY DEF WellFormed
<1>1. /\ com \in Hooks /\ IsOurCommand(com) /\ Sound(com) /\ com[2] = "thlibo"
      /\ OurGroup \in Hooks /\ OurGroupHook \in Hooks /\ Sound(OurGroup) /\ Sound(OurGroupHook)
  BY OurLines
<1>2. CASE \E i \in DOMAIN lines : IsOurCommand(lines[i])
  <2> DEFINE new == [i \in DOMAIN lines |-> IF IsOurCommand(lines[i]) THEN com ELSE lines[i]]
  <2>1. MergeConfigTOMLHook(lines, variant) = new
    BY <1>2 DEF MergeConfigTOMLHook
  <2> HIDE DEF com
  <2>2. new \in Seq(Hooks) /\ Len(lines) = Len(new)
    BY <1>0, <1>1
  <2>3. ASSUME NEW i \in 1..Len(lines)
        PROVE  \/ new[i] = lines[i]
               \/ /\ Sound(new[i]) /\ lines[i][2] # "user" /\ new[i][2] # "user"
                  /\ IsOurCommand(lines[i]) <=> IsOurCommand(new[i])
                  /\ Text(lines[i]) \notin Headers /\ Text(new[i]) \notin Headers
    <3>1. CASE IsOurCommand(lines[i])
      <4>1. new[i] = com
        BY <1>0, <3>1
      <4>2. lines[i][2] = "thlibo"
        BY <3>1 DEF WellFormed, Sound
      <4> HIDE DEF new
      <4> QED
        BY <1>1, <3>1, <4>1, <4>2, TextsDiffer
    <3>2. CASE ~IsOurCommand(lines[i])
      BY <1>0, <3>2
    <3> QED
      BY <3>1, <3>2
  <2> HIDE DEF new
  <2>4. WellFormed(new) /\ Only(new, UsersLines) = Only(lines, UsersLines)
    BY <2>2, <2>3, WellFormedAlike
  <2> QED
    BY <2>1, <2>4
<1>3. CASE ~\E i \in DOMAIN lines : IsOurCommand(lines[i])
  <2>1. MergeConfigTOMLHook(lines, variant) = lines \o block
    BY <1>3 DEF MergeConfigTOMLHook, OurGroup, OurGroupHook
  <2> HIDE DEF com
  <2>2. WellFormed(block)
    <3>1. block \in Seq(Hooks) /\ Len(block) = 3
          /\ block[1] = OurGroup /\ block[2] = OurGroupHook /\ block[3] = com
      BY <1>1
    <3> HIDE DEF block
    <3>2. WellPlaced(block, 1)
      BY <3>1, TextsDiffer DEF WellPlaced, Starts
    <3>3. WellPlaced(block, 2)
      <4>1. Follows(block[2], block[2 - 1])
        BY <3>1, TextsDiffer DEF Follows
      <4> QED
        BY <4>1 DEF WellPlaced
    <3>4. WellPlaced(block, 3)
      <4>1. Follows(block[3], block[3 - 1])
        BY <1>1, <3>1 DEF Follows
      <4> QED
        BY <4>1 DEF WellPlaced
    <3>5. \A i \in 1..3 : i = 1 \/ i = 2 \/ i = 3
      OBVIOUS
    <3> QED
      BY <1>1, <3>1, <3>2, <3>3, <3>4, <3>5 DEF WellFormed
  <2>3. Only(block, UsersLines) = <<>>
    <3> DEFINE E == {OurGroup, OurGroupHook, com}
    <3>1. block \in Seq(E)
      OBVIOUS
    <3>2. E \cap UsersLines = {}
      BY <1>1, TextsDiffer DEF UsersLines
    <3> HIDE DEF E, block
    <3> QED
      BY <3>1, <3>2, OnlyNone
  <2>4. block \in Seq(Hooks)
    BY <2>2 DEF WellFormed
  <2> HIDE DEF block
  <2>5. Only(lines \o block, UsersLines) = Only(lines, UsersLines) \o Only(block, UsersLines)
    BY <1>0, <2>4, OnlyConcat
  <2>6. Only(lines, UsersLines) \in Seq(Hooks)
    BY <1>0, OnlyType
  <2>7. Only(lines, UsersLines) \o <<>> = Only(lines, UsersLines)
    BY <2>6
  <2>8. WellFormed(lines \o block)
    BY <2>2, WellFormedConcat
  <2> QED
    BY <2>1, <2>3, <2>5, <2>7, <2>8
<1> QED
  BY <1>2, <1>3

\* A list, cut behind one of its elements.
LEMMA Cut ==
  ASSUME NEW E, NEW s \in Seq(E), NEW k \in 1..Len(s)
  PROVE  /\ SubSeq(s, 1, k) \in Seq(E) /\ Len(SubSeq(s, 1, k)) = k /\ SubSeq(s, 1, k)[k] = s[k]
         /\ SubSeq(s, 1, k) # <<>>
         /\ SubSeq(s, k + 1, Len(s)) \in Seq(E) /\ Len(SubSeq(s, k + 1, Len(s))) = Len(s) - k
         /\ \A i \in 1..Len(s) - k : SubSeq(s, k + 1, Len(s))[i] = s[k + i]
         /\ SubSeq(s, 1, k) \o SubSeq(s, k + 1, Len(s)) = s
<1> DEFINE a == SubSeq(s, 1, k)
           c == SubSeq(s, k + 1, Len(s))
<1>1. /\ a \in Seq(E) /\ Len(a) = k /\ c \in Seq(E) /\ Len(c) = Len(s) - k
      /\ \A i \in 1..k : a[i] = s[i]
      /\ \A i \in 1..Len(s) - k : c[i] = s[k + i]
  OBVIOUS
<1>2. Len(s) \in Nat /\ k \in 1..k /\ k # 0 /\ Len(<<>>) = 0
  OBVIOUS
<1> HIDE DEF a, c
<1>3. Len(a \o c) = Len(a) + Len(c) /\ a \o c \in Seq(E)
      /\ \A j \in 1..Len(a) + Len(c) : (a \o c)[j] = IF j <= Len(a) THEN a[j] ELSE c[j - Len(a)]
  BY <1>1, ConcatProperties
<1>4. ASSUME NEW j \in 1..Len(s) PROVE (a \o c)[j] = s[j]
  <2>1. j \in 1..Len(a) + Len(c)
    BY <1>1, <1>2
  <2>2. CASE j <= k
    BY <1>1, <1>2, <1>3, <2>1, <2>2
  <2>3. CASE ~(j <= k)
    <3>1. j - k \in 1..Len(s) - k /\ k + (j - k) = j
      BY <1>2, <2>3
    <3> QED
      BY <1>1, <1>3, <2>1, <2>3, <3>1
  <2> QED
    BY <2>2, <2>3
<1>5. Len(a \o c) = Len(s)
  BY <1>1, <1>2, <1>3
<1>6. a \o c = s
  BY <1>3, <1>4, <1>5, SeqEqual
<1>7. a[k] = s[k] /\ a # <<>>
  BY <1>1, <1>2
<1> QED
  BY <1>1, <1>6, <1>7 DEF a, c

\* A list that is one longer.
LEMMA Longer ==
  ASSUME NEW E, NEW s \in Seq(E), NEW x \in E
  PROVE  /\ s \o <<x>> = Append(s, x) /\ Append(s, x) \in Seq(E)
         /\ Append(s, x) # <<>> /\ Append(s, x)[Len(Append(s, x))] = x
OBVIOUS

\* A list of two.
LEMMA TwoLong ==
  ASSUME NEW E, NEW x \in E, NEW y \in E
  PROVE  <<x, y>> \in Seq(E) /\ Len(<<x, y>>) = 2 /\ <<x, y>>[1] = x /\ <<x, y>>[2] = y
OBVIOUS

\* A list with one element changed.
LEMMA Changed ==
  ASSUME NEW E, NEW s \in Seq(E), NEW k \in 1..Len(s), NEW x \in E
  PROVE  /\ [s EXCEPT ![k] = x] \in Seq(E) /\ Len([s EXCEPT ![k] = x]) = Len(s)
         /\ [s EXCEPT ![k] = x][k] = x
         /\ \A i \in 1..Len(s) : i # k => [s EXCEPT ![k] = x][i] = s[i]
OBVIOUS

\* An element that is not selected, put in between.
LEMMA OnlyInserted ==
  ASSUME NEW E, NEW a \in Seq(E), NEW x \in E, NEW c \in Seq(E), NEW set, x \notin set
  PROVE  Only(Append(a, x) \o c, set) = Only(a \o c, set)
<1>1. Append(a, x) \in Seq(E)
  OBVIOUS
<1>2. Only(Append(a, x) \o c, set) = Only(Append(a, x), set) \o Only(c, set)
  BY <1>1, OnlyConcat
<1>3. Only(a \o c, set) = Only(a, set) \o Only(c, set)
  BY OnlyConcat
<1>4. Only(Append(a, x), set) = Only(a, set)
  BY OnlyAppend
<1> QED
  BY <1>2, <1>3, <1>4

\* ensureCodexHooksTrue.
LEMMA EnsureCodexHooksTrueKeeps ==
  ASSUME NEW lines, WellFormed(lines)
  PROVE  /\ WellFormed(EnsureCodexHooksTrue(lines))
         /\ Only(EnsureCodexHooksTrue(lines), UsersLines) = Only(lines, UsersLines)
<1> DEFINE on == <<"hooks = true", "flag">>
           head == <<"[features]", "thlibo">>
           I == {i \in 1..Len(lines) : Text(lines[i]) = "[features]"}
           f == Min(I)
           flags == {i \in DOMAIN lines : HeaderOf(lines, i) = f /\ Text(lines[i]) \in Flags}
           first == Min(flags)
<1>0. lines \in Seq(Hooks) /\ DOMAIN lines = 1..Len(lines) /\ Len(lines) \in Nat
  BY DEF WellFormed
<1>1. /\ on \in Hooks /\ Text(on) = "hooks = true" /\ Text(on) \in Flags /\ on[2] = "flag"
      /\ on \notin Owned /\ ~IsOurCommand(on) /\ Sound(on) /\ on \notin UsersLines
      /\ Text(on) \notin Headers
  <2>1. on \in Hooks /\ Text(on) = "hooks = true" /\ on[2] = "flag" /\ "hooks = true" \in Flags
    BY DEF Hooks, Names, Flags, Text
  <2>2. Text(on) # TrustedState /\ Text(on) \notin Headers
    BY <2>1, TextsDiffer DEF Headers
  <2>3. ~IsOurCommand(on)
    BY <2>1, TextsDiffer
  <2> HIDE DEF on
  <2> QED
    BY <2>1, <2>2, <2>3, TextsDiffer DEF Owned, Sound, UsersLines
<1>2. /\ head \in Hooks /\ Sound(head) /\ Starts(head) /\ head \notin UsersLines
      /\ head \notin Owned /\ ~IsOurCommand(head)
  <2>1. head \in Hooks /\ Text(head) = "[features]" /\ head[2] = "thlibo"
    BY DEF Hooks, Names, Headers, Text
  <2>2. "[features]" \notin {Group, GroupHook, TrustedState} /\ "[features]" \notin Flags
    BY DEF Group, GroupHook, TrustedState, Flags
  <2> HIDE DEF head
  <2> QED
    BY <2>1, <2>2, TextsDiffer DEF Owned, Sound, Starts, UsersLines
<1>3. CASE I = {}
  <2>1. EnsureCodexHooksTrue(lines) = lines \o <<head, on>>
    BY <1>3 DEF EnsureCodexHooksTrue, SelectInSeq
  <2> DEFINE block == <<head, on>>
  <2> HIDE DEF on, head
  <2>2. block \in Seq(Hooks) /\ Len(block) = 2 /\ block[1] = head /\ block[2] = on
    <3>1. head \in Hooks /\ on \in Hooks
      BY <1>1, <1>2
    <3> QED
      BY <3>1, TwoLong
  <2>3. Only(block, UsersLines) = <<>>
    <3>1. {head, on} \cap UsersLines = {}
      BY <1>1, <1>2
    <3>2. block \in Seq({head, on})
      BY TwoLong
    <3> HIDE DEF block
    <3> QED
      BY <3>1, <3>2, OnlyNone
  <2> HIDE DEF block
  <2>4. WellFormed(block)
    <3>1. WellPlaced(block, 1)
      BY <1>2, <2>2 DEF WellPlaced
    <3>2. WellPlaced(block, 2)
      <4>1. Follows(on, head)
        <5>1. on # OurGroupHook /\ ~IsOurCommand(on) /\ ~IsOurCommand(head) /\ head \notin Owned
          BY <1>1, <1>2 DEF Owned
        <5> QED
          BY <5>1 DEF Follows
      <4>2. block[2] = on /\ block[2 - 1] = head
        BY <2>2
      <4>3. Follows(block[2], block[2 - 1])
        BY <4>1, <4>2
      <4> QED
        BY <4>3 DEF WellPlaced
    <3>3. \A i \in 1..2 : i = 1 \/ i = 2
      OBVIOUS
    <3> QED
      BY <1>1, <1>2, <2>2, <3>1, <3>2, <3>3 DEF WellFormed
  <2>5. Only(lines \o block, UsersLines) = Only(lines, UsersLines) \o Only(block, UsersLines)
    BY <1>0, <2>2, OnlyConcat
  <2>6. Only(lines, UsersLines) \in Seq(Hooks)
    BY <1>0, OnlyType
  <2>7. Only(lines, UsersLines) \o <<>> = Only(lines, UsersLines)
    BY <2>6
  <2>8. WellFormed(lines \o block)
    BY <2>4, WellFormedConcat
  <2> QED
    BY <2>1, <2>3, <2>5, <2>7, <2>8 DEF block
<1>4. CASE I # {}
  <2>1. f \in I /\ f \in 1..Len(lines) /\ f # 0
    <3>1. I \subseteq 1..Len(lines)
      OBVIOUS
    <3> HIDE DEF I
    <3> QED
      BY <1>0, <1>4, <3>1, FirstPlace
  <2>2. Text(lines[f]) = "[features]"
    <3> HIDE DEF f
    <3> QED
      BY <2>1
  <2>3. CASE flags = {}
    <3> DEFINE a == SubSeq(lines, 1, f)
               c == SubSeq(lines, f + 1, Len(lines))
    <3>1. EnsureCodexHooksTrue(lines) = InsertAt(lines, f + 1, on)
      BY <1>4, <2>1, <2>3 DEF EnsureCodexHooksTrue, SelectInSeq
    <3> HIDE DEF f, on, flags
    <3>2. /\ a \in Seq(Hooks) /\ Len(a) = f /\ a[f] = lines[f] /\ a # <<>>
          /\ c \in Seq(Hooks) /\ Len(c) = Len(lines) - f
          /\ \A i \in 1..Len(lines) - f : c[i] = lines[f + i]
          /\ a \o c = lines
      BY <1>0, <2>1, Cut
    <3>3. InsertAt(lines, f + 1, on) = Append(a, on) \o c
      <4>1. (f + 1) - 1 = f
        BY <2>1
      <4>2. InsertAt(lines, f + 1, on) = a \o <<on>> \o c
        BY <4>1 DEF InsertAt
      <4> HIDE DEF a, c
      <4>3. a \o <<on>> = Append(a, on)
        <5>1. on \in Hooks /\ a \in Seq(Hooks)
          BY <1>1, <3>2 DEF a
        <5> QED
          BY <5>1, Longer
      <4> QED
        BY <4>2, <4>3 DEF a, c
    <3>4. WellFormed(a)
      BY <2>1, WellFormedPrefix
    <3> HIDE DEF a, c
    <3> DEFINE b == Append(a, on)
    <3>5. WellFormed(b)
      <4>1. Follows(on, a[Len(a)])
        <5>1. ~IsOurCommand(lines[f]) /\ lines[f] \notin Owned
          <6>1. "[features]" # Group /\ "[features]" # GroupHook
            BY DEF Group, GroupHook
          <6> QED
            BY <2>2, <6>1, TextsDiffer DEF Owned
        <5>2. on # OurGroupHook
          BY <1>1 DEF Owned
        <5> QED
          BY <1>1, <3>2, <5>1, <5>2 DEF Follows
      <4> QED
        BY <1>1, <3>2, <3>4, <4>1, WellFormedAppend
    <3>6. b # <<>> /\ b[Len(b)] = on /\ b \in Seq(Hooks)
      <4>1. on \in Hooks /\ a \in Seq(Hooks)
        BY <1>1, <3>2
      <4> QED
        BY <4>1, Longer
    <3> HIDE DEF b
    <3>7. ASSUME NEW i \in 1..Len(c)
          PROVE  Sound(c[i]) /\ (WellPlaced(c, i) \/ (i = 1 /\ b # <<>> /\ Follows(c[1], b[Len(b)])))
      <4>1. i \in 1..Len(lines) - f /\ f + i \in 1..Len(lines) /\ f + i > 1
        BY <1>0, <2>1, <3>2
      <4>2. c[i] = lines[f + i]
        BY <3>2, <4>1
      <4>3. Sound(lines[f + i]) /\ WellPlaced(lines, f + i)
        BY <4>1 DEF WellFormed
      <4>4. CASE i > 1
        <5>1. i - 1 \in 1..Len(lines) - f /\ f + (i - 1) = (f + i) - 1
          BY <1>0, <2>1, <4>1, <4>4
        <5>2. c[i - 1] = lines[(f + i) - 1]
          BY <3>2, <5>1
        <5> QED
          BY <4>2, <4>3, <4>4, <5>2 DEF WellPlaced
      <4>5. CASE i = 1
        <5>1. (f + i) - 1 = f
          BY <2>1, <4>5
        <5>2. Starts(c[i]) \/ Follows(c[i], lines[f])
          BY <4>2, <4>3, <5>1 DEF WellPlaced
        <5>3. lines[f] # OurGroup /\ lines[f] # OurGroupHook
          <6>1. "[features]" # Group /\ "[features]" # GroupHook
            BY DEF Group, GroupHook
          <6> QED
            BY <2>2, <6>1, TextsDiffer
        <5>4. Starts(c[i]) \/ Follows(c[i], on)
          BY <1>1, <5>2, <5>3 DEF Follows
        <5> QED
          BY <3>6, <4>2, <4>3, <4>5, <5>4 DEF WellPlaced
      <4>6. i > 1 \/ i = 1
        OBVIOUS
      <4> QED
        BY <4>4, <4>5, <4>6
    <3>8. WellFormed(b \o c)
      BY <3>2, <3>5, <3>7, WellFormedJoin
    <3>9. Only(b \o c, UsersLines) = Only(a \o c, UsersLines)
      <4>1. on \in Hooks /\ on \notin UsersLines /\ a \in Seq(Hooks) /\ c \in Seq(Hooks)
        BY <1>1, <3>2
      <4>2. Only(Append(a, on) \o c, UsersLines) = Only(a \o c, UsersLines)
        BY <4>1, OnlyInserted
      <4> QED
        BY <4>2 DEF b
    <3> QED
      BY <3>1, <3>2, <3>3, <3>8, <3>9 DEF b
  <2>4. CASE flags # {}
    <3>1. flags \subseteq 1..Len(lines)
      BY <1>0
    <3>2. first \in flags /\ first \in 1..Len(lines)
      <4> HIDE DEF flags
      <4> QED
        BY <1>0, <2>4, <3>1, FirstPlace
    <3>3. Text(lines[first]) \in Flags
      <4> HIDE DEF first
      <4> QED
        BY <3>2
    <3>4. EnsureCodexHooksTrue(lines) = IF Text(lines[first]) = "hooks = true" THEN lines
                                        ELSE [lines EXCEPT ![first] = on]
      BY <1>4, <2>1, <2>4 DEF EnsureCodexHooksTrue, SelectInSeq
    <3> HIDE DEF first, on, flags, f
    <3> DEFINE new == [lines EXCEPT ![first] = on]
    <3>5. lines[first][2] = "flag" /\ ~IsOurCommand(lines[first]) /\ Text(lines[first]) \notin Headers
      <4>1. Sound(lines[first])
        BY <3>2 DEF WellFormed
      <4> QED
        BY <3>3, <4>1, TextsDiffer DEF Sound
    <3>6. new \in Seq(Hooks) /\ Len(lines) = Len(new) /\ new[first] = on
          /\ \A i \in 1..Len(lines) : i # first => new[i] = lines[i]
      <4>1. on \in Hooks /\ first \in 1..Len(lines)
        BY <1>1, <3>2
      <4> QED
        BY <1>0, <4>1, Changed
    <3> HIDE DEF new
    <3>7. \A i \in 1..Len(lines) :
            \/ new[i] = lines[i]
            \/ /\ Sound(new[i]) /\ lines[i][2] # "user" /\ new[i][2] # "user"
               /\ IsOurCommand(lines[i]) <=> IsOurCommand(new[i])
               /\ Text(lines[i]) \notin Headers /\ Text(new[i]) \notin Headers
      BY <1>1, <3>5, <3>6
    <3>8. WellFormed(new) /\ Only(new, UsersLines) = Only(lines, UsersLines)
      BY <3>6, <3>7, WellFormedAlike
    <3> QED
      BY <3>4, <3>8 DEF new
  <2> QED
    BY <2>3, <2>4
<1> QED
  BY <1>3, <1>4

-----------------------------------------------------------------------------
(* What is removed is gone.                                                  *)

\* What is left: groups of the user's hooks, none of them empty.
UsersGroups == {g \in Groups : g.hooks \in Seq(UsersHooks)}

\* What WithoutOurs leaves, as a selection.
LEMMA WithoutOursIs ==
  ASSUME NEW groups \in Seq(Groups)
  PROVE  /\ WithoutOurs(groups) = Only(Stripped(groups), Filled)
         /\ WithoutOurs(groups) \in Seq(UsersGroups \cap Filled)
<1>1. WithoutOurs(groups) = Only(Stripped(groups), Filled)
  <2>1. [i \in DOMAIN groups |-> [groups[i] EXCEPT !.hooks = Select(@, IsUser)]] = Stripped(groups)
    <3>1. \A i \in DOMAIN groups : groups[i].hooks \in Seq(Hooks)
      <4>1. \A i \in DOMAIN groups : groups[i] \in Groups
        OBVIOUS
      <4> QED
        BY <4>1 DEF Groups
    <3>2. \A i \in DOMAIN groups : Select(groups[i].hooks, IsUser) = Only(groups[i].hooks, UsersHooks)
      BY <3>1, Selected
    <3> QED
      BY <3>2 DEF Stripped
  <2>2. Stripped(groups) \in Seq(Groups)
    BY StrippedType
  <2> QED
    BY <2>1, <2>2, GroupsSelected DEF WithoutOurs, Filled
<1>2. Stripped(groups) \in Seq(UsersGroups)
  <2>1. \A i \in 1..Len(groups) : Stripped(groups)[i] \in UsersGroups
    <3> SUFFICES ASSUME NEW i \in 1..Len(groups) PROVE Stripped(groups)[i] \in UsersGroups
      OBVIOUS
    <3>1. groups[i].hooks \in Seq(Hooks)
      <4>1. groups[i] \in Groups
        OBVIOUS
      <4> QED
        BY <4>1 DEF Groups
    <3>2. Only(groups[i].hooks, UsersHooks) \in Seq(Hooks \cap UsersHooks)
      BY <3>1, OnlyType
    <3>3. Hooks \cap UsersHooks = UsersHooks
      BY DEF UsersHooks
    <3>4. Stripped(groups)[i] \in Groups
          /\ Stripped(groups)[i].hooks = Only(groups[i].hooks, UsersHooks)
      <4>1. Stripped(groups)[i] \in Groups
            /\ Stripped(groups)[i] = [matcher |-> groups[i].matcher, hooks |-> Only(groups[i].hooks, UsersHooks)]
        BY StrippedType
      <4> QED
        BY <4>1
    <3> QED
      BY <3>2, <3>3, <3>4 DEF UsersGroups
  <2>2. Stripped(groups) \in Seq(Groups) /\ Len(Stripped(groups)) = Len(groups)
    BY StrippedType
  <2> QED
    BY <2>1, <2>2
<1>3. Only(Stripped(groups), Filled) \in Seq(UsersGroups \cap Filled)
  BY <1>2, OnlyType
<1> QED
  BY <1>1, <1>3

\* Removing what is gone changes nothing.
LEMMA WithoutOursTwice ==
  ASSUME NEW groups \in Seq(Groups)
  PROVE  WithoutOurs(WithoutOurs(groups)) = WithoutOurs(groups)
<1> DEFINE d == WithoutOurs(groups)
           Both == UsersGroups \cap Filled
<1>1. d \in Seq(Both) /\ Both \subseteq Filled
  BY WithoutOursIs
<1>2. Both \subseteq Groups
  BY DEF Filled
<1> HIDE DEF d, Both
<1>3. d \in Seq(Groups)
  BY <1>1, <1>2, SeqGrows
<1>4. Only(d, Filled) = d
  BY <1>1, OnlyAll
<1>5. Stripped(d) = d
  <2>1. ASSUME NEW i \in 1..Len(d) PROVE Stripped(d)[i] = d[i]
    <3>1. d[i] \in Both
      BY <1>1
    <3>2. d[i] \in Groups /\ d[i].hooks \in Seq(UsersHooks)
      BY <3>1 DEF Both, UsersGroups
    <3>3. Only(d[i].hooks, UsersHooks) = d[i].hooks
      BY <3>2, OnlyAll
    <3>4. Stripped(d)[i] = [matcher |-> d[i].matcher, hooks |-> Only(d[i].hooks, UsersHooks)]
      BY <1>3, StrippedType
    <3> QED
      BY <3>2, <3>3, <3>4 DEF Groups
  <2>2. Stripped(d) \in Seq(Groups) /\ Len(Stripped(d)) = Len(d)
    BY <1>3, StrippedType
  <2> QED
    BY <1>3, <2>1, <2>2
<1>6. WithoutOurs(d) = Only(Stripped(d), Filled)
  BY <1>3, WithoutOursIs
<1> QED
  BY <1>4, <1>5, <1>6 DEF d

\* The same of Cursor's hooks.
LEMMA RemoveHooksJSONEntriesTwice ==
  ASSUME NEW flat \in Seq(Hooks)
  PROVE  RemoveHooksJSONEntries(RemoveHooksJSONEntries(flat)) = RemoveHooksJSONEntries(flat)
<1> DEFINE d == Only(flat, UsersHooks)
<1>1. d \in Seq(Hooks) /\ d \in Seq(Hooks \cap UsersHooks)
  BY OnlyType
<1>2. RemoveHooksJSONEntries(flat) = d
  BY Selected DEF RemoveHooksJSONEntries
<1>3. Hooks \cap UsersHooks \subseteq UsersHooks
  OBVIOUS
<1> HIDE DEF d
<1>4. Only(d, UsersHooks) = d
  BY <1>1, <1>3, OnlyAll
<1>5. RemoveHooksJSONEntries(d) = Only(d, UsersHooks)
  BY <1>1, Selected DEF RemoveHooksJSONEntries
<1> QED
  BY <1>2, <1>4, <1>5

-----------------------------------------------------------------------------
(* One element of a kind.                                                    *)

\* At most one place of a list has an element of the set.
Once(seq, set) == \A i, j \in DOMAIN seq : seq[i] \in set /\ seq[j] \in set => i = j

\* Exactly one place has an element of the set, and it is x.
Sole(seq, set, x) ==
  \E k \in DOMAIN seq : seq[k] = x /\ \A i \in DOMAIN seq : seq[i] \in set <=> i = k

\* What is selected if at most place k is: k may lie behind the end.
LEMMA OnlyPlace ==
  ASSUME NEW E, NEW seq \in Seq(E), NEW set, NEW k \in Nat \ {0},
         \A i \in 1..Len(seq) : seq[i] \in set <=> i = k
  PROVE  Only(seq, set) = IF k <= Len(seq) THEN <<seq[k]>> ELSE <<>>
<1> DEFINE f == OnlyUpTo(seq, set)
           S == {n \in Nat : n <= Len(seq) => f[n] = IF k <= n THEN <<seq[k]>> ELSE <<>>}
<1>1. /\ Only(seq, set) = f[Len(seq)] /\ f[0] = <<>>
      /\ \A n \in 1..Len(seq) : f[n] = IF seq[n] \in set THEN Append(f[n - 1], seq[n]) ELSE f[n - 1]
  BY OnlyDef
<1> HIDE DEF f
<1>2. 0 \in S
  BY <1>1
<1>3. ASSUME NEW n \in Nat, n \in S PROVE n + 1 \in S
  <2> SUFFICES ASSUME n + 1 <= Len(seq) PROVE f[n + 1] = IF k <= n + 1 THEN <<seq[k]>> ELSE <<>>
    OBVIOUS
  <2>1. n + 1 \in 1..Len(seq) /\ (n + 1) - 1 = n /\ n <= Len(seq) /\ Len(seq) \in Nat
    OBVIOUS
  <2>2. f[n] = IF k <= n THEN <<seq[k]>> ELSE <<>>
    BY <1>3, <2>1
  <2>3. f[n + 1] = IF seq[n + 1] \in set THEN Append(f[n], seq[n + 1]) ELSE f[n]
    BY <1>1, <2>1
  <2>4. seq[n + 1] \in set <=> n + 1 = k
    BY <2>1
  <2> HIDE DEF S
  <2>5. CASE n + 1 = k
    <3>1. f[n] = <<>>
      BY <2>2, <2>5
    <3>2. Append(<<>>, seq[n + 1]) = <<seq[n + 1]>>
      OBVIOUS
    <3> QED
      BY <2>3, <2>4, <2>5, <3>1, <3>2
  <2>6. CASE n + 1 # k
    BY <2>2, <2>3, <2>4, <2>6
  <2> QED
    BY <2>5, <2>6
<1>4. \A n \in Nat : n \in S
  <2> HIDE DEF S
  <2> QED
    BY <1>2, <1>3, Induction
<1>5. Len(seq) \in Nat
  OBVIOUS
<1> QED
  BY <1>1, <1>4, <1>5

\* The only element of a kind, selected.
LEMMA OnlySole ==
  ASSUME NEW E, NEW seq \in Seq(E), NEW set, NEW x, Sole(seq, set, x)
  PROVE  Only(seq, set) = <<x>>
<1>1. PICK k \in DOMAIN seq : seq[k] = x /\ \A i \in DOMAIN seq : seq[i] \in set <=> i = k
  BY DEF Sole
<1>2. k \in Nat \ {0} /\ k <= Len(seq) /\ \A i \in 1..Len(seq) : seq[i] \in set <=> i = k
  BY <1>1
<1>3. Only(seq, set) = IF k <= Len(seq) THEN <<seq[k]>> ELSE <<>>
  BY <1>2, OnlyPlace
<1> QED
  BY <1>1, <1>2, <1>3

\* No element of a kind.
LEMMA OnlyNowhere ==
  ASSUME NEW E, NEW seq \in Seq(E), NEW set, \A i \in 1..Len(seq) : seq[i] \notin set
  PROVE  Only(seq, set) = <<>>
<1> DEFINE k == Len(seq) + 1
<1>1. k \in Nat \ {0} /\ ~(k <= Len(seq)) /\ \A i \in 1..Len(seq) : seq[i] \in set <=> i = k
  OBVIOUS
<1> HIDE DEF k
<1>2. Only(seq, set) = IF k <= Len(seq) THEN <<seq[k]>> ELSE <<>>
  BY <1>1, OnlyPlace
<1> QED
  BY <1>1, <1>2

\* The selection around one of the places.
SplitBy(seq, set, k, a, c) ==
  /\ Len(a) = k - 1 /\ Len(c) = Len(seq) - k
  /\ \A i \in 1..k - 1 : a[i] = seq[i]
  /\ \A i \in 1..Len(seq) - k : c[i] = seq[k + i]
  /\ Len(Only(seq, set)) = Len(Only(a, set)) + 1 + Len(Only(c, set))
  /\ Len(Only(a, set)) \in Nat /\ Len(Only(c, set)) \in Nat

\* Whatever place has an element of the set, the selection divides there.
LEMMA OnlyAt ==
  ASSUME NEW E, NEW seq \in Seq(E), NEW set, NEW k \in 1..Len(seq), seq[k] \in set
  PROVE  \E a \in Seq(E), c \in Seq(E) : SplitBy(seq, set, k, a, c)
<1> DEFINE a == SubSeq(seq, 1, k - 1)
           c == SubSeq(seq, k + 1, Len(seq))
           b == <<seq[k]>>
<1>1. /\ Len(a) = k - 1 /\ Len(c) = Len(seq) - k
      /\ \A i \in 1..k - 1 : a[i] = seq[i]
      /\ \A i \in 1..Len(seq) - k : c[i] = seq[k + i]
  OBVIOUS
<1>2. a \in Seq(E) /\ c \in Seq(E) /\ b \in Seq(E) /\ seq = Around(a, seq[k], c)
  BY SplitAt
<1>3. Only(b, set) = b
  <2>1. b = Append(<<>>, seq[k]) /\ <<>> \in Seq(E) /\ seq[k] \in E
    OBVIOUS
  <2>2. Only(Append(<<>>, seq[k]), set) = Append(Only(<<>>, set), seq[k])
    BY <2>1, OnlyAppend
  <2> QED
    BY <2>1, <2>2, OnlyEmpty
<1>4. Len(b) = 1 /\ seq = (a \o b) \o c
  BY <1>2 DEF Around
<1> HIDE DEF a, b, c
<1>5. a \o b \in Seq(E)
  BY <1>2
<1>6. Only((a \o b) \o c, set) = Only(a \o b, set) \o Only(c, set)
  BY <1>2, <1>5, OnlyConcat
<1>7. Only(a \o b, set) = Only(a, set) \o Only(b, set)
  BY <1>2, OnlyConcat
<1>8. Only(a, set) \in Seq(E) /\ Only(c, set) \in Seq(E)
  BY <1>2, OnlyType
<1>9. Only(seq, set) = (Only(a, set) \o b) \o Only(c, set)
  BY <1>3, <1>4, <1>6, <1>7
<1> DEFINE p == Only(a, set)
           q == Only(c, set)
<1>10. /\ Len(Only(seq, set)) = Len(p) + 1 + Len(q)
       /\ Len(p) \in Nat /\ Len(q) \in Nat
  <2>1. Only(seq, set) = (p \o b) \o q /\ p \in Seq(E) /\ q \in Seq(E) /\ b \in Seq(E)
    BY <1>2, <1>8, <1>9
  <2> HIDE DEF p, q
  <2>2. Len((p \o b) \o q) = Len(p) + Len(b) + Len(q)
    BY <2>1
  <2>3. Len(p) \in Nat /\ Len(q) \in Nat
    BY <2>1
  <2> QED
    BY <1>4, <2>1, <2>2, <2>3
<1>11. SplitBy(seq, set, k, a, c)
  BY <1>1, <1>10 DEF SplitBy
<1> QED
  BY <1>2, <1>11

\* An empty selection, or one of one element, and the places.
LEMMA NothingSelected ==
  ASSUME NEW E, NEW seq \in Seq(E), NEW set, Only(seq, set) = <<>>
  PROVE  \A i \in 1..Len(seq) : seq[i] \notin set
<1> SUFFICES ASSUME NEW k \in 1..Len(seq), seq[k] \in set PROVE FALSE
  OBVIOUS
<1>1. PICK a \in Seq(E), c \in Seq(E) : SplitBy(seq, set, k, a, c)
  BY OnlyAt
<1>2. Len(Only(seq, set)) = 0
  OBVIOUS
<1> QED
  BY <1>1, <1>2 DEF SplitBy

\* At most one element selected: at most one place has one.
LEMMA OneSelected ==
  ASSUME NEW E, NEW seq \in Seq(E), NEW set, Len(Only(seq, set)) <= 1
  PROVE  Once(seq, set)
<1>1. ASSUME NEW k \in 1..Len(seq), seq[k] \in set, NEW i \in 1..Len(seq), seq[i] \in set, i # k
      PROVE  FALSE
  <2>1. \E a \in Seq(E), c \in Seq(E) : SplitBy(seq, set, k, a, c)
    <3>1. seq[k] \in set
      BY <1>1
    <3> QED
      BY <3>1, OnlyAt
  <2>2. PICK a \in Seq(E), c \in Seq(E) : SplitBy(seq, set, k, a, c)
    BY <2>1
  <2>3. /\ Len(a) = k - 1 /\ Len(c) = Len(seq) - k
        /\ \A j \in 1..k - 1 : a[j] = seq[j]
        /\ \A j \in 1..Len(seq) - k : c[j] = seq[k + j]
        /\ Len(Only(seq, set)) = Len(Only(a, set)) + 1 + Len(Only(c, set))
        /\ Len(Only(a, set)) \in Nat /\ Len(Only(c, set)) \in Nat
    BY <2>2 DEF SplitBy
  <2>4. Only(a, set) \in Seq(E) /\ Only(c, set) \in Seq(E)
    BY OnlyType
  <2>5. Len(Only(a, set)) = 0 /\ Len(Only(c, set)) = 0
    BY <2>3
  <2>6. Only(a, set) = <<>> /\ Only(c, set) = <<>>
    BY <2>4, <2>5
  <2>7. (\A j \in 1..Len(a) : a[j] \notin set) /\ (\A j \in 1..Len(c) : c[j] \notin set)
    BY <2>6, NothingSelected
  <2>8. CASE i < k
    <3>1. i \in 1..k - 1
      BY <2>8
    <3> QED
      BY <1>1, <2>3, <2>7, <3>1
  <2>9. CASE i > k
    <3>1. i - k \in 1..Len(seq) - k /\ k + (i - k) = i
      BY <2>9
    <3> QED
      BY <1>1, <2>3, <2>7, <3>1
  <2> QED
    BY <1>1, <2>8, <2>9
<1>2. DOMAIN seq = 1..Len(seq)
  OBVIOUS
<1> QED
  BY <1>1, <1>2 DEF Once

\* The selection of at most one place has at most one element.
LEMMA OnceSelected ==
  ASSUME NEW E, NEW seq \in Seq(E), NEW set, Once(seq, set)
  PROVE  Len(Only(seq, set)) <= 1
<1>1. CASE \A i \in 1..Len(seq) : seq[i] \notin set
  <2>1. Only(seq, set) = <<>>
    BY <1>1, OnlyNowhere
  <2> QED
    BY <2>1
<1>2. CASE ~\A i \in 1..Len(seq) : seq[i] \notin set
  <2>1. PICK k \in 1..Len(seq) : seq[k] \in set
    BY <1>2
  <2>2. Sole(seq, set, seq[k])
    BY <2>1 DEF Once, Sole
  <2>3. Only(seq, set) = <<seq[k]>>
    BY <2>2, OnlySole
  <2> QED
    BY <2>3
<1> QED
  BY <1>1, <1>2

\* What is selected as one element is the only one.
LEMMA SoleSelected ==
  ASSUME NEW E, NEW seq \in Seq(E), NEW set, NEW x, Only(seq, set) = <<x>>
  PROVE  Sole(seq, set, x)
<1>1. Len(Only(seq, set)) <= 1 /\ Only(seq, set) # <<>>
  OBVIOUS
<1>2. Once(seq, set)
  BY <1>1, OneSelected
<1>3. PICK k \in 1..Len(seq) : seq[k] \in set
  BY <1>1, OnlyNowhere
<1>4. Sole(seq, set, seq[k])
  BY <1>2, <1>3 DEF Once, Sole
<1>5. Only(seq, set) = <<seq[k]>>
  BY <1>4, OnlySole
<1>6. seq[k] = x
  BY <1>5
<1> QED
  BY <1>4, <1>6

-----------------------------------------------------------------------------
(* What an install puts into the files.                                      *)

\* The hooks of a family, thlibo's commands in config.toml, and the hook
\* tables there.
Family(f) == {h \in Hooks : h[1] = f}
Commands == {l \in Hooks : IsOurCommand(l)}

\* They are what is selected of them.
LEMMA KindsSelected ==
  ASSUME NEW hooks \in Seq(Hooks)
  PROVE  /\ \A family : Select(hooks, LAMBDA h : h[1] = family) = Only(hooks, Family(family))
         /\ Select(hooks, IsOurCommand) = Only(hooks, Commands)
<1>1. \A i \in DOMAIN hooks : hooks[i] \in Hooks
  OBVIOUS
<1>2. \A family : {i \in DOMAIN hooks : hooks[i][1] = family} = PlacesOf(hooks, Family(family))
  BY <1>1 DEF PlacesOf, Family
<1>3. {i \in DOMAIN hooks : IsOurCommand(hooks[i])} = PlacesOf(hooks, Commands)
  BY <1>1 DEF PlacesOf, Commands
<1> QED
  BY <1>2, <1>3 DEF Select, Only

\* One element more, at the end.
LEMMA SoleAppend ==
  ASSUME NEW E, NEW seq \in Seq(E), NEW x \in E, NEW set
  PROVE  /\ x \notin set /\ Once(seq, set) => Once(Append(seq, x), set)
         /\ x \in set /\ (\A i \in 1..Len(seq) : seq[i] \notin set) => Sole(Append(seq, x), set, x)
         /\ \A y : x \notin set /\ Sole(seq, set, y) => Sole(Append(seq, x), set, y)
<1> DEFINE new == Append(seq, x)
<1>1. /\ new \in Seq(E) /\ DOMAIN new = 1..(Len(seq) + 1) /\ new[Len(seq) + 1] = x
      /\ DOMAIN seq = 1..Len(seq) /\ Len(seq) \in Nat /\ \A i \in 1..Len(seq) : new[i] = seq[i]
  OBVIOUS
<1> HIDE DEF new
<1>2. \A i \in DOMAIN new : i \in DOMAIN seq \/ i = Len(seq) + 1
  BY <1>1
<1>3. x \notin set /\ Once(seq, set) => Once(new, set)
  BY <1>1, <1>2 DEF Once
<1>4. ASSUME x \in set, \A i \in 1..Len(seq) : seq[i] \notin set PROVE Sole(new, set, x)
  <2>1. \A i \in DOMAIN new : new[i] \in set <=> i = Len(seq) + 1
    BY <1>1, <1>2, <1>4
  <2>2. Len(seq) + 1 \in DOMAIN new
    BY <1>1
  <2> QED
    BY <1>1, <2>1, <2>2 DEF Sole
<1>5. ASSUME NEW y, x \notin set, Sole(seq, set, y) PROVE Sole(new, set, y)
  <2>1. PICK k \in DOMAIN seq : seq[k] = y /\ \A i \in DOMAIN seq : seq[i] \in set <=> i = k
    BY <1>5 DEF Sole
  <2>2. k \in DOMAIN new /\ new[k] = y /\ k # Len(seq) + 1
    BY <1>1, <2>1
  <2>3. \A i \in DOMAIN new : new[i] \in set <=> i = k
    BY <1>1, <1>2, <1>5, <2>1, <2>2
  <2> QED
    BY <2>2, <2>3 DEF Sole
<1> QED
  BY <1>3, <1>4, <1>5 DEF new

\* One element in the place of another.
LEMMA SoleChanged ==
  ASSUME NEW E, NEW seq \in Seq(E), NEW k \in 1..Len(seq), NEW x \in E, NEW set
  PROVE  /\ x \notin set /\ Once(seq, set) => Once([seq EXCEPT ![k] = x], set)
         /\ x \in set /\ seq[k] \in set /\ Once(seq, set) => Sole([seq EXCEPT ![k] = x], set, x)
         /\ \A y : x \notin set /\ seq[k] \notin set /\ Sole(seq, set, y)
                     => Sole([seq EXCEPT ![k] = x], set, y)
<1> DEFINE new == [seq EXCEPT ![k] = x]
<1>1. /\ DOMAIN new = DOMAIN seq /\ new[k] = x /\ k \in DOMAIN seq
      /\ \A i \in DOMAIN seq : i # k => new[i] = seq[i]
  OBVIOUS
<1> HIDE DEF new
<1>3. x \notin set /\ Once(seq, set) => Once(new, set)
  BY <1>1 DEF Once
<1>4. x \in set /\ seq[k] \in set /\ Once(seq, set) => Sole(new, set, x)
  BY <1>1 DEF Once, Sole
<1>5. \A y : x \notin set /\ seq[k] \notin set /\ Sole(seq, set, y) => Sole(new, set, y)
  BY <1>1 DEF Sole
<1> QED
  BY <1>3, <1>4, <1>5 DEF new

\* Where there is none, there is one at most; where there is one, too.
LEMMA OnceEnough ==
  ASSUME NEW E, NEW seq \in Seq(E), NEW set
  PROVE  /\ \A x : Sole(seq, set, x) => Once(seq, set)
         /\ (\A i \in 1..Len(seq) : seq[i] \notin set) => Once(seq, set)
<1>1. \A x : Sole(seq, set, x) => Once(seq, set)
  BY DEF Sole, Once
<1>2. DOMAIN seq = 1..Len(seq)
  OBVIOUS
<1> QED
  BY <1>1, <1>2 DEF Once

\* Cursor: a hook of a family is put in the place of the one that is there.
LEMMA UpsertOne ==
  ASSUME NEW flat \in Seq(Hooks), NEW matcher \in Names, NEW family \in Names, Once(flat, Family(family)),
         NEW other, other # family
  PROVE  LET new == UpsertPreToolUseHook(flat, matcher, family)
         IN  /\ new \in Seq(Hooks)
             /\ Sole(new, Family(family), <<family, matcher>>)
             /\ Once(flat, Family(other)) => Once(new, Family(other))
             /\ \A y : Sole(flat, Family(other), y) => Sole(new, Family(other), y)
<1> DEFINE hook == <<family, matcher>>
           I == {i \in 1..Len(flat) : flat[i][1] = family}
           k == Min(I)
<1>1. hook \in Hooks /\ hook \in Family(family) /\ hook \notin Family(other)
  BY DEF Hooks, Family
<1>2. CASE I = {}
  <2>1. UpsertPreToolUseHook(flat, matcher, family) = Append(flat, hook)
    BY <1>2 DEF UpsertPreToolUseHook, SelectInSeq
  <2>2. \A i \in 1..Len(flat) : flat[i] \notin Family(family)
    BY <1>2 DEF Family
  <2> HIDE DEF hook, I
  <2>3. Append(flat, hook) \in Seq(Hooks)
    BY <1>1
  <2>4. Sole(Append(flat, hook), Family(family), hook)
    BY <1>1, <2>2, SoleAppend
  <2>5. /\ Once(flat, Family(other)) => Once(Append(flat, hook), Family(other))
        /\ \A y : Sole(flat, Family(other), y) => Sole(Append(flat, hook), Family(other), y)
    BY <1>1, SoleAppend
  <2> QED
    BY <2>1, <2>3, <2>4, <2>5 DEF hook
<1>3. CASE I # {}
  <2>1. k \in I /\ k \in 1..Len(flat) /\ k # 0
    <3>1. I \subseteq 1..Len(flat) /\ Len(flat) \in Nat
      OBVIOUS
    <3> HIDE DEF I
    <3> QED
      BY <1>3, <3>1, FirstPlace
  <2>2. UpsertPreToolUseHook(flat, matcher, family) = [flat EXCEPT ![k] = hook]
    BY <1>3, <2>1 DEF UpsertPreToolUseHook, SelectInSeq
  <2>3. flat[k] \in Family(family) /\ flat[k] \notin Family(other)
    <3> HIDE DEF k
    <3>1. flat[k] \in Hooks /\ flat[k][1] = family
      BY <2>1
    <3> QED
      BY <3>1 DEF Family
  <2> HIDE DEF k, hook, I
  <2>4. [flat EXCEPT ![k] = hook] \in Seq(Hooks)
    BY <1>1, <2>1
  <2>5. Sole([flat EXCEPT ![k] = hook], Family(family), hook)
    BY <1>1, <2>1, <2>3, SoleChanged
  <2>6. /\ Once(flat, Family(other)) => Once([flat EXCEPT ![k] = hook], Family(other))
        /\ \A y : Sole(flat, Family(other), y) => Sole([flat EXCEPT ![k] = hook], Family(other), y)
    BY <1>1, <2>1, <2>3, SoleChanged
  <2> QED
    BY <2>2, <2>4, <2>5, <2>6 DEF hook
<1> QED
  BY <1>2, <1>3

\* Cursor's hooks after the merge.
CursorOnce(flat) == Once(flat, Family("shell")) /\ Once(flat, Family("file"))
CursorSole(flat) ==
  Sole(flat, Family("shell"), <<"shell", "Shell">>) /\ Sole(flat, Family("file"), <<"file", "Read">>)

\* Cursor's merge leaves one hook for each thing (mergeHooksJSON).
LEMMA MergeHooksJSONOnce ==
  ASSUME NEW flat \in Seq(Hooks), CursorOnce(flat)
  PROVE  CursorSole(MergeHooksJSON(flat)) /\ CursorOnce(MergeHooksJSON(flat))
<1> DEFINE once == UpsertPreToolUseHook(flat, "Shell", "shell")
           new == UpsertPreToolUseHook(once, "Read", "file")
<1>1. {"Shell", "Read"} \subseteq Names /\ {"shell", "file"} \subseteq Names /\ "shell" # "file"
  BY DEF Names
<1>2. /\ once \in Seq(Hooks)
      /\ Sole(once, Family("shell"), <<"shell", "Shell">>)
      /\ Once(flat, Family("file")) => Once(once, Family("file"))
  BY <1>1, UpsertOne DEF CursorOnce
<1>3. MergeHooksJSON(flat) = new
  BY DEF MergeHooksJSON
<1> HIDE DEF once
<1>4. Once(once, Family("file"))
  BY <1>2 DEF CursorOnce
<1>5. /\ new \in Seq(Hooks)
      /\ Sole(new, Family("file"), <<"file", "Read">>)
      /\ \A y : Sole(once, Family("shell"), y) => Sole(new, Family("shell"), y)
  BY <1>1, <1>2, <1>4, UpsertOne
<1> HIDE DEF new
<1>6. CursorSole(new)
  BY <1>2, <1>5 DEF CursorSole
<1>7. CursorOnce(new)
  BY <1>5, <1>6, OnceEnough DEF CursorSole, CursorOnce
<1> QED
  BY <1>3, <1>6, <1>7

\* What is left when Cursor's hooks are removed.
LEMMA RemoveHooksJSONEntriesOnce ==
  ASSUME NEW flat \in Seq(Hooks)
  PROVE  CursorOnce(RemoveHooksJSONEntries(flat))
<1> DEFINE new == Only(flat, UsersHooks)
<1>1. RemoveHooksJSONEntries(flat) = new
  BY Selected DEF RemoveHooksJSONEntries
<1>2. new \in Seq(Hooks) /\ new \in Seq(Hooks \cap UsersHooks)
  BY OnlyType
<1> HIDE DEF new
<1>3. \A i \in 1..Len(new) : new[i] \notin Family("shell") /\ new[i] \notin Family("file")
  <2>1. \A i \in 1..Len(new) : new[i] \in UsersHooks
    BY <1>2
  <2> QED
    BY <2>1 DEF UsersHooks, IsUser, Family
<1> QED
  BY <1>1, <1>2, <1>3, OnceEnough DEF CursorOnce

\* Two lists, one behind the other.
LEMMA JoinedBehind ==
  ASSUME NEW E, NEW a \in Seq(E), NEW b \in Seq(E)
  PROVE  /\ DOMAIN (a \o b) = 1..(Len(a) + Len(b)) /\ Len(a) \in Nat /\ Len(b) \in Nat
         /\ \A i \in 1..Len(a) : (a \o b)[i] = a[i]
         /\ \A i \in 1..Len(a) + Len(b) : i > Len(a) => (a \o b)[i] = b[i - Len(a)]
<1>1. Len(a) \in Nat /\ Len(b) \in Nat
  OBVIOUS
<1>2. Len(a \o b) = Len(a) + Len(b) /\ a \o b \in Seq(E)
      /\ \A i \in 1..Len(a) + Len(b) : (a \o b)[i] = IF i <= Len(a) THEN a[i] ELSE b[i - Len(a)]
  BY ConcatProperties
<1>3. \A i \in 1..Len(a) : i \in 1..Len(a) + Len(b) /\ i <= Len(a)
  BY <1>1
<1>4. \A i \in 1..Len(a) + Len(b) : i > Len(a) => ~(i <= Len(a))
  BY <1>1
<1>5. DOMAIN (a \o b) = 1..(Len(a) + Len(b))
  BY <1>2
<1> QED
  BY <1>1, <1>2, <1>3, <1>4, <1>5

\* The first group of a matcher, 0 if there is none.
FirstWith(groups, matcher) == SelectInSeq(groups, LAMBDA g : g.matcher = matcher)

\* A group of the matcher with none before it is the first.
LEMMA FirstIs ==
  ASSUME NEW groups \in Seq(Groups), NEW matcher, NEW k \in 1..Len(groups), groups[k].matcher = matcher,
         \A i \in 1..k - 1 : groups[i].matcher # matcher
  PROVE  FirstWith(groups, matcher) = k
<1> DEFINE I == {i \in 1..Len(groups) : groups[i].matcher = matcher}
<1>1. k \in I /\ I # {} /\ I \subseteq Nat /\ (\A i \in I : ~(i < k)) /\ k \in Nat
  <2>1. \A i \in I : i < k => i \in 1..k - 1
    OBVIOUS
  <2> QED
    BY <2>1
<1>2. FirstWith(groups, matcher) = IF I # {} THEN Min(I) ELSE 0
  BY DEF FirstWith, SelectInSeq
<1> HIDE DEF I
<1>3. Min(I) \in I /\ Min(I) <= k
  BY <1>1, MinOf
<1>4. Min(I) = k
  <2>1. Min(I) \in Nat /\ ~(Min(I) < k)
    BY <1>1, <1>3
  <2> QED
    BY <1>1, <1>3, <2>1
<1> QED
  BY <1>1, <1>2, <1>4

\* The first group of a matcher is one of it, or there is none.
LEMMA FirstHas ==
  ASSUME NEW groups \in Seq(Groups), NEW matcher
  PROVE  LET k == FirstWith(groups, matcher)
         IN  \/ k = 0 /\ \A i \in 1..Len(groups) : groups[i].matcher # matcher
             \/ /\ k \in 1..Len(groups) /\ groups[k].matcher = matcher
                /\ \A i \in 1..k - 1 : groups[i].matcher # matcher
<1> DEFINE I == {i \in 1..Len(groups) : groups[i].matcher = matcher}
           k == Min(I)
<1>1. FirstWith(groups, matcher) = IF I # {} THEN k ELSE 0
  BY DEF FirstWith, SelectInSeq
<1>2. CASE I = {}
  BY <1>1, <1>2
<1>3. CASE I # {}
  <2>1. I \subseteq Nat
    OBVIOUS
  <2>2. k \in I /\ \A i \in I : k <= i
    <3> HIDE DEF I
    <3> QED
      BY <1>3, <2>1, MinOf
  <2> HIDE DEF k
  <2>3. ASSUME NEW i \in 1..k - 1 PROVE groups[i].matcher # matcher
    <3>1. k \in 1..Len(groups) /\ Len(groups) \in Nat
      BY <2>2
    <3>2. i \in 1..Len(groups) /\ ~(k <= i)
      BY <3>1
    <3> QED
      BY <2>2, <3>2
  <2>4. k \in 1..Len(groups) /\ groups[k].matcher = matcher
    BY <2>2
  <2> QED
    BY <1>1, <1>3, <2>3, <2>4
<1> QED
  BY <1>2, <1>3

\* Claude Code calls thlibo once for a matcher, by one variant of the script.
CallsOnce(groups, matcher, family, variant) ==
  LET first == FirstWith(groups, matcher)
  IN  first # 0 /\ Sole(groups[first].hooks, Family(family), <<family, variant>>)

\* addPreToolUseHook's splice leaves one hook of the family.
LEMMA PlacedOne ==
  ASSUME NEW hooks \in Seq(Hooks), NEW hook \in Hooks
  PROVE  Sole(Placed(hooks, hook), Family(hook[1]), hook)
<1> DEFINE I == {i \in 1..Len(hooks) : hooks[i][1] = hook[1]}
           others == {h \in Hooks : h[1] # hook[1]}
           k == Min(I)
           before == SubSeq(hooks, 1, k - 1)
           after == SubSeq(hooks, k + 1, Len(hooks))
<1>1. hook \in Family(hook[1])
  BY DEF Family
<1>2. CASE I = {}
  <2>1. Placed(hooks, hook) = Append(hooks, hook)
    BY <1>2 DEF Placed, SelectInSeq
  <2>2. \A i \in 1..Len(hooks) : hooks[i] \notin Family(hook[1])
    BY <1>2 DEF Family
  <2>3. Sole(Append(hooks, hook), Family(hook[1]), hook)
    BY <1>1, <2>2, SoleAppend
  <2> QED
    BY <2>1, <2>3
<1>3. CASE I # {}
  <2>1. I \subseteq Nat /\ I \subseteq 1..Len(hooks) /\ Len(hooks) \in Nat
    OBVIOUS
  <2>2. k \in 1..Len(hooks) /\ k # 0 /\ k \in I /\ \A i \in I : k <= i
    <3> HIDE DEF I
    <3> QED
      BY <1>3, <2>1, FirstPlace, MinOf
  <2>3. Placed(hooks, hook) = before \o <<hook>> \o Select(after, LAMBDA h : h[1] # hook[1])
    BY <1>3, <2>2 DEF Placed, SelectInSeq
  <2>4. \A i \in 1..k - 1 : hooks[i][1] # hook[1]
    <3> HIDE DEF k
    <3> SUFFICES ASSUME NEW i \in 1..k - 1, hooks[i][1] = hook[1] PROVE FALSE
      OBVIOUS
    <3>1. i \in 1..Len(hooks) /\ ~(k <= i)
      BY <2>1, <2>2
    <3> QED
      BY <2>2, <3>1
  <2> HIDE DEF k, I
  <2>5. before \in Seq(Hooks) /\ after \in Seq(Hooks) /\ Len(before) = k - 1
        /\ \A i \in 1..k - 1 : before[i] = hooks[i]
    BY <2>1, <2>2
  <2> HIDE DEF before, after
  <2> DEFINE rest == Only(after, others)
  <2>6. Select(after, LAMBDA h : h[1] # hook[1]) = rest
    BY <2>5, Selected
  <2>7. rest \in Seq(Hooks) /\ rest \in Seq(Hooks \cap others)
    <3> HIDE DEF others
    <3> QED
      BY <2>5, OnlyType
  <2> HIDE DEF rest
  <2>8. (\A i \in 1..Len(rest) : rest[i] \notin Family(hook[1]))
        /\ (\A i \in 1..Len(before) : before[i] \notin Family(hook[1]))
    <3>1. \A i \in 1..Len(rest) : rest[i] \in others
      BY <2>7
    <3> QED
      BY <2>4, <2>5, <3>1 DEF Family
  <2> DEFINE b == Append(before, hook)
  <2>9. b \in Seq(Hooks) /\ before \o <<hook>> = b /\ Len(b) = Len(before) + 1 /\ b[Len(before) + 1] = hook
        /\ \A i \in 1..Len(before) : b[i] = before[i]
    BY <2>5
  <2> HIDE DEF b
  <2>10. Placed(hooks, hook) = b \o rest
    BY <2>3, <2>6, <2>9
  <2>11. /\ DOMAIN (b \o rest) = 1..(Len(b) + Len(rest)) /\ Len(b) \in Nat /\ Len(rest) \in Nat
         /\ \A i \in 1..Len(b) : (b \o rest)[i] = b[i]
         /\ \A i \in 1..Len(b) + Len(rest) : i > Len(b) => (b \o rest)[i] = rest[i - Len(b)]
    <3>1. b \in Seq(Hooks) /\ rest \in Seq(Hooks)
      BY <2>7, <2>9
    <3> QED
      BY <3>1, JoinedBehind
  <2>12. Len(before) \in Nat
    BY <2>5
  <2> DEFINE new == b \o rest
  <2>13. ASSUME NEW i \in DOMAIN new PROVE new[i] \in Family(hook[1]) <=> i = Len(before) + 1
    <3>1. CASE i <= Len(before)
      <4>1. new[i] = before[i] /\ i \in 1..Len(before) /\ i # Len(before) + 1
        BY <2>9, <2>11, <2>12, <3>1
      <4> HIDE DEF new
      <4> QED
        BY <2>8, <4>1
    <3>2. CASE i = Len(before) + 1
      <4>1. new[i] = hook
        BY <2>9, <2>11, <2>12, <3>2
      <4> HIDE DEF new
      <4> QED
        BY <1>1, <3>2, <4>1
    <3>3. CASE i > Len(before) + 1
      <4>1. new[i] = rest[i - Len(b)] /\ i - Len(b) \in 1..Len(rest) /\ i # Len(before) + 1
        BY <2>9, <2>11, <2>12, <3>3
      <4> HIDE DEF new
      <4> QED
        BY <2>8, <4>1
    <3> QED
      BY <2>9, <2>11, <2>12, <3>1, <3>2, <3>3
  <2>14. Len(before) + 1 \in DOMAIN new /\ new[Len(before) + 1] = hook
    BY <2>9, <2>11, <2>12
  <2> HIDE DEF new
  <2>15. Sole(new, Family(hook[1]), hook)
    BY <2>13, <2>14 DEF Sole
  <2> QED
    BY <2>10, <2>15 DEF new
<1> QED
  BY <1>2, <1>3

\* addPreToolUseHook: its own matcher is called for once, and others are as before.
LEMMA AddOne ==
  ASSUME NEW groups \in Seq(Groups), NEW matcher \in Names, NEW family \in Names \ {"user"}, NEW variant \in Names
  PROVE  LET new == AddPreToolUseHook(groups, matcher, <<family, variant>>)
         IN  /\ CallsOnce(new, matcher, family, variant)
             /\ \A m, f : m # matcher /\ CallsOnce(groups, m, f, variant) => CallsOnce(new, m, f, variant)
<1> DEFINE hook == <<family, variant>>
           k == FirstWith(groups, matcher)
           new == AddPreToolUseHook(groups, matcher, hook)
<1>1. hook \in Hooks /\ ~IsUser(hook) /\ hook[1] = family
  BY DEF Hooks, IsUser
<1>2. new \in Seq(Groups)
  <2> HIDE DEF hook
  <2> QED
    BY <1>1, AddKeeps
<1>3. new = IF k = 0 THEN Append(groups, [matcher |-> matcher, hooks |-> <<hook>>])
            ELSE [groups EXCEPT ![k].hooks = Placed(@, hook)]
  BY DEF AddPreToolUseHook, FirstWith
<1>4. \/ k = 0 /\ \A i \in 1..Len(groups) : groups[i].matcher # matcher
      \/ /\ k \in 1..Len(groups) /\ groups[k].matcher = matcher
         /\ \A i \in 1..k - 1 : groups[i].matcher # matcher
  BY FirstHas
<1> HIDE DEF k, new
<1>5. CASE k = 0
  <2> DEFINE g == [matcher |-> matcher, hooks |-> <<hook>>]
             n == Len(groups) + 1
  <2>1. g \in Groups /\ g.matcher = matcher /\ g.hooks = <<hook>>
    BY <1>1 DEF Groups
  <2> HIDE DEF g
  <2>2. Len(groups) \in Nat /\ Len(new) = n /\ new[n] = g /\ \A i \in 1..Len(groups) : new[i] = groups[i]
    BY <1>3, <1>5, <2>1 DEF g
  <2>3. n \in 1..Len(new) /\ \A i \in 1..n - 1 : new[i].matcher # matcher
    BY <1>4, <1>5, <2>2
  <2>4. FirstWith(new, matcher) = n
    BY <1>2, <2>1, <2>2, <2>3, FirstIs
  <2>5. Sole(<<hook>>, Family(family), hook)
    <3>1. <<hook>>[1] = hook /\ DOMAIN <<hook>> = {1} /\ hook \in Family(family)
      BY <1>1 DEF Family
    <3> HIDE DEF hook
    <3> QED
      BY <3>1 DEF Sole
  <2>6. CallsOnce(new, matcher, family, variant)
    BY <2>1, <2>2, <2>4, <2>5 DEF CallsOnce
  <2>7. ASSUME NEW m, NEW f, m # matcher, CallsOnce(groups, m, f, variant)
        PROVE  CallsOnce(new, m, f, variant)
    <3> DEFINE j == FirstWith(groups, m)
    <3>1. j \in 1..Len(groups) /\ groups[j].matcher = m /\ \A i \in 1..j - 1 : groups[i].matcher # m
      BY <2>7, FirstHas DEF CallsOnce
    <3> HIDE DEF j
    <3>2. j \in 1..Len(new) /\ new[j] = groups[j] /\ \A i \in 1..j - 1 : new[i] = groups[i]
      BY <2>2, <3>1
    <3>3. FirstWith(new, m) = j
      BY <1>2, <3>1, <3>2, FirstIs
    <3> QED
      BY <2>7, <3>1, <3>2, <3>3 DEF CallsOnce, j
  <2> QED
    BY <2>6, <2>7 DEF new
<1>6. CASE k # 0
  <2>1. k \in 1..Len(groups) /\ groups[k].matcher = matcher /\ \A i \in 1..k - 1 : groups[i].matcher # matcher
    BY <1>4, <1>6
  <2>2. groups[k] \in Groups /\ groups[k].hooks \in Seq(Hooks)
    <3>1. groups[k] \in Groups
      BY <2>1
    <3> QED
      BY <3>1 DEF Groups
  <2> DEFINE hooks == Placed(groups[k].hooks, hook)
  <2>3. Sole(hooks, Family(family), hook)
    <3> HIDE DEF hook
    <3> QED
      BY <1>1, <2>2, PlacedOne
  <2> HIDE DEF hooks
  <2>4. new = [groups EXCEPT ![k].hooks = hooks]
    BY <1>3, <1>6 DEF hooks
  <2>5. /\ Len(new) = Len(groups) /\ Len(groups) \in Nat
        /\ new[k].matcher = matcher /\ new[k].hooks = hooks
        /\ \A i \in 1..Len(groups) : i # k => new[i] = groups[i]
    <3>1. new[k] = [groups[k] EXCEPT !.hooks = hooks]
      BY <2>1, <2>4
    <3>2. new[k].matcher = matcher /\ new[k].hooks = hooks
      BY <2>1, <2>2, <3>1 DEF Groups
    <3> QED
      BY <2>1, <2>4, <3>2
  <2>6. k \in 1..Len(new) /\ \A i \in 1..k - 1 : new[i].matcher # matcher
    BY <2>1, <2>5
  <2>7. FirstWith(new, matcher) = k
    BY <1>2, <2>5, <2>6, FirstIs
  <2>8. CallsOnce(new, matcher, family, variant)
    BY <1>6, <2>3, <2>5, <2>7 DEF CallsOnce
  <2>9. ASSUME NEW m, NEW f, m # matcher, CallsOnce(groups, m, f, variant)
        PROVE  CallsOnce(new, m, f, variant)
    <3> DEFINE j == FirstWith(groups, m)
    <3>1. j \in 1..Len(groups) /\ groups[j].matcher = m /\ \A i \in 1..j - 1 : groups[i].matcher # m
      BY <2>9, FirstHas DEF CallsOnce
    <3> HIDE DEF j
    <3>2. j # k
      BY <2>1, <2>9, <3>1
    <3>3. j \in 1..Len(new) /\ new[j] = groups[j]
      BY <2>5, <3>1, <3>2
    <3>4. \A i \in 1..j - 1 : new[i].matcher # m
      <4> SUFFICES ASSUME NEW i \in 1..j - 1 PROVE new[i].matcher # m
        OBVIOUS
      <4>1. i \in 1..Len(groups) /\ groups[i].matcher # m
        BY <2>5, <3>1
      <4> QED
        BY <2>5, <2>9, <4>1
    <3>5. FirstWith(new, m) = j
      BY <1>2, <3>1, <3>3, <3>4, FirstIs
    <3> QED
      BY <2>9, <3>1, <3>3, <3>5 DEF CallsOnce, j
  <2> QED
    BY <2>8, <2>9 DEF new
<1> QED
  BY <1>5, <1>6

\* Claude Code calls thlibo once for each matcher that is registered.
ClaudeDone(groups, windows) ==
  \A n \in 1..5 : CallsOnce(groups, Registered[n][1], Registered[n][2], Variant(windows))

\* The matchers that are registered differ.
LEMMA RegisteredDiffer == \A m, n \in 1..5 : m # n => Registered[m][1] # Registered[n][1]
<1>1. /\ Registered[1][1] = "Bash" /\ Registered[2][1] = "PowerShell" /\ Registered[3][1] = "Read"
      /\ Registered[4][1] = "Write" /\ Registered[5][1] = "Edit"
  BY DEF Registered
<1>2. \A n \in 1..5 : n = 1 \/ n = 2 \/ n = 3 \/ n = 4 \/ n = 5
  OBVIOUS
<1> QED
  BY <1>1, <1>2

\* mergeSettings, hook by hook.
LEMMA MergedDef ==
  ASSUME NEW groups \in Seq(Groups), NEW w
  PROVE  LET upTo == MergedUpTo(groups, w)
         IN  /\ MergeSettingsAll(groups, w) = upTo[5] /\ upTo[0] = groups
             /\ \A n \in 1..5 : upTo[n] = AddNext(upTo[n - 1], w, n)
<1> DEFINE G == [p \in Seq(Groups) \X (1..5) |-> AddNext(p[1], w, p[2])]
<1>1. ASSUME NEW x \in Seq(Groups), NEW n \in 1..5 PROVE AddNext(x, w, n) \in Seq(Groups)
  <2> DEFINE hook == <<Registered[n][2], Variant(w)>>
  <2>1. hook \in Hooks /\ ~IsUser(hook) /\ Registered[n][1] \in Names
    BY RegisteredType, VariantType DEF Hooks, IsUser
  <2> HIDE DEF hook
  <2>2. AddPreToolUseHook(x, Registered[n][1], hook) \in Seq(Groups)
    BY <2>1, AddKeeps
  <2> QED
    BY <2>2 DEF AddNext, hook
<1>2. G \in [Seq(Groups) \X (1..5) -> Seq(Groups)] /\ 5 \in Nat
  BY <1>1
<1>3. PICK f \in [0..5 -> Seq(Groups)] : Recurs(f, 5, groups, G)
  <2> HIDE DEF G
  <2> QED
    BY <1>2, Recursion
<1>4. f = [n \in 0..5 |-> IF n = 0 THEN groups ELSE AddNext(f[n - 1], w, n)]
  <2>1. ASSUME NEW n \in 1..5 PROVE f[n] = AddNext(f[n - 1], w, n)
    <3>1. f[n - 1] \in Seq(Groups)
      OBVIOUS
    <3> QED
      BY <1>3, <3>1 DEF Recurs
  <2> QED
    BY <1>3, <2>1 DEF Recurs
<1> DEFINE upTo == MergedUpTo(groups, w)
<1>5. upTo = [n \in 0..5 |-> IF n = 0 THEN groups ELSE AddNext(upTo[n - 1], w, n)]
  BY <1>4, RegisteredType DEF MergedUpTo
<1>6. MergeSettingsAll(groups, w) = upTo[5]
  BY RegisteredType DEF MergeSettingsAll, MergedUpTo, AddNext
<1> HIDE DEF upTo
<1>7. upTo[0] = groups /\ \A n \in 1..5 : upTo[n] = AddNext(upTo[n - 1], w, n)
  <2>1. \A n \in 1..5 : n \in 0..5 /\ n # 0
    OBVIOUS
  <2> QED
    BY <1>5, <2>1
<1> QED
  BY <1>6, <1>7 DEF upTo

\* After the merge each of the matchers calls thlibo once.
LEMMA MergeSettingsAllOnce ==
  ASSUME NEW groups \in Seq(Groups), NEW w
  PROVE  ClaudeDone(MergeSettingsAll(groups, w), w)
<1> DEFINE upTo == MergedUpTo(groups, w)
           Done(x, k) == \A n \in 1..k : CallsOnce(x, Registered[n][1], Registered[n][2], Variant(w))
<1>1. /\ MergeSettingsAll(groups, w) = upTo[5] /\ upTo[0] = groups
      /\ \A n \in 1..5 : upTo[n] = AddNext(upTo[n - 1], w, n)
  BY MergedDef
<1> HIDE DEF upTo
<1>2. ASSUME NEW x \in Seq(Groups), NEW n \in 1..5, Done(x, n - 1)
      PROVE  AddNext(x, w, n) \in Seq(Groups) /\ Done(AddNext(x, w, n), n)
  <2> DEFINE hook == <<Registered[n][2], Variant(w)>>
             new == AddPreToolUseHook(x, Registered[n][1], hook)
  <2>1. hook \in Hooks /\ ~IsUser(hook) /\ Registered[n][1] \in Names
        /\ Registered[n][2] \in Names \ {"user"} /\ Variant(w) \in Names
    BY RegisteredType, VariantType DEF Hooks, IsUser
  <2>2. new \in Seq(Groups)
    <3> HIDE DEF hook
    <3> QED
      BY <2>1, AddKeeps
  <2>3. /\ CallsOnce(new, Registered[n][1], Registered[n][2], Variant(w))
        /\ \A m, f : m # Registered[n][1] /\ CallsOnce(x, m, f, Variant(w)) => CallsOnce(new, m, f, Variant(w))
    BY <2>1, AddOne
  <2> HIDE DEF new
  <2>4. ASSUME NEW k \in 1..n PROVE CallsOnce(new, Registered[k][1], Registered[k][2], Variant(w))
    <3>1. CASE k = n
      BY <2>3, <3>1
    <3>2. CASE k # n
      <4>1. k \in 1..n - 1 /\ k \in 1..5
        BY <3>2
      <4>2. Registered[k][1] # Registered[n][1]
        BY <3>2, <4>1, RegisteredDiffer
      <4>3. CallsOnce(x, Registered[k][1], Registered[k][2], Variant(w))
        BY <1>2, <4>1
      <4> QED
        BY <2>3, <4>2, <4>3
    <3> QED
      BY <3>1, <3>2
  <2> QED
    BY <2>2, <2>4 DEF AddNext, new
<1>3. Done(upTo[0], 0) /\ upTo[0] \in Seq(Groups)
  BY <1>1
<1> HIDE DEF Done
<1>4. \A n \in 1..5 : upTo[n - 1] \in Seq(Groups) /\ Done(upTo[n - 1], n - 1)
                       => upTo[n] \in Seq(Groups) /\ Done(upTo[n], n)
  BY <1>1, <1>2
<1>5. /\ 1 - 1 = 0 /\ 2 - 1 = 1 /\ 3 - 1 = 2 /\ 4 - 1 = 3 /\ 5 - 1 = 4
      /\ 1 \in 1..5 /\ 2 \in 1..5 /\ 3 \in 1..5 /\ 4 \in 1..5 /\ 5 \in 1..5
  OBVIOUS
<1>6. upTo[1] \in Seq(Groups) /\ Done(upTo[1], 1)
  BY <1>3, <1>4, <1>5
<1>7. upTo[2] \in Seq(Groups) /\ Done(upTo[2], 2)
  BY <1>4, <1>5, <1>6
<1>8. upTo[3] \in Seq(Groups) /\ Done(upTo[3], 3)
  BY <1>4, <1>5, <1>7
<1>9. upTo[4] \in Seq(Groups) /\ Done(upTo[4], 4)
  BY <1>4, <1>5, <1>8
<1>10. upTo[5] \in Seq(Groups) /\ Done(upTo[5], 5)
  BY <1>4, <1>5, <1>9
<1> QED
  BY <1>1, <1>10 DEF Done, ClaudeDone

\* addPreToolUseHook: the hook goes into the first group of its matcher.
LEMMA AddFirst ==
  ASSUME NEW groups \in Seq(Groups), NEW matcher, NEW hook, InFirstGroups(groups)
  PROVE  InFirstGroups(AddPreToolUseHook(groups, matcher, hook))
<1> DEFINE k == FirstWith(groups, matcher)
           new == AddPreToolUseHook(groups, matcher, hook)
           g == [matcher |-> matcher, hooks |-> <<hook>>]
           hooks == Placed(groups[k].hooks, hook)
<1>1. new = IF k = 0 THEN Append(groups, g) ELSE [groups EXCEPT ![k].hooks = hooks]
  BY DEF AddPreToolUseHook, FirstWith
<1>2. \/ k = 0 /\ \A i \in 1..Len(groups) : groups[i].matcher # matcher
      \/ /\ k \in 1..Len(groups) /\ groups[k].matcher = matcher
         /\ \A i \in 1..k - 1 : groups[i].matcher # matcher
  BY FirstHas
<1>3. Len(groups) \in Nat /\ DOMAIN groups = 1..Len(groups)
  OBVIOUS
<1> HIDE DEF k, new, hooks
<1>4. CASE k = 0
  <2> DEFINE n == Len(groups) + 1
  <2>1. g.matcher = matcher
    OBVIOUS
  <2> HIDE DEF g
  <2>2. DOMAIN new = 1..n /\ new[n] = g /\ \A i \in 1..Len(groups) : new[i] = groups[i]
    BY <1>1, <1>3, <1>4
  <2>3. ASSUME NEW i \in DOMAIN new, NEW j \in DOMAIN new, i < j, new[i].matcher = new[j].matcher
        PROVE  /\ i \in 1..Len(groups) /\ j \in 1..Len(groups)
               /\ new[i] = groups[i] /\ new[j] = groups[j]
    <3>1. i \in 1..Len(groups) /\ new[i] = groups[i]
      BY <1>3, <2>2, <2>3
    <3>2. j # n
      BY <1>2, <1>4, <2>1, <2>2, <2>3, <3>1
    <3>3. j \in 1..Len(groups)
      BY <1>3, <2>2, <3>2
    <3> QED
      BY <2>2, <3>1, <3>3
  <2> QED
    BY <1>3, <2>3 DEF InFirstGroups, new
<1>5. CASE k # 0
  <2>1. k \in 1..Len(groups) /\ groups[k].matcher = matcher /\ \A i \in 1..k - 1 : groups[i].matcher # matcher
    BY <1>2, <1>5
  <2>2. /\ DOMAIN new = 1..Len(groups) /\ new[k].matcher = matcher
        /\ \A i \in 1..Len(groups) : i # k => new[i] = groups[i]
    <3>1. groups[k] \in Groups
      BY <2>1
    <3>2. new = [groups EXCEPT ![k] = [groups[k] EXCEPT !.hooks = hooks]]
      BY <1>1, <1>5
    <3>3. new[k] = [groups[k] EXCEPT !.hooks = hooks]
      BY <2>1, <3>2
    <3>4. new[k].matcher = matcher
      BY <2>1, <3>1, <3>3 DEF Groups
    <3> QED
      BY <1>3, <2>1, <3>2, <3>4
  <2>3. \A i \in 1..Len(groups) : new[i].matcher = groups[i].matcher
    BY <2>1, <2>2
  <2>4. ASSUME NEW i \in DOMAIN new, NEW j \in DOMAIN new, i < j, new[i].matcher = new[j].matcher
        PROVE  /\ i \in 1..Len(groups) /\ j \in 1..Len(groups)
               /\ groups[i].matcher = groups[j].matcher /\ new[j] = groups[j]
    <3>1. i \in 1..Len(groups) /\ j \in 1..Len(groups) /\ groups[i].matcher = groups[j].matcher
      BY <2>2, <2>3, <2>4
    <3>2. j # k
      <4>1. j = k => i \in 1..k - 1 /\ groups[i].matcher = matcher
        BY <2>1, <2>4, <3>1
      <4> QED
        BY <2>1, <4>1
    <3> QED
      BY <2>2, <3>1, <3>2
  <2> QED
    BY <1>3, <2>4 DEF InFirstGroups, new
<1> QED
  BY <1>4, <1>5

\* mergeSettings puts nothing into a later group of a matcher.
LEMMA MergeSettingsAllFirst ==
  ASSUME NEW groups \in Seq(Groups), NEW w, InFirstGroups(groups)
  PROVE  InFirstGroups(MergeSettingsAll(groups, w))
<1> DEFINE upTo == MergedUpTo(groups, w)
           Good(x) == x \in Seq(Groups) /\ InFirstGroups(x)
<1>1. /\ MergeSettingsAll(groups, w) = upTo[5] /\ upTo[0] = groups
      /\ \A n \in 1..5 : upTo[n] = AddNext(upTo[n - 1], w, n)
  BY MergedDef
<1> HIDE DEF upTo
<1>2. ASSUME NEW x \in Seq(Groups), InFirstGroups(x), NEW n \in 1..5
      PROVE  Good(AddNext(x, w, n))
  <2> DEFINE hook == <<Registered[n][2], Variant(w)>>
             new == AddPreToolUseHook(x, Registered[n][1], hook)
  <2>1. hook \in Hooks /\ ~IsUser(hook) /\ Registered[n][1] \in Names
    BY RegisteredType, VariantType DEF Hooks, IsUser
  <2> HIDE DEF hook
  <2>2. new \in Seq(Groups)
    BY <2>1, AddKeeps
  <2>3. InFirstGroups(new)
    BY <1>2, AddFirst
  <2> QED
    BY <2>2, <2>3 DEF AddNext, hook
<1>3. Good(upTo[0])
  BY <1>1
<1>4. \A n \in 1..5 : Good(upTo[n - 1]) => Good(upTo[n])
  BY <1>1, <1>2
<1> HIDE DEF Good
<1>5. /\ 1 - 1 = 0 /\ 2 - 1 = 1 /\ 3 - 1 = 2 /\ 4 - 1 = 3 /\ 5 - 1 = 4
      /\ 1 \in 1..5 /\ 2 \in 1..5 /\ 3 \in 1..5 /\ 4 \in 1..5 /\ 5 \in 1..5
  OBVIOUS
<1>6. Good(upTo[1]) /\ Good(upTo[2]) /\ Good(upTo[3]) /\ Good(upTo[4]) /\ Good(upTo[5])
  BY <1>3, <1>4, <1>5
<1> QED
  BY <1>1, <1>6 DEF Good

\* What a removal leaves is nobody's but the user's.
LEMMA WithoutOursFirst ==
  ASSUME NEW groups \in Seq(Groups)
  PROVE  InFirstGroups(WithoutOurs(groups))
<1> DEFINE d == WithoutOurs(groups)
<1>1. d \in Seq(UsersGroups \cap Filled)
  BY WithoutOursIs
<1> HIDE DEF d
<1>2. ASSUME NEW j \in DOMAIN d, NEW n \in DOMAIN d[j].hooks PROVE IsUser(d[j].hooks[n])
  <2>1. d[j] \in UsersGroups
    BY <1>1
  <2>2. d[j].hooks \in Seq(UsersHooks)
    BY <2>1 DEF UsersGroups
  <2>3. d[j].hooks[n] \in UsersHooks
    BY <2>2
  <2> QED
    BY <2>3 DEF UsersHooks
<1>3. InFirstGroups(d)
  BY <1>2 DEF InFirstGroups
<1> QED
  BY <1>3 DEF d

\* Codex' hooks.json: where thlibo's hooks are, and how many there are.
OursAt(groups, i, j) ==
  i \in DOMAIN groups /\ j \in DOMAIN groups[i].hooks /\ ~IsUser(groups[i].hooks[j])

NoneIn(groups) == \A i, j : ~OursAt(groups, i, j)

OnceIn(groups) == \A i, j, k, l : OursAt(groups, i, j) /\ OursAt(groups, k, l) => i = k /\ j = l

SoleIn(groups, hook) ==
  \E i, j : /\ OursAt(groups, i, j) /\ groups[i].hooks[j] = hook
            /\ \A k, l : OursAt(groups, k, l) => k = i /\ l = j

\* One hook of thlibo's, or none, is no more than one.
LEMMA SoleInIsOnce ==
  ASSUME NEW groups
  PROVE  /\ \A hook : SoleIn(groups, hook) => OnceIn(groups)
         /\ NoneIn(groups) => OnceIn(groups)
<1>1. ASSUME NEW hook, SoleIn(groups, hook) PROVE OnceIn(groups)
  <2>1. PICK i, j : \A k, l : OursAt(groups, k, l) => k = i /\ l = j
    BY <1>1 DEF SoleIn
  <2> QED
    BY <2>1 DEF OnceIn
<1> QED
  BY <1>1 DEF NoneIn, OnceIn

\* A group more, with one hook of thlibo's.
LEMMA NewGroupSole ==
  ASSUME NEW groups \in Seq(Groups), NEW g \in Groups, NEW hook \in Hooks, g.hooks = <<hook>>,
         ~IsUser(hook), NoneIn(groups)
  PROVE  SoleIn(Append(groups, g), hook)
<1> DEFINE new == Append(groups, g)
           n == Len(groups) + 1
<1>1. /\ DOMAIN new = 1..n /\ n \in 1..n /\ new[n] = g /\ DOMAIN groups = 1..Len(groups) /\ Len(groups) \in Nat
      /\ \A i \in 1..Len(groups) : new[i] = groups[i]
  OBVIOUS
<1>2. \A i \in 1..n : i \in 1..Len(groups) \/ i = n
  BY <1>1
<1>3. DOMAIN <<hook>> = {1} /\ <<hook>>[1] = hook
  OBVIOUS
<1> HIDE DEF new, n
<1>4. OursAt(new, n, 1) /\ new[n].hooks[1] = hook
  <2>1. n \in DOMAIN new /\ new[n].hooks = <<hook>>
    BY <1>1
  <2>2. 1 \in DOMAIN new[n].hooks /\ new[n].hooks[1] = hook
    BY <1>3, <2>1
  <2> QED
    BY <2>1, <2>2 DEF OursAt
<1>5. ASSUME NEW k, NEW l, OursAt(new, k, l) PROVE k = n /\ l = 1
  <2>1. k \in 1..Len(groups) \/ k = n
    BY <1>1, <1>2, <1>5 DEF OursAt
  <2>2. CASE k \in 1..Len(groups)
    <3>1. OursAt(groups, k, l)
      BY <1>1, <1>5, <2>2 DEF OursAt
    <3> QED
      BY <3>1 DEF NoneIn
  <2>3. CASE k = n
    <3>1. l \in DOMAIN <<hook>>
      BY <1>1, <1>5, <2>3 DEF OursAt
    <3> QED
      BY <1>3, <2>3, <3>1
  <2> QED
    BY <2>1, <2>2, <2>3
<1>6. SoleIn(new, hook)
  BY <1>4, <1>5 DEF SoleIn
<1> QED
  BY <1>6 DEF new

\* The one hook of thlibo's, replaced.
LEMMA ChangedHookSole ==
  ASSUME NEW groups \in Seq(Groups), OnceIn(groups), NEW i, NEW j, OursAt(groups, i, j),
         NEW hook \in Hooks, ~IsUser(hook)
  PROVE  SoleIn([groups EXCEPT ![i].hooks = [groups[i].hooks EXCEPT ![j] = hook]], hook)
<1> DEFINE hooks == [groups[i].hooks EXCEPT ![j] = hook]
           new == [groups EXCEPT ![i].hooks = hooks]
<1>1. /\ i \in DOMAIN groups /\ j \in DOMAIN groups[i].hooks
      /\ groups[i] \in Groups
  BY DEF OursAt
<1>2. DOMAIN hooks = DOMAIN groups[i].hooks /\ hooks[j] = hook
      /\ \A l \in DOMAIN hooks : l # j => hooks[l] = groups[i].hooks[l]
  BY <1>1
<1> HIDE DEF hooks
<1>3. new[i] = [groups[i] EXCEPT !.hooks = hooks] /\ DOMAIN new = DOMAIN groups
      /\ \A k \in DOMAIN groups : k # i => new[k] = groups[k]
  BY <1>1
<1>4. new[i].hooks = hooks
  BY <1>1, <1>3 DEF Groups
<1> HIDE DEF new
<1>5. OursAt(new, i, j) /\ new[i].hooks[j] = hook
  BY <1>1, <1>2, <1>3, <1>4 DEF OursAt
<1>6. ASSUME NEW k, NEW l, OursAt(new, k, l) PROVE k = i /\ l = j
  <2>1. CASE k # i
    <3>1. OursAt(groups, k, l)
      BY <1>3, <1>6, <2>1 DEF OursAt
    <3> QED
      BY <2>1, <3>1 DEF OnceIn
  <2>2. CASE k = i /\ l # j
    <3>1. OursAt(groups, k, l)
      BY <1>1, <1>2, <1>3, <1>4, <1>6, <2>2 DEF OursAt
    <3> QED
      BY <2>2, <3>1 DEF OnceIn
  <2> QED
    BY <2>1, <2>2
<1>7. SoleIn(new, hook)
  BY <1>5, <1>6 DEF SoleIn
<1> QED
  BY <1>7 DEF new, hooks

\* Codex' hooks.json after the merge.
LEMMA MergeHooksJSONHookSole ==
  ASSUME NEW groups \in Seq(Groups), OnceIn(groups), NEW variant \in Names
  PROVE  SoleIn(MergeHooksJSONHook(groups, variant), <<"post", variant>>)
<1> DEFINE hook == <<"post", variant>>
           I == {i \in 1..Len(groups) : \E j \in DOMAIN groups[i].hooks : IsThlibo(groups[i].hooks[j])}
           i == Min(I)
           J == {j \in 1..Len(groups[i].hooks) : IsThlibo(groups[i].hooks[j])}
           j == Min(J)
<1>1. hook \in Hooks /\ ~IsUser(hook) /\ "^Bash$" \in Names
  BY DEF Hooks, Names, IsUser
<1>2. CASE I = {}
  <2> DEFINE g == [matcher |-> "^Bash$", hooks |-> <<hook>>]
  <2>1. MergeHooksJSONHook(groups, variant) = Append(groups, g)
    BY <1>2 DEF MergeHooksJSONHook, SelectInSeq
  <2>2. g \in Groups /\ g.hooks = <<hook>>
    BY <1>1 DEF Groups
  <2>3. NoneIn(groups)
    <3>1. DOMAIN groups = 1..Len(groups)
      OBVIOUS
    <3> QED
      BY <1>2, <3>1 DEF NoneIn, OursAt, IsThlibo, IsUser
  <2> HIDE DEF hook, I, g
  <2>4. SoleIn(Append(groups, g), hook)
    BY <1>1, <2>2, <2>3, NewGroupSole
  <2> QED
    BY <2>1, <2>4 DEF hook
<1>3. CASE I # {}
  <2>1. i \in I /\ i \in 1..Len(groups) /\ i # 0
    <3>1. I \subseteq 1..Len(groups) /\ Len(groups) \in Nat
      OBVIOUS
    <3> HIDE DEF I
    <3> QED
      BY <1>3, <3>1, FirstPlace
  <2>2. groups[i].hooks \in Seq(Hooks)
    <3> HIDE DEF i
    <3>1. groups[i] \in Groups
      BY <2>1
    <3> QED
      BY <3>1 DEF Groups
  <2>3. J # {}
    <3> HIDE DEF i
    <3>1. PICK k \in DOMAIN groups[i].hooks : IsThlibo(groups[i].hooks[k])
      BY <2>1
    <3>2. k \in 1..Len(groups[i].hooks)
      BY <2>2, <3>1
    <3> QED
      BY <3>1, <3>2
  <2>4. j \in J /\ j \in 1..Len(groups[i].hooks) /\ j # 0
    <3>1. J \subseteq 1..Len(groups[i].hooks) /\ Len(groups[i].hooks) \in Nat
      <4> HIDE DEF i
      <4> QED
        BY <2>2
    <3> HIDE DEF J
    <3> QED
      BY <2>3, <3>1, FirstPlace
  <2>5. OursAt(groups, i, j)
    <3> HIDE DEF i, j
    <3>1. ~IsUser(groups[i].hooks[j])
      BY <2>4 DEF IsUser, IsThlibo
    <3> QED
      BY <2>1, <2>2, <2>4, <3>1 DEF OursAt
  <2>6. MergeHooksJSONHook(groups, variant) = [groups EXCEPT ![i].hooks = [groups[i].hooks EXCEPT ![j] = hook]]
    BY <1>3, <2>1, <2>3, <2>4 DEF MergeHooksJSONHook, SelectInSeq, ReplaceAt
  <2> HIDE DEF i, j, hook, I, J
  <2>7. SoleIn([groups EXCEPT ![i].hooks = [groups[i].hooks EXCEPT ![j] = hook]], hook)
    BY <1>1, <2>5, ChangedHookSole
  <2> QED
    BY <2>6, <2>7 DEF hook
<1> QED
  BY <1>2, <1>3

\* What is removed from hooks.json is gone.
LEMMA WithoutOursNone ==
  ASSUME NEW groups \in Seq(Groups)
  PROVE  NoneIn(WithoutOurs(groups))
<1> DEFINE new == WithoutOurs(groups)
<1>1. new \in Seq(UsersGroups \cap Filled)
  BY WithoutOursIs
<1> HIDE DEF new
<1>2. ASSUME NEW i, NEW j, OursAt(new, i, j) PROVE FALSE
  <2>1. new[i] \in UsersGroups /\ j \in DOMAIN new[i].hooks
    BY <1>1, <1>2 DEF OursAt
  <2>2. new[i].hooks[j] \in UsersHooks
    BY <2>1 DEF UsersGroups
  <2> QED
    BY <1>2, <2>2 DEF OursAt, UsersHooks
<1> QED
  BY <1>2 DEF NoneIn, new

\* What the user adds changes nothing of it.
LEMMA OnceInConcat ==
  ASSUME NEW groups \in Seq(Groups), NEW new \in Seq(Groups), OnceIn(groups), NoneIn(new)
  PROVE  OnceIn(new \o groups) /\ OnceIn(groups \o new)
<1>1. ASSUME NEW i, NEW j, OursAt(new \o groups, i, j)
      PROVE  OursAt(groups, i - Len(new), j) /\ i - Len(new) \in Nat /\ i \in Nat
  <2>1. /\ DOMAIN (new \o groups) = 1..(Len(new) + Len(groups)) /\ Len(groups) \in Nat /\ Len(new) \in Nat
        /\ \A k \in 1..Len(new) : (new \o groups)[k] = new[k]
        /\ \A k \in 1..Len(new) + Len(groups) : k > Len(new) => (new \o groups)[k] = groups[k - Len(new)]
    BY JoinedBehind
  <2>2. DOMAIN new = 1..Len(new) /\ DOMAIN groups = 1..Len(groups)
    OBVIOUS
  <2>3. i \in 1..(Len(new) + Len(groups))
    BY <1>1, <2>1 DEF OursAt
  <2>4. ~(i <= Len(new))
    <3> SUFFICES ASSUME i <= Len(new) PROVE FALSE
      OBVIOUS
    <3>1. i \in 1..Len(new)
      BY <2>1, <2>3
    <3>2. OursAt(new, i, j)
      BY <1>1, <2>1, <2>2, <3>1 DEF OursAt
    <3> QED
      BY <3>2 DEF NoneIn
  <2>5. i > Len(new) /\ i - Len(new) \in 1..Len(groups) /\ i - Len(new) \in Nat
    BY <2>1, <2>3, <2>4
  <2> QED
    BY <1>1, <2>1, <2>2, <2>3, <2>5 DEF OursAt
<1>2. ASSUME NEW i, NEW j, OursAt(groups \o new, i, j) PROVE OursAt(groups, i, j)
  <2>1. /\ DOMAIN (groups \o new) = 1..(Len(groups) + Len(new)) /\ Len(groups) \in Nat /\ Len(new) \in Nat
        /\ \A k \in 1..Len(groups) : (groups \o new)[k] = groups[k]
        /\ \A k \in 1..Len(groups) + Len(new) : k > Len(groups) => (groups \o new)[k] = new[k - Len(groups)]
    BY JoinedBehind
  <2>2. DOMAIN new = 1..Len(new) /\ DOMAIN groups = 1..Len(groups)
    OBVIOUS
  <2>3. i \in 1..(Len(groups) + Len(new))
    BY <1>2, <2>1 DEF OursAt
  <2>4. CASE i <= Len(groups)
    <3>1. i \in 1..Len(groups)
      BY <2>1, <2>3, <2>4
    <3> QED
      BY <1>2, <2>1, <2>2, <3>1 DEF OursAt
  <2>5. CASE ~(i <= Len(groups))
    <3>1. i > Len(groups) /\ i - Len(groups) \in 1..Len(new)
      BY <2>1, <2>3, <2>5
    <3>2. OursAt(new, i - Len(groups), j)
      BY <1>2, <2>1, <2>2, <2>3, <3>1 DEF OursAt
    <3> QED
      BY <3>2 DEF NoneIn
  <2> QED
    BY <2>4, <2>5
<1>3. OnceIn(groups \o new)
  BY <1>2 DEF OnceIn
<1>4. ASSUME NEW i, NEW j, NEW k, NEW l, OursAt(new \o groups, i, j), OursAt(new \o groups, k, l)
      PROVE  i = k /\ j = l
  <2>1. /\ OursAt(groups, i - Len(new), j) /\ OursAt(groups, k - Len(new), l)
        /\ i \in Nat /\ k \in Nat /\ Len(new) \in Nat
    BY <1>1, <1>4
  <2>2. i - Len(new) = k - Len(new) /\ j = l
    BY <2>1 DEF OnceIn
  <2> QED
    BY <2>1, <2>2
<1>5. OnceIn(new \o groups)
  BY <1>4 DEF OnceIn
<1> QED
  BY <1>3, <1>5

\* The hooks of a family that a host finds in all groups.
LEMMA HooksOfPlace ==
  ASSUME NEW groups \in Seq(Groups), NEW set, NEW k \in Nat \ {0},
         \A i \in 1..Len(groups) : i # k => Only(groups[i].hooks, set) = <<>>
  PROVE  Only(HooksOf(groups), set) = IF k <= Len(groups) THEN Only(groups[k].hooks, set) ELSE <<>>
<1> DEFINE f == HooksUpTo(groups)
           S == {n \in Nat : n <= Len(groups) =>
                   /\ f[n] \in Seq(Hooks)
                   /\ Only(f[n], set) = IF k <= n THEN Only(groups[k].hooks, set) ELSE <<>>}
<1>1. /\ HooksOf(groups) = f[Len(groups)] /\ f[0] = <<>>
      /\ \A n \in 1..Len(groups) : f[n] = f[n - 1] \o groups[n].hooks
  BY HooksOfDef
<1> HIDE DEF f
<1>2. 0 \in S
  <2>1. <<>> \in Seq(Hooks) /\ ~(k <= 0)
    OBVIOUS
  <2> QED
    BY <1>1, <2>1, OnlyEmpty
<1>3. ASSUME NEW n \in Nat, n \in S PROVE n + 1 \in S
  <2> SUFFICES ASSUME n + 1 <= Len(groups)
               PROVE  /\ f[n + 1] \in Seq(Hooks)
                      /\ Only(f[n + 1], set) = IF k <= n + 1 THEN Only(groups[k].hooks, set) ELSE <<>>
    OBVIOUS
  <2>1. n + 1 \in 1..Len(groups) /\ (n + 1) - 1 = n /\ n <= Len(groups) /\ Len(groups) \in Nat
    OBVIOUS
  <2>2. f[n] \in Seq(Hooks) /\ Only(f[n], set) = IF k <= n THEN Only(groups[k].hooks, set) ELSE <<>>
    BY <1>3, <2>1
  <2> DEFINE more == groups[n + 1].hooks
  <2>3. more \in Seq(Hooks)
    <3>1. groups[n + 1] \in Groups
      BY <2>1
    <3> QED
      BY <3>1 DEF Groups
  <2>4. f[n + 1] = f[n] \o more
    BY <1>1, <2>1
  <2>8. n + 1 # k => Only(more, set) = <<>>
    BY <2>1
  <2>9. n + 1 = k => more = groups[k].hooks
    OBVIOUS
  <2> HIDE DEF S, more
  <2>5. Only(f[n] \o more, set) = Only(f[n], set) \o Only(more, set)
    BY <2>2, <2>3, OnlyConcat
  <2>6. /\ Only(f[n], set) \in Seq(Hooks) /\ Only(more, set) \in Seq(Hooks)
    BY <2>2, <2>3, OnlyType
  <2>7. /\ Only(f[n], set) \o <<>> = Only(f[n], set) /\ <<>> \o Only(more, set) = Only(more, set)
        /\ f[n] \o more \in Seq(Hooks)
    BY <2>2, <2>3, <2>6
  <2>10. CASE n + 1 = k
    <3>1. Only(f[n], set) = <<>>
      BY <2>2, <2>10
    <3> QED
      BY <2>4, <2>5, <2>7, <2>9, <2>10, <3>1
  <2>11. CASE n + 1 # k
    <3>1. k <= n + 1 <=> k <= n
      BY <2>11
    <3> QED
      BY <2>2, <2>4, <2>5, <2>7, <2>8, <2>11, <3>1
  <2> QED
    BY <2>10, <2>11
<1>4. \A n \in Nat : n \in S
  <2> HIDE DEF S
  <2> QED
    BY <1>2, <1>3, Induction
<1>5. Len(groups) \in Nat
  OBVIOUS
<1> QED
  BY <1>1, <1>4, <1>5

\* hooks.json as Codex reads it: one call, or none.
LEMMA SoleInCalls ==
  ASSUME NEW groups \in Seq(Groups), NEW variant, SoleIn(groups, <<"post", variant>>)
  PROVE  Only(HooksOf(groups), Family("post")) = <<<<"post", variant>>>>
<1> DEFINE hook == <<"post", variant>>
<1>1. PICK i, j : /\ OursAt(groups, i, j) /\ groups[i].hooks[j] = hook
                  /\ \A k, l : OursAt(groups, k, l) => k = i /\ l = j
  BY DEF SoleIn
<1>2. \A k \in 1..Len(groups) : groups[k].hooks \in Seq(Hooks)
  <2>1. \A k \in 1..Len(groups) : groups[k] \in Groups
    OBVIOUS
  <2> QED
    BY <2>1 DEF Groups
<1>3. i \in 1..Len(groups) /\ i \in Nat \ {0} /\ i <= Len(groups)
  BY <1>1 DEF OursAt
<1>4. hook[1] = "post"
  OBVIOUS
<1> HIDE DEF hook
<1>5. Sole(groups[i].hooks, Family("post"), hook)
  <2>1. ASSUME NEW l \in DOMAIN groups[i].hooks PROVE groups[i].hooks[l] \in Family("post") <=> l = j
    <3>1. groups[i].hooks[l] \in Hooks
      BY <1>2, <1>3, <2>1
    <3>2. groups[i].hooks[l] \in Family("post") => OursAt(groups, i, l)
      BY <1>3, <2>1 DEF Family, OursAt, IsUser
    <3>3. groups[i].hooks[j] \in Family("post") \/ l # j
      BY <1>1, <1>4, <3>1 DEF Family
    <3> QED
      BY <1>1, <3>2, <3>3
  <2>2. j \in DOMAIN groups[i].hooks
    BY <1>1 DEF OursAt
  <2> QED
    BY <1>1, <2>1, <2>2 DEF Sole
<1>6. ASSUME NEW k \in 1..Len(groups), k # i PROVE Only(groups[k].hooks, Family("post")) = <<>>
  <2>1. \A l \in 1..Len(groups[k].hooks) : groups[k].hooks[l] \notin Family("post")
    <3> SUFFICES ASSUME NEW l \in 1..Len(groups[k].hooks), groups[k].hooks[l] \in Family("post") PROVE FALSE
      OBVIOUS
    <3>1. l \in DOMAIN groups[k].hooks /\ k \in DOMAIN groups
      BY <1>2
    <3>2. OursAt(groups, k, l)
      BY <3>1 DEF Family, OursAt, IsUser
    <3> QED
      BY <1>1, <1>6, <3>2
  <2> QED
    BY <1>2, <2>1, OnlyNowhere
<1>7. Only(HooksOf(groups), Family("post")) = Only(groups[i].hooks, Family("post"))
  BY <1>3, <1>6, HooksOfPlace
<1>8. Only(groups[i].hooks, Family("post")) = <<hook>>
  BY <1>2, <1>3, <1>5, OnlySole
<1> QED
  BY <1>7, <1>8 DEF hook

\* And no call if there is no hook of thlibo's.
LEMMA NoneInCalls ==
  ASSUME NEW groups \in Seq(Groups), NoneIn(groups)
  PROVE  Only(HooksOf(groups), Family("post")) = <<>>
<1> DEFINE k == Len(groups) + 1
<1>1. \A i \in 1..Len(groups) : groups[i].hooks \in Seq(Hooks)
  <2>1. \A i \in 1..Len(groups) : groups[i] \in Groups
    OBVIOUS
  <2> QED
    BY <2>1 DEF Groups
<1>2. ASSUME NEW i \in 1..Len(groups) PROVE Only(groups[i].hooks, Family("post")) = <<>>
  <2>1. \A l \in 1..Len(groups[i].hooks) : groups[i].hooks[l] \notin Family("post")
    <3> SUFFICES ASSUME NEW l \in 1..Len(groups[i].hooks), groups[i].hooks[l] \in Family("post") PROVE FALSE
      OBVIOUS
    <3>1. l \in DOMAIN groups[i].hooks /\ i \in DOMAIN groups
      BY <1>1
    <3>2. OursAt(groups, i, l)
      BY <3>1 DEF Family, OursAt, IsUser
    <3> QED
      BY <3>2 DEF NoneIn
  <2> QED
    BY <1>1, <2>1, OnlyNowhere
<1>3. k \in Nat \ {0} /\ ~(k <= Len(groups))
  OBVIOUS
<1> HIDE DEF k
<1>4. Only(HooksOf(groups), Family("post"))
        = IF k <= Len(groups) THEN Only(groups[k].hooks, Family("post")) ELSE <<>>
  BY <1>2, <1>3, HooksOfPlace
<1> QED
  BY <1>3, <1>4

\* The two lines that switch Codex' hooks on.
FlagOn == <<"hooks = true", "flag">>
FeaturesHeader == <<"[features]", "thlibo">>

\* The first header of the features, and the first flag below it.
FirstFeatures(lines, f) ==
  /\ f \in 1..Len(lines) /\ Text(lines[f]) = "[features]"
  /\ \A i \in 1..f - 1 : Text(lines[i]) # "[features]"

FirstFlag(lines, f, g) ==
  /\ g \in 1..Len(lines) /\ HeaderOf(lines, g) = f /\ Text(lines[g]) \in Flags
  /\ \A i \in 1..g - 1 : ~(HeaderOf(lines, i) = f /\ Text(lines[i]) \in Flags)

FlagIn(lines, f, i) == i \in 1..Len(lines) /\ HeaderOf(lines, i) = f /\ Text(lines[i]) \in Flags

\* The three ways of ensureCodexHooksTrue.
FlagAppended(lines, new) ==
  /\ \A i \in 1..Len(lines) : Text(lines[i]) # "[features]"
  /\ new = Append(Append(lines, FeaturesHeader), FlagOn)

FlagInserted(lines, f, new) ==
  /\ FirstFeatures(lines, f) /\ \A i \in 1..Len(lines) : ~FlagIn(lines, f, i)
  /\ new = Append(SubSeq(lines, 1, f), FlagOn) \o SubSeq(lines, f + 1, Len(lines))

FlagSet(lines, f, g, new) ==
  /\ FirstFeatures(lines, f) /\ FirstFlag(lines, f, g)
  /\ new = IF Text(lines[g]) = "hooks = true" THEN lines ELSE [lines EXCEPT ![g] = FlagOn]

\* The lines that switch the hooks on.
LEMMA FlagLines ==
  /\ FlagOn \in Hooks /\ Text(FlagOn) = "hooks = true" /\ Text(FlagOn) \in Flags
  /\ FeaturesHeader \in Hooks /\ Text(FeaturesHeader) = "[features]"
  /\ "[features]" \in Headers /\ "[features]" \notin Flags /\ "hooks = true" \notin Headers
  /\ "hooks = true" \in Flags
  /\ "[features]" \notin {Group, GroupHook}
BY DEF FlagOn, FeaturesHeader, Hooks, Names, Flags, Text, Headers, Group, GroupHook, TrustedState

\* The least of a set, named.
LEMMA MinIs ==
  ASSUME NEW I, I \subseteq Nat, NEW k \in I, \A i \in I : ~(i < k)
  PROVE  Min(I) = k
<1>1. Min(I) \in I /\ Min(I) <= k
  BY MinOf
<1>2. Min(I) \in Nat /\ k \in Nat /\ ~(Min(I) < k)
  BY <1>1
<1> QED
  BY <1>1, <1>2

\* The three things that ensureCodexHooksTrue may do.
LEMMA EnsureIs ==
  ASSUME NEW lines \in Seq(Hooks)
  PROVE  \/ FlagAppended(lines, EnsureCodexHooksTrue(lines))
         \/ \E f : FlagInserted(lines, f, EnsureCodexHooksTrue(lines))
         \/ \E f, g : FlagSet(lines, f, g, EnsureCodexHooksTrue(lines))
<1> DEFINE new == EnsureCodexHooksTrue(lines)
           I == {i \in 1..Len(lines) : Text(lines[i]) = "[features]"}
           f == Min(I)
           flags == {i \in DOMAIN lines : HeaderOf(lines, i) = f /\ Text(lines[i]) \in Flags}
           g == Min(flags)
<1>0. DOMAIN lines = 1..Len(lines) /\ Len(lines) \in Nat
  OBVIOUS
<1>1. CASE I = {}
  <2>1. new = lines \o <<FeaturesHeader, FlagOn>>
    BY <1>1 DEF EnsureCodexHooksTrue, SelectInSeq, FeaturesHeader, FlagOn
  <2>2. lines \o <<FeaturesHeader, FlagOn>> = Append(Append(lines, FeaturesHeader), FlagOn)
    <3> DEFINE a == FeaturesHeader
               b == FlagOn
    <3>1. a \in Hooks /\ b \in Hooks
      BY FlagLines
    <3> HIDE DEF a, b
    <3>2. lines \o <<a, b>> = Append(Append(lines, a), b)
      BY <3>1
    <3> QED
      BY <3>2 DEF a, b
  <2> HIDE DEF new
  <2>3. FlagAppended(lines, new)
    BY <1>1, <2>1, <2>2 DEF FlagAppended
  <2> QED
    BY <2>3 DEF new
<1>2. CASE I # {}
  <2>1. f \in I /\ f \in 1..Len(lines) /\ f # 0 /\ \A i \in I : f <= i
    <3>1. I \subseteq 1..Len(lines) /\ I \subseteq Nat
      OBVIOUS
    <3> HIDE DEF I
    <3> QED
      BY <1>0, <1>2, <3>1, FirstPlace, MinOf
  <2>2. FirstFeatures(lines, f)
    <3> HIDE DEF f
    <3>1. \A i \in 1..f - 1 : i \in 1..Len(lines) /\ ~(f <= i)
      BY <1>0, <2>1
    <3> QED
      BY <2>1, <3>1 DEF FirstFeatures
  <2>3. CASE flags = {}
    <3>1. new = InsertAt(lines, f + 1, FlagOn)
      BY <1>2, <2>1, <2>3 DEF EnsureCodexHooksTrue, SelectInSeq, FlagOn
    <3>2. \A i \in 1..Len(lines) : ~FlagIn(lines, f, i)
      BY <1>0, <2>3 DEF FlagIn
    <3> HIDE DEF new, f, flags
    <3>3. InsertAt(lines, f + 1, FlagOn) = SubSeq(lines, 1, f) \o <<FlagOn>> \o SubSeq(lines, f + 1, Len(lines))
      <4>1. (f + 1) - 1 = f
        BY <2>1
      <4> QED
        BY <4>1 DEF InsertAt
    <3>4. SubSeq(lines, 1, f) \o <<FlagOn>> = Append(SubSeq(lines, 1, f), FlagOn)
      <4>1. SubSeq(lines, 1, f) \in Seq(Hooks) /\ FlagOn \in Hooks
        BY <2>1, Cut, FlagLines
      <4> QED
        BY <4>1, Longer
    <3>5. FlagInserted(lines, f, new)
      BY <2>2, <3>1, <3>2, <3>3, <3>4 DEF FlagInserted
    <3> QED
      BY <3>5 DEF new
  <2>4. CASE flags # {}
    <3>1. g \in flags /\ g \in 1..Len(lines) /\ \A i \in flags : g <= i
      <4>1. flags \subseteq 1..Len(lines) /\ flags \subseteq Nat
        BY <1>0
      <4> HIDE DEF flags
      <4> QED
        BY <1>0, <2>4, <4>1, FirstPlace, MinOf
    <3>2. new = IF Text(lines[g]) = "hooks = true" THEN lines ELSE [lines EXCEPT ![g] = FlagOn]
      BY <1>2, <2>1, <2>4 DEF EnsureCodexHooksTrue, SelectInSeq, FlagOn
    <3> HIDE DEF new, f, g
    <3>3. FirstFlag(lines, f, g)
      <4>1. \A i \in 1..g - 1 : i \in 1..Len(lines) /\ ~(g <= i)
        BY <1>0, <3>1
      <4> QED
        BY <1>0, <3>1, <4>1 DEF FirstFlag
    <3>4. FlagSet(lines, f, g, new)
      BY <2>2, <3>2, <3>3 DEF FlagSet
    <3> QED
      BY <3>4 DEF new
  <2> QED
    BY <2>3, <2>4
<1> QED
  BY <1>1, <1>2

\* The flag that counts is on.
SwitchedOn(lines) ==
  \E f, g : FirstFeatures(lines, f) /\ FirstFlag(lines, f, g) /\ Text(lines[g]) = "hooks = true"

\* Where the hooks are on, there is nothing to do.
LEMMA SwitchedOnStays ==
  ASSUME NEW lines \in Seq(Hooks), SwitchedOn(lines)
  PROVE  EnsureCodexHooksTrue(lines) = lines
<1>1. PICK f, g : FirstFeatures(lines, f) /\ FirstFlag(lines, f, g) /\ Text(lines[g]) = "hooks = true"
  BY DEF SwitchedOn
<1> DEFINE I == {i \in 1..Len(lines) : Text(lines[i]) = "[features]"}
           flags == {i \in DOMAIN lines : HeaderOf(lines, i) = f /\ Text(lines[i]) \in Flags}
<1>0. DOMAIN lines = 1..Len(lines) /\ Len(lines) \in Nat
  OBVIOUS
<1>2. f \in 1..Len(lines) /\ g \in 1..Len(lines)
  BY <1>1 DEF FirstFeatures, FirstFlag
<1>3. f \in I /\ Min(I) = f
  <2>1. f \in I /\ I \subseteq Nat
    <3>1. Text(lines[f]) = "[features]"
      BY <1>1 DEF FirstFeatures
    <3>2. I \subseteq Nat
      OBVIOUS
    <3> QED
      BY <1>2, <3>1, <3>2
  <2>2. \A i \in I : ~(i < f)
    <3>1. \A i \in I : i < f => i \in 1..f - 1
      BY <1>0, <1>2
    <3> QED
      BY <1>1, <3>1 DEF FirstFeatures
  <2> HIDE DEF I
  <2> QED
    BY <2>1, <2>2, MinIs
<1>4. g \in flags /\ Min(flags) = g
  <2>1. g \in flags /\ flags \subseteq Nat
    <3>1. HeaderOf(lines, g) = f /\ Text(lines[g]) \in Flags
      BY <1>1 DEF FirstFlag
    <3>2. flags \subseteq Nat
      BY <1>0
    <3> QED
      BY <1>0, <1>2, <3>1, <3>2
  <2>2. \A i \in flags : ~(i < g)
    <3>1. \A i \in flags : i < g => i \in 1..g - 1
      BY <1>0, <1>2
    <3> QED
      BY <1>1, <3>1 DEF FirstFlag
  <2> HIDE DEF flags
  <2> QED
    BY <2>1, <2>2, MinIs
<1>5. SelectInSeq(lines, LAMBDA l : Text(l) = "[features]") = f /\ f # 0
  BY <1>2, <1>3 DEF SelectInSeq
<1> QED
  BY <1>1, <1>4, <1>5 DEF EnsureCodexHooksTrue

\* Lists with headers at the same places.
LEMMA HeaderAlike ==
  ASSUME NEW a, NEW b, NEW n \in Nat,
         \A i \in 1..n : Text(a[i]) \in Headers <=> Text(b[i]) \in Headers
  PROVE  HeaderOf(a, n) = HeaderOf(b, n)
<1> DEFINE last(A) == IF A = {} THEN 0 ELSE CHOOSE h \in A : \A k \in A : k <= h
           one == {h \in 1..n : Text(a[h]) \in Headers}
           two == {h \in 1..n : Text(b[h]) \in Headers}
<1>1. one = two
  OBVIOUS
<1>2. HeaderOf(a, n) = last(one) /\ HeaderOf(b, n) = last(two)
  BY DEF HeaderOf
<1> HIDE DEF last, one, two
<1> QED
  BY <1>1, <1>2

\* A line under a header, and lines behind its end.
LEMMA HeaderBelow ==
  ASSUME NEW lines, NEW f \in Nat \ {0}, Text(lines[f]) \in Headers, Text(lines[f + 1]) \notin Headers
  PROVE  HeaderOf(lines, f) = f /\ HeaderOf(lines, f + 1) = f
<1>1. HeaderOf(lines, f) = f
  BY HeaderStep
<1>2. f + 1 \in Nat \ {0} /\ (f + 1) - 1 = f
  OBVIOUS
<1>3. HeaderOf(lines, f + 1) = HeaderOf(lines, (f + 1) - 1)
  BY <1>2, HeaderStep
<1> QED
  BY <1>1, <1>2, <1>3

\* The flag right under the first header of the features.
LEMMA FlagBelow ==
  ASSUME NEW lines \in Seq(Hooks), NEW f \in 1..Len(lines), f + 1 \in 1..Len(lines),
         FirstFeatures(lines, f), lines[f + 1] = FlagOn
  PROVE  SwitchedOn(lines)
<1>1. /\ Text(lines[f]) \in Headers /\ Text(lines[f]) \notin Flags
      /\ Text(lines[f + 1]) \notin Headers /\ Text(lines[f + 1]) \in Flags
      /\ Text(lines[f + 1]) = "hooks = true"
  BY FlagLines DEF FirstFeatures
<1>2. f \in Nat \ {0} /\ (f + 1) - 1 = f
  OBVIOUS
<1>3. HeaderOf(lines, f) = f /\ HeaderOf(lines, f + 1) = f
  BY <1>1, <1>2, HeaderBelow
<1>4. ASSUME NEW i \in 1..(f + 1) - 1, HeaderOf(lines, i) = f, Text(lines[i]) \in Flags PROVE FALSE
  <2>1. i \in Nat /\ i \in 1..f
    BY <1>2
  <2>2. HeaderOf(lines, i) \in 1..i
    BY <1>2, <1>4, <2>1, HeaderIs
  <2>3. i = f
    BY <1>4, <2>1, <2>2
  <2> QED
    BY <1>1, <1>4, <2>3
<1>5. FirstFlag(lines, f, f + 1)
  BY <1>1, <1>3, <1>4 DEF FirstFlag
<1> QED
  BY <1>1, <1>5 DEF SwitchedOn

\* The flag that is set where it was.
LEMMA FlagKept ==
  ASSUME NEW lines \in Seq(Hooks), NEW f, NEW g, FirstFeatures(lines, f), FirstFlag(lines, f, g)
  PROVE  SwitchedOn([lines EXCEPT ![g] = FlagOn])
<1> DEFINE new == [lines EXCEPT ![g] = FlagOn]
<1>1. f \in 1..Len(lines) /\ g \in 1..Len(lines) /\ Len(lines) \in Nat
  BY DEF FirstFeatures, FirstFlag
<1>2. /\ new \in Seq(Hooks) /\ Len(new) = Len(lines) /\ new[g] = FlagOn
      /\ \A i \in 1..Len(lines) : i # g => new[i] = lines[i]
  <2> HIDE DEF FlagOn
  <2>1. FlagOn \in Hooks
    BY FlagLines
  <2> QED
    BY <1>1, <2>1, Changed
<1> HIDE DEF new
<1>3. Text(lines[g]) \in Flags /\ Text(lines[g]) \notin Headers /\ Text(new[g]) \notin Headers
      /\ Text(new[g]) \in Flags /\ Text(new[g]) = "hooks = true" /\ Text(lines[g]) # "[features]"
  <2>1. Text(lines[g]) \in Flags
    BY DEF FirstFlag
  <2> QED
    BY <1>2, <2>1, FlagLines, TextsDiffer
<1>4. ASSUME NEW n \in 1..Len(lines) PROVE HeaderOf(new, n) = HeaderOf(lines, n)
  <2>1. \A i \in 1..n : i \in 1..Len(lines)
    BY <1>1
  <2>2. \A i \in 1..n : Text(new[i]) \in Headers <=> Text(lines[i]) \in Headers
    BY <1>2, <1>3, <2>1
  <2>3. n \in Nat
    OBVIOUS
  <2> QED
    BY <2>2, <2>3, HeaderAlike
<1>5. FirstFeatures(new, f)
  <2>1. f # g
    BY <1>3 DEF FirstFeatures
  <2>2. \A i \in 1..f - 1 : i \in 1..Len(lines)
    BY <1>1
  <2>3. \A i \in 1..f - 1 : Text(new[i]) # "[features]"
    BY <1>2, <1>3, <2>2, FlagLines DEF FirstFeatures
  <2> QED
    BY <1>1, <1>2, <2>1, <2>3 DEF FirstFeatures
<1>6. FirstFlag(new, f, g)
  <2>1. \A i \in 1..g - 1 : i \in 1..Len(lines) /\ i # g
    BY <1>1
  <2>2. \A i \in 1..g - 1 : HeaderOf(new, i) = HeaderOf(lines, i) /\ new[i] = lines[i]
    BY <1>2, <1>4, <2>1
  <2>3. HeaderOf(new, g) = f
    BY <1>1, <1>4 DEF FirstFlag
  <2> QED
    BY <1>1, <1>2, <1>3, <2>2, <2>3 DEF FirstFlag
<1>7. SwitchedOn(new)
  BY <1>3, <1>5, <1>6 DEF SwitchedOn
<1> QED
  BY <1>7 DEF new

\* What ensureCodexHooksTrue leaves is switched on: a second time it does nothing.
LEMMA EnsureCodexHooksTrueTwice ==
  ASSUME NEW lines \in Seq(Hooks)
  PROVE  LET new == EnsureCodexHooksTrue(lines)
         IN  new \in Seq(Hooks) /\ EnsureCodexHooksTrue(new) = new
<1> DEFINE new == EnsureCodexHooksTrue(lines)
<1>0. Len(lines) \in Nat /\ FlagOn \in Hooks /\ FeaturesHeader \in Hooks
  <2>1. Len(lines) \in Nat
    OBVIOUS
  <2> HIDE DEF new
  <2> QED
    BY <2>1, FlagLines
<1>1. CASE FlagAppended(lines, new)
  <2> DEFINE n == Len(lines) + 1
  <2>1. new = Append(Append(lines, FeaturesHeader), FlagOn)
    BY <1>1 DEF FlagAppended
  <2>2. ASSUME NEW a \in Hooks, NEW b \in Hooks
        PROVE  LET two == Append(Append(lines, a), b)
               IN  /\ two \in Seq(Hooks) /\ Len(two) = n + 1 /\ two[n] = a /\ two[n + 1] = b
                   /\ \A i \in 1..Len(lines) : two[i] = lines[i]
    OBVIOUS
  <2> HIDE DEF new
  <2>3. /\ new \in Seq(Hooks) /\ Len(new) = n + 1 /\ new[n] = FeaturesHeader /\ new[n + 1] = FlagOn
        /\ \A i \in 1..Len(lines) : new[i] = lines[i]
    <3> HIDE DEF n
    <3> QED
      BY <1>0, <2>1, <2>2
  <2>4. n \in 1..Len(new) /\ n + 1 \in 1..Len(new) /\ \A i \in 1..n - 1 : i \in 1..Len(lines)
    BY <1>0, <2>3
  <2> HIDE DEF n
  <2>5. FirstFeatures(new, n)
    BY <1>1, <2>3, <2>4, FlagLines DEF FirstFeatures, FlagAppended
  <2>6. SwitchedOn(new)
    BY <2>3, <2>4, <2>5, FlagBelow
  <2> QED
    BY <2>3, <2>6, SwitchedOnStays DEF new
<1>2. CASE \E f : FlagInserted(lines, f, new)
  <2> HIDE DEF new
  <2>1. PICK f : FlagInserted(lines, f, new)
    BY <1>2
  <2>2. FirstFeatures(lines, f) /\ f \in 1..Len(lines)
        /\ new = Append(SubSeq(lines, 1, f), FlagOn) \o SubSeq(lines, f + 1, Len(lines))
    BY <2>1 DEF FlagInserted, FirstFeatures
  <2> DEFINE a == SubSeq(lines, 1, f)
             c == SubSeq(lines, f + 1, Len(lines))
             b == Append(a, FlagOn)
  <2>3. /\ a \in Seq(Hooks) /\ Len(a) = f /\ \A i \in 1..f : a[i] = lines[i]
        /\ c \in Seq(Hooks)
    BY <2>2
  <2>4. ASSUME NEW x \in Hooks
        PROVE  /\ Append(a, x) \in Seq(Hooks) /\ Len(Append(a, x)) = f + 1 /\ Append(a, x)[f + 1] = x
               /\ \A i \in 1..f : Append(a, x)[i] = a[i]
    <3> HIDE DEF a
    <3> QED
      BY <2>3
  <2>5. /\ b \in Seq(Hooks) /\ Len(b) = f + 1 /\ b[f + 1] = FlagOn /\ \A i \in 1..f : b[i] = lines[i]
    <3> HIDE DEF a
    <3> QED
      BY <1>0, <2>3, <2>4
  <2> HIDE DEF a, b, c
  <2>6. /\ DOMAIN (b \o c) = 1..(Len(b) + Len(c)) /\ Len(c) \in Nat
        /\ \A i \in 1..Len(b) : (b \o c)[i] = b[i]
    BY <2>3, <2>5, JoinedBehind
  <2>7. new = b \o c /\ new \in Seq(Hooks)
    <3>1. b \o c \in Seq(Hooks)
      BY <2>3, <2>5
    <3> QED
      BY <2>2, <3>1 DEF a, b, c
  <2>8. f \in 1..Len(new) /\ f + 1 \in 1..Len(new)
    <3>1. Len(new) = (f + 1) + Len(c)
      <4>1. Len(b \o c) = Len(b) + Len(c)
        BY <2>3, <2>5, ConcatProperties
      <4> QED
        BY <2>5, <2>7, <4>1
    <3>2. Len(c) \in Nat /\ f \in Nat \ {0}
      BY <2>2, <2>6
    <3> QED
      BY <3>1, <3>2
  <2>9. new[f + 1] = FlagOn /\ \A i \in 1..f : new[i] = lines[i]
    <3>1. f + 1 \in 1..Len(b) /\ \A i \in 1..f : i \in 1..Len(b)
      BY <2>2, <2>5
    <3>2. \A i \in 1..Len(b) : new[i] = b[i]
      BY <2>6, <2>7
    <3> QED
      BY <2>5, <3>1, <3>2
  <2>10. FirstFeatures(new, f)
    <3>1. \A i \in 1..f - 1 : i \in 1..f
      BY <2>2
    <3>2. f \in 1..f
      BY <2>2
    <3> QED
      BY <2>2, <2>8, <2>9, <3>1, <3>2 DEF FirstFeatures
  <2>11. SwitchedOn(new)
    BY <2>7, <2>8, <2>9, <2>10, FlagBelow
  <2> QED
    BY <2>7, <2>11, SwitchedOnStays DEF new
<1>3. CASE \E f, g : FlagSet(lines, f, g, new)
  <2> HIDE DEF new
  <2>1. PICK f, g : FlagSet(lines, f, g, new)
    BY <1>3
  <2>2. FirstFeatures(lines, f) /\ FirstFlag(lines, f, g) /\ g \in 1..Len(lines)
        /\ new = IF Text(lines[g]) = "hooks = true" THEN lines ELSE [lines EXCEPT ![g] = FlagOn]
    BY <2>1 DEF FlagSet, FirstFlag
  <2>3. [lines EXCEPT ![g] = FlagOn] \in Seq(Hooks) /\ SwitchedOn([lines EXCEPT ![g] = FlagOn])
    BY <1>0, <2>2, Changed, FlagKept
  <2>4. Text(lines[g]) = "hooks = true" => SwitchedOn(lines)
    BY <2>2 DEF SwitchedOn
  <2>5. new \in Seq(Hooks) /\ SwitchedOn(new)
    BY <2>2, <2>3, <2>4
  <2> QED
    BY <2>5, SwitchedOnStays DEF new
<1> QED
  BY <1>1, <1>2, <1>3, EnsureIs

\* What is neither a flag nor that header is what it was.
LEMMA EnsureKeepsSet ==
  ASSUME NEW lines \in Seq(Hooks), NEW set, FeaturesHeader \notin set, \A l \in set : Text(l) \notin Flags
  PROVE  Only(EnsureCodexHooksTrue(lines), set) = Only(lines, set)
<1> DEFINE new == EnsureCodexHooksTrue(lines)
<1>0. Len(lines) \in Nat /\ FlagOn \in Hooks /\ FeaturesHeader \in Hooks /\ FlagOn \notin set
  <2>1. Len(lines) \in Nat
    OBVIOUS
  <2> HIDE DEF new
  <2> QED
    BY <2>1, FlagLines
<1>1. CASE FlagAppended(lines, new)
  <2> DEFINE one == Append(lines, FeaturesHeader)
  <2>1. new = Append(one, FlagOn) /\ one \in Seq(Hooks)
    BY <1>0, <1>1 DEF FlagAppended
  <2>2. Only(one, set) = Only(lines, set)
    BY <1>0, OnlyAppend
  <2> HIDE DEF one, new
  <2>3. Only(Append(one, FlagOn), set) = Only(one, set)
    BY <1>0, <2>1, OnlyAppend
  <2> QED
    BY <2>1, <2>2, <2>3 DEF new
<1>2. CASE \E f : FlagInserted(lines, f, new)
  <2> HIDE DEF new
  <2>1. PICK f : FlagInserted(lines, f, new)
    BY <1>2
  <2>2. f \in 1..Len(lines)
        /\ new = Append(SubSeq(lines, 1, f), FlagOn) \o SubSeq(lines, f + 1, Len(lines))
    BY <2>1 DEF FlagInserted, FirstFeatures
  <2> DEFINE a == SubSeq(lines, 1, f)
             c == SubSeq(lines, f + 1, Len(lines))
  <2>3. a \in Seq(Hooks) /\ c \in Seq(Hooks) /\ a \o c = lines
    BY <2>2, Cut
  <2> HIDE DEF a, c
  <2>4. Only(Append(a, FlagOn) \o c, set) = Only(a \o c, set)
    <3>1. a \in Seq(Hooks) /\ c \in Seq(Hooks) /\ FlagOn \in Hooks /\ FlagOn \notin set
      BY <1>0, <2>3
    <3> QED
      BY <3>1, OnlyInserted
  <2> QED
    BY <2>2, <2>3, <2>4 DEF a, c, new
<1>3. CASE \E f, g : FlagSet(lines, f, g, new)
  <2> HIDE DEF new
  <2>1. PICK f, g : FlagSet(lines, f, g, new)
    BY <1>3
  <2>2. g \in 1..Len(lines) /\ Text(lines[g]) \in Flags
        /\ new = IF Text(lines[g]) = "hooks = true" THEN lines ELSE [lines EXCEPT ![g] = FlagOn]
    BY <2>1 DEF FlagSet, FirstFlag
  <2> DEFINE set2 == [lines EXCEPT ![g] = FlagOn]
  <2>3. /\ set2 \in Seq(Hooks) /\ Len(set2) = Len(lines) /\ set2[g] = FlagOn
        /\ \A i \in 1..Len(lines) : i # g => set2[i] = lines[i]
    <3>1. FlagOn \in Hooks /\ g \in 1..Len(lines)
      BY <1>0, <2>2
    <3> QED
      BY <3>1, Changed
  <2> HIDE DEF set2
  <2>4. \A i \in 1..Len(lines) : lines[i] = set2[i] \/ (lines[i] \notin set /\ set2[i] \notin set)
    BY <1>0, <2>2, <2>3
  <2>5. Only(lines, set) = Only(set2, set)
    BY <2>3, <2>4, OnlyAlike
  <2> QED
    BY <2>2, <2>5 DEF set2, new
<1> QED
  BY <1>1, <1>2, <1>3, EnsureIs

\* The hook tables of config.toml.
InlineHeads == {l \in Hooks : Text(l) \in {Group, GroupHook}}

\* Hook tables, as a selection.
LEMMA InlineSelected ==
  ASSUME NEW lines \in Seq(Hooks)
  PROVE  ConfigHasInlineHooks(lines) <=> Only(lines, InlineHeads) # <<>>
<1>1. DOMAIN lines = 1..Len(lines) /\ \A i \in 1..Len(lines) : lines[i] \in Hooks
  OBVIOUS
<1>2. ConfigHasInlineHooks(lines) <=> \E i \in 1..Len(lines) : lines[i] \in InlineHeads
  BY <1>1 DEF ConfigHasInlineHooks, InlineHeads
<1>3. (\A i \in 1..Len(lines) : lines[i] \notin InlineHeads) => Only(lines, InlineHeads) = <<>>
  BY OnlyNowhere
<1>4. Only(lines, InlineHeads) = <<>> => \A i \in 1..Len(lines) : lines[i] \notin InlineHeads
  BY NothingSelected
<1> QED
  BY <1>2, <1>3, <1>4

\* Switching the hooks on leaves thlibo's commands and all hook tables.
LEMMA EnsureKeepsHooks ==
  ASSUME NEW lines \in Seq(Hooks)
  PROVE  LET new == EnsureCodexHooksTrue(lines)
         IN  /\ Once(lines, Commands) => Once(new, Commands)
             /\ \A x : Sole(lines, Commands, x) => Sole(new, Commands, x)
             /\ ConfigHasInlineHooks(new) <=> ConfigHasInlineHooks(lines)
<1> DEFINE new == EnsureCodexHooksTrue(lines)
<1>1. new \in Seq(Hooks)
  BY EnsureCodexHooksTrueTwice
<1>2. Only(new, Commands) = Only(lines, Commands)
  <2>1. FeaturesHeader \notin Commands
    BY FlagLines, TextsDiffer DEF Commands
  <2>2. \A l \in Commands : Text(l) \notin Flags
    BY TextsDiffer DEF Commands
  <2> QED
    BY <2>1, <2>2, EnsureKeepsSet
<1>3. Only(new, InlineHeads) = Only(lines, InlineHeads)
  <2>1. FeaturesHeader \notin InlineHeads
    BY FlagLines DEF InlineHeads
  <2>2. \A l \in InlineHeads : Text(l) \notin Flags
    BY TextsDiffer DEF InlineHeads
  <2> QED
    BY <2>1, <2>2, EnsureKeepsSet
<1> HIDE DEF new
<1>4. ASSUME Once(lines, Commands) PROVE Once(new, Commands)
  <2>1. Len(Only(lines, Commands)) <= 1
    BY <1>4, OnceSelected
  <2> QED
    BY <1>1, <1>2, <2>1, OneSelected
<1>5. ASSUME NEW x, Sole(lines, Commands, x) PROVE Sole(new, Commands, x)
  <2>1. Only(lines, Commands) = <<x>>
    BY <1>5, OnlySole
  <2> QED
    BY <1>1, <1>2, <2>1, SoleSelected
<1>6. ConfigHasInlineHooks(new) <=> ConfigHasInlineHooks(lines)
  BY <1>1, <1>3, InlineSelected
<1> QED
  BY <1>4, <1>5, <1>6 DEF new

\* A list with none of a kind.
LEMMA CommandsSeen ==
  ASSUME NEW lines \in Seq(Hooks)
  PROVE  /\ \A i \in DOMAIN lines : lines[i] \in Commands <=> IsOurCommand(lines[i])
         /\ NoCommands(lines) => Once(lines, Commands)
         /\ NoCommands(lines) <=> Only(lines, Commands) = <<>>
<1>1. DOMAIN lines = 1..Len(lines) /\ \A i \in 1..Len(lines) : lines[i] \in Hooks
  OBVIOUS
<1>2. \A i \in DOMAIN lines : lines[i] \in Commands <=> IsOurCommand(lines[i])
  BY <1>1 DEF Commands
<1>3. NoCommands(lines) => Once(lines, Commands)
  BY <1>2 DEF NoCommands, Once
<1>4. NoCommands(lines) => Only(lines, Commands) = <<>>
  <2> SUFFICES ASSUME NoCommands(lines) PROVE Only(lines, Commands) = <<>>
    OBVIOUS
  <2>1. \A i \in 1..Len(lines) : lines[i] \notin Commands
    BY <1>1, <1>2 DEF NoCommands
  <2> QED
    BY <2>1, OnlyNowhere
<1>5. Only(lines, Commands) = <<>> => NoCommands(lines)
  <2> SUFFICES ASSUME Only(lines, Commands) = <<>> PROVE NoCommands(lines)
    OBVIOUS
  <2>1. \A i \in 1..Len(lines) : lines[i] \notin Commands
    BY NothingSelected
  <2> QED
    BY <1>1, <1>2, <2>1 DEF NoCommands
<1> QED
  BY <1>2, <1>3, <1>4, <1>5

\* A command of thlibo's is under a hook table.
LEMMA CommandsInline ==
  ASSUME NEW lines, WellFormed(lines), ~NoCommands(lines)
  PROVE  ConfigHasInlineHooks(lines)
<1>1. DOMAIN lines = 1..Len(lines)
  BY DEF WellFormed
<1>2. PICK i \in 1..Len(lines) : IsOurCommand(lines[i])
  BY <1>1 DEF NoCommands
<1>3. i - 1 \in DOMAIN lines /\ lines[i - 1] = OurGroupHook
  BY <1>1, <1>2, CommandsPlace
<1>4. Text(lines[i - 1]) \in {Group, GroupHook}
  BY <1>3, TextsDiffer
<1> QED
  BY <1>3, <1>4 DEF ConfigHasInlineHooks

\* mergeConfigTOMLHook leaves one command, this platform's.
LEMMA MergeConfigTOMLHookSole ==
  ASSUME NEW lines, WellFormed(lines), Once(lines, Commands), NEW variant \in {"sh", "ps1"}
  PROVE  Sole(MergeConfigTOMLHook(lines, variant), Commands, <<OurCommand[variant], "thlibo">>)
<1> DEFINE com == <<OurCommand[variant], "thlibo">>
           new == MergeConfigTOMLHook(lines, variant)
<1>0. lines \in Seq(Hooks) /\ DOMAIN lines = 1..Len(lines) /\ Len(lines) \in Nat
  BY DEF WellFormed
<1>1. com \in Hooks /\ com \in Commands /\ OurGroup \in Hooks /\ OurGroupHook \in Hooks
      /\ OurGroup \notin Commands /\ OurGroupHook \notin Commands
  BY OurLines, TextsDiffer DEF Commands
<1>2. \A i \in DOMAIN lines : lines[i] \in Commands <=> IsOurCommand(lines[i])
  BY <1>0, CommandsSeen
<1>3. CASE \E i \in DOMAIN lines : IsOurCommand(lines[i])
  <2>1. new = [i \in DOMAIN lines |-> IF IsOurCommand(lines[i]) THEN com ELSE lines[i]]
    BY <1>3 DEF MergeConfigTOMLHook
  <2>2. PICK k \in DOMAIN lines : IsOurCommand(lines[k])
    BY <1>3
  <2> HIDE DEF com, new
  <2>3. new[k] = com /\ DOMAIN new = DOMAIN lines
    BY <2>1, <2>2
  <2>4. ASSUME NEW i \in DOMAIN lines PROVE new[i] \in Commands <=> i = k
    <3>1. CASE i = k
      BY <1>1, <2>3, <3>1
    <3>2. CASE i # k
      <4>1. ~IsOurCommand(lines[i])
        BY <1>2, <2>2, <3>2 DEF Once
      <4>2. new[i] = lines[i]
        BY <2>1, <4>1
      <4> QED
        BY <1>2, <3>2, <4>1, <4>2
    <3> QED
      BY <3>1, <3>2
  <2>5. Sole(new, Commands, com)
    BY <2>2, <2>3, <2>4 DEF Sole
  <2> QED
    BY <2>5 DEF com, new
<1>4. CASE ~\E i \in DOMAIN lines : IsOurCommand(lines[i])
  <2> DEFINE one == Append(lines, OurGroup)
             two == Append(one, OurGroupHook)
  <2>1. new = lines \o <<OurGroup, OurGroupHook, com>>
    BY <1>4 DEF MergeConfigTOMLHook, OurGroup, OurGroupHook
  <2> HIDE DEF com, new
  <2>2. ASSUME NEW a \in Hooks, NEW b \in Hooks, NEW c \in Hooks
        PROVE  lines \o <<a, b, c>> = Append(Append(Append(lines, a), b), c)
    BY <1>0
  <2>3. new = Append(two, com)
    BY <1>1, <2>1, <2>2
  <2>4. one \in Seq(Hooks) /\ Only(one, Commands) = Only(lines, Commands)
    <3>1. one \in Seq(Hooks)
      BY <1>0, <1>1
    <3> QED
      BY <1>0, <1>1, <3>1, OnlyAppend
  <2> HIDE DEF one
  <2>5. two \in Seq(Hooks) /\ Only(two, Commands) = Only(one, Commands)
    <3>1. two \in Seq(Hooks)
      BY <1>1, <2>4
    <3> QED
      BY <1>1, <2>4, <3>1, OnlyAppend
  <2> HIDE DEF two
  <2>6. Only(two, Commands) = <<>>
    <3>1. NoCommands(lines)
      BY <1>4 DEF NoCommands
    <3> QED
      BY <1>0, <2>4, <2>5, <3>1, CommandsSeen
  <2>7. \A i \in 1..Len(two) : two[i] \notin Commands
    BY <2>5, <2>6, NothingSelected
  <2>8. Sole(Append(two, com), Commands, com)
    BY <1>1, <2>5, <2>7, SoleAppend
  <2> QED
    BY <2>3, <2>8 DEF com, new
<1> QED
  BY <1>3, <1>4

\* The first of a list, and a list with one that has none of a kind.
LEMMA OncePrefix ==
  ASSUME NEW E, NEW seq \in Seq(E), NEW set, Once(seq, set), NEW k \in Nat, k <= Len(seq)
  PROVE  Once(SubSeq(seq, 1, k), set)
<1> DEFINE new == SubSeq(seq, 1, k)
<1>1. DOMAIN new = 1..k /\ DOMAIN seq = 1..Len(seq) /\ Len(seq) \in Nat /\ \A i \in 1..k : new[i] = seq[i]
  OBVIOUS
<1> HIDE DEF new
<1>2. \A i \in DOMAIN new : i \in DOMAIN seq /\ new[i] = seq[i]
  BY <1>1
<1>3. Once(new, set)
  BY <1>2 DEF Once
<1> QED
  BY <1>3 DEF new

\* What has none of a kind changes nothing of it, before or behind.
LEMMA OnceConcat ==
  ASSUME NEW E, NEW seq \in Seq(E), NEW set, Once(seq, set), NEW more \in Seq(E), Only(more, set) = <<>>
  PROVE  Once(seq \o more, set) /\ Once(more \o seq, set)
<1>1. Only(seq, set) \in Seq(E) /\ Len(Only(seq, set)) <= 1
  BY OnceSelected, OnlyType
<1>2. Only(seq \o more, set) = Only(seq, set) \o Only(more, set)
  BY OnlyConcat
<1>3. Only(more \o seq, set) = Only(more, set) \o Only(seq, set)
  BY OnlyConcat
<1>4. Only(seq, set) \o <<>> = Only(seq, set) /\ <<>> \o Only(seq, set) = Only(seq, set)
  BY <1>1
<1>5. seq \o more \in Seq(E) /\ more \o seq \in Seq(E)
  OBVIOUS
<1>6. Len(Only(seq \o more, set)) <= 1 /\ Len(Only(more \o seq, set)) <= 1
  BY <1>1, <1>2, <1>3, <1>4
<1> QED
  BY <1>5, <1>6, OneSelected
=============================================================================
