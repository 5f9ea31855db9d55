------------------------- MODULE DeviceConfigProofs -------------------------
(***************************************************************************)
(* For any command lines and any number of commands: the daemon never      *)
(* reads a mixture of two configs, and a command that is refused leaves    *)
(* the file alone.  What is in the file is a beginning of some text, and   *)
(* the tail that makes it readable comes last (Shaped).                    *)
(***************************************************************************)
EXTENDS DeviceConfig, SequenceTheorems, WellFoundedInduction, TLAPS

-----------------------------------------------------------------------------
(* The invariant                                                           *)

\* A text of a config: nothing before its last piece is a tail.
Shaped(t) ==
    /\ Len(t) \in Nat /\ Len(t) > 1
    /\ t \in [1..Len(t) -> {t[i] : i \in 1..Len(t)}]
    /\ "repoBlobUrl" \in DOMAIN t[1] /\ "upper" \in DOMAIN t[Len(t)]
    /\ \A i \in 2..Len(t) : "repoBlobUrl" \notin DOMAIN t[i]
    /\ \A i \in 1..(Len(t) - 1) : "upper" \notin DOMAIN t[i]

Asked ==
    /\ AllAccepted
    /\ args.remotes # <<>> => args.url # None

Kept ==
    /\ pc \in PCs
    /\ pc # "idle" => args.files \in Seq(STRING) /\ args.remotes \in Seq(Seq(STRING))
    /\ pc \in {"parent", "render"} => AllAccepted /\ conf = Build(args)
    /\ pc \in {"open", "write", "ok"} => Asked /\ Shaped(json)

Begun ==
    /\ pc \notin {"write", "ok"} => pos = 0
    /\ pc = "write" =>
          /\ json \in given
          /\ pos \in 0..Len(json) /\ Len(file) = pos
          /\ file \in [1..pos -> {json[i] : i \in 1..Len(json)}]
          /\ \A i \in 1..pos : file[i] = json[i]

CIInv == Kept /\ Begun /\ ReadsNoMixture

-----------------------------------------------------------------------------
(* Sequences                                                               *)

LEMMA FunctionSeq ==
    ASSUME NEW S, NEW n \in Nat, NEW f \in [1..n -> S]
    PROVE  f \in Seq(S) /\ Len(f) = n
  OBVIOUS

LEMMA ConcatSeq ==
    ASSUME NEW S, NEW s \in Seq(S), NEW t \in Seq(S),
           NEW m, m = Len(s), NEW n, n = Len(t)
    PROVE  /\ s \o t \in Seq(S)
           /\ Len(s \o t) = m + n
           /\ \A i \in 1..m : (s \o t)[i] = s[i]
           /\ \A i \in 1..n : (s \o t)[m + i] = t[i]
  OBVIOUS

LEMMA SplitIndex ==
    ASSUME NEW m \in Nat, NEW k \in Nat
    PROVE  /\ k > 0 => m + 1 \in 1..(m + k)
           /\ \A i \in 1..(m + k) : i \in 1..m \/ \E j \in 1..k : i = m + j
<1>1. ASSUME NEW i \in 1..(m + k), i > m PROVE i - m \in 1..k /\ i = m + (i - m)
  BY <1>1
<1> QED
  BY <1>1

LEMMA SeqFacts ==
    ASSUME NEW S, NEW s \in Seq(S)
    PROVE  Len(s) \in Nat /\ DOMAIN s = 1..Len(s) /\ s \in [1..Len(s) -> S]
  OBVIOUS

-----------------------------------------------------------------------------
(* Cutting a spec and a URL                                                *)

\* A set of natural numbers has a smallest one.
LEMMA SmallestNumber ==
    ASSUME NEW T, T \subseteq Nat, T # {}
    PROVE  \E x \in T : \A y \in T : x =< y
<1> DEFINE R == {ss \in Nat \X Nat : ss[1] < ss[2]}
<1>1. IsWellFoundedOn(R, Nat)
  BY NatLessThanWellFounded DEF OpToRel
<1>2. \A x, y \in Nat : <<y, x>> \in R <=> y < x
  OBVIOUS
<1> HIDE DEF R
<1>3. PICK x \in T : \A y \in T : ~(<<y, x>> \in R)
  BY <1>1, WFMin
<1>4. ASSUME NEW y \in T PROVE x =< y
  <2>1. x \in Nat /\ y \in Nat /\ ~(y < x)
    BY <1>2, <1>3
  <2> QED
    BY <2>1
<1> QED
  BY <1>4

\* One below a bound has a largest one.
LEMMA LargestNumber ==
    ASSUME NEW n \in Nat, NEW T, T \subseteq 1..n, T # {}
    PROVE  \E x \in T : \A y \in T : x >= y
<1> DEFINE D == {n - x : x \in T}
<1>1. D \subseteq Nat /\ D # {}
  <2>1. \A x \in T : n - x \in Nat
    OBVIOUS
  <2> QED
    BY <2>1
<1>2. PICK d \in D : \A e \in D : d =< e
  <2> HIDE DEF D
  <2> QED
    BY <1>1, SmallestNumber
<1>3. PICK x \in T : d = n - x
  OBVIOUS
<1>4. ASSUME NEW y \in T PROVE x >= y
  <2>1. n - y \in D
    OBVIOUS
  <2>2. n - x =< n - y /\ x \in Nat /\ y \in Nat
    BY <1>2, <1>3, <2>1
  <2> QED
    BY <2>2
<1> QED
  BY <1>4

\* Two sequences with an element between them.
LEMMA JoinFacts ==
    ASSUME NEW S, NEW b \in Seq(S), NEW c \in S, NEW r \in Seq(S)
    PROVE  LET s == b \o <<c>> \o r
           IN  /\ s \in Seq(S) /\ Len(s) = Len(b) + 1 + Len(r)
               /\ \A i \in 1..Len(b) : s[i] = b[i]
               /\ s[Len(b) + 1] = c
               /\ \A i \in 1..Len(r) : s[Len(b) + 1 + i] = r[i]
  OBVIOUS

\* split_once cuts at the first separator.
LEMMA CutsFirst ==
    ASSUME NEW S, NEW s \in Seq(S), Contains(s, "=")
    PROVE  \E p \in 1..Len(s) :
              /\ s[p] = "=" /\ \A i \in 1..Len(s) : s[i] = "=" => p =< i
              /\ Before(s) = SubSeq(s, 1, p - 1) /\ After(s) = SubSeq(s, p + 1, Len(s))
<1> DEFINE I == {i \in 1..Len(s) : s[i] = "="}
           p == Min(I)
<1>1. I # {} /\ I \subseteq Nat
  BY DEF Contains
<1>2. p \in I /\ \A i \in I : p =< i
  <2>1. \E x \in I : \A y \in I : x =< y
    <3> HIDE DEF I
    <3> QED
      BY <1>1, SmallestNumber
  <2> HIDE DEF I
  <2> QED
    BY <2>1 DEF Min
<1>3. Before(s) = SubSeq(s, 1, p - 1) /\ After(s) = SubSeq(s, p + 1, Len(s))
  <2> HIDE DEF p
  <2> QED
    BY <1>1 DEF Before, After, SelectInSeq, p
<1> HIDE DEF p
<1> QED
  BY <1>2, <1>3

\* What it cuts off are the parts around that separator,
LEMMA CutParts ==
    ASSUME NEW S, NEW s \in Seq(S), Contains(s, "=")
    PROVE  /\ Before(s) \in Seq(S) /\ After(s) \in Seq(S)
           /\ ~Contains(Before(s), "=")
           /\ s = Before(s) \o <<"=">> \o After(s)
           /\ Before(s) # <<>> => Before(s)[1] = s[1]
<1>1. PICK p \in 1..Len(s) :
          /\ s[p] = "=" /\ \A i \in 1..Len(s) : s[i] = "=" => p =< i
          /\ Before(s) = SubSeq(s, 1, p - 1) /\ After(s) = SubSeq(s, p + 1, Len(s))
  BY CutsFirst
<1> DEFINE b == SubSeq(s, 1, p - 1)
           r == SubSeq(s, p + 1, Len(s))
<1>2. /\ b \in Seq(S) /\ Len(b) = p - 1 /\ \A i \in 1..(p - 1) : b[i] = s[i]
      /\ r \in Seq(S) /\ Len(r) = Len(s) - p /\ \A i \in 1..(Len(s) - p) : r[i] = s[p + i]
  OBVIOUS
<1>3. Len(s) \in Nat /\ \A i \in 1..Len(s) : s[i] \in S
  OBVIOUS
<1> HIDE DEF b, r
<1>4. ~Contains(b, "=")
  <2>1. ASSUME NEW i \in 1..(p - 1), b[i] = "=" PROVE FALSE
    <3>1. i \in 1..Len(s) /\ s[i] = "="
      BY <1>2, <1>3, <2>1
    <3> QED
      BY <1>1, <3>1
  <2> QED
    BY <1>2, <2>1 DEF Contains
<1>5. s = b \o <<"=">> \o r
  <2> DEFINE j == b \o <<"=">> \o r
  <2>1. "=" \in S /\ b \in Seq(S) /\ r \in Seq(S)
    BY <1>1, <1>2, <1>3
  <2>2. /\ j \in Seq(S) /\ Len(j) = Len(b) + 1 + Len(r)
        /\ \A i \in 1..Len(b) : j[i] = b[i]
        /\ j[Len(b) + 1] = "="
        /\ \A i \in 1..Len(r) : j[Len(b) + 1 + i] = r[i]
    BY <2>1, JoinFacts
  <2> HIDE DEF j
  <2>3. /\ Len(j) = Len(s) /\ \A i \in 1..(p - 1) : j[i] = s[i]
        /\ j[p] = s[p] /\ \A i \in 1..(Len(s) - p) : j[p + i] = s[p + i]
    BY <1>1, <1>2, <1>3, <2>2
  <2>4. ASSUME NEW i \in 1..Len(s) PROVE j[i] = s[i]
    <3>1. \/ i \in 1..(p - 1) \/ i = p
          \/ i - p \in 1..(Len(s) - p) /\ i = p + (i - p)
      BY <1>3
    <3> QED
      BY <2>3, <3>1
  <2>5. s = j
    BY <2>2, <2>3, <2>4, SeqEqual
  <2> QED
    BY <2>5 DEF j
<1>6. b # <<>> => b[1] = s[1]
  <2>1. b # <<>> => 1 \in 1..(p - 1)
    BY <1>2
  <2> QED
    BY <1>2, <2>1
<1> QED
  BY <1>1, <1>2, <1>4, <1>5, <1>6 DEF b, r

\* and they are what a separator was put between.
LEMMA JoinedParts ==
    ASSUME NEW S, NEW b \in Seq(S), NEW r \in Seq(S), "=" \in S, ~Contains(b, "=")
    PROVE  LET s == b \o <<"=">> \o r
           IN  /\ s \in Seq(S) /\ Contains(s, "=")
               /\ Before(s) = b /\ After(s) = r
<1> DEFINE s == b \o <<"=">> \o r
           n == Len(b)
           k == Len(r)
<1>1. n \in Nat /\ k \in Nat
  OBVIOUS
<1>2. /\ s \in Seq(S) /\ Len(s) = n + 1 + k
      /\ \A i \in 1..n : s[i] = b[i]
      /\ s[n + 1] = "="
      /\ \A i \in 1..k : s[n + 1 + i] = r[i]
  BY JoinFacts
<1> HIDE DEF s, n, k
<1>3. Contains(s, "=")
  <2>1. n + 1 \in 1..Len(s)
    BY <1>1, <1>2
  <2> QED
    BY <1>2, <2>1 DEF Contains
<1>4. PICK p \in 1..Len(s) :
          /\ s[p] = "=" /\ \A i \in 1..Len(s) : s[i] = "=" => p =< i
          /\ Before(s) = SubSeq(s, 1, p - 1) /\ After(s) = SubSeq(s, p + 1, Len(s))
  BY <1>2, <1>3, CutsFirst
<1>5. p = n + 1
  <2>1. p =< n + 1
    BY <1>1, <1>2, <1>4
  <2>2. ASSUME p =< n PROVE FALSE
    <3>1. p \in 1..n
      BY <1>1, <1>2, <2>2
    <3> QED
      BY <1>2, <1>4, <3>1 DEF Contains, n
  <2> QED
    BY <1>1, <1>2, <2>1, <2>2
<1>6. Before(s) = b
  <2>1. Before(s) = SubSeq(s, 1, n)
    BY <1>1, <1>4, <1>5
  <2>2. SubSeq(s, 1, n) \in Seq(S) /\ Len(SubSeq(s, 1, n)) = n
        /\ \A i \in 1..n : SubSeq(s, 1, n)[i] = s[i]
    BY <1>1, <1>2
  <2> QED
    BY <1>2, <2>1, <2>2, SeqEqual DEF n
<1>7. After(s) = r
  <2>1. After(s) = SubSeq(s, n + 2, n + 1 + k)
    BY <1>1, <1>2, <1>4, <1>5
  <2> DEFINE q == SubSeq(s, n + 2, n + 1 + k)
  <2>2. q \in Seq(S) /\ Len(q) = k /\ \A i \in 1..k : q[i] = s[n + 1 + i]
    BY <1>1, <1>2
  <2> HIDE DEF q
  <2>3. q = r
    BY <1>2, <2>2, SeqEqual DEF k
  <2> QED
    BY <2>1, <2>3 DEF q
<1> QED
  BY <1>2, <1>3, <1>6, <1>7 DEF s

\* trim_end_matches leaves nothing that ends in a slash.
LEMMA Trimmed ==
    ASSUME NEW S, NEW u \in Seq(S)
    PROVE  \A j \in DOMAIN Trim(u) : j = Len(Trim(u)) => Trim(u)[j] # "/"
<1> DEFINE I == {i \in 1..Len(u) : u[i] # "/"}
           q == IF I # {} THEN Max(I) ELSE 0
<1>1. Len(u) \in Nat /\ I \subseteq 1..Len(u)
  OBVIOUS
<1>2. I # {} => q \in I
  <2>1. I # {} => \E x \in I : \A y \in I : x >= y
    <3> HIDE DEF I
    <3> QED
      BY <1>1, LargestNumber
  <2> HIDE DEF I
  <2> QED
    BY <2>1 DEF Max
<1>3. Trim(u) = SubSeq(u, 1, q)
  <2> HIDE DEF q
  <2> QED
    BY DEF Trim, SelectLastInSeq, q
<1>4. q \in 0..Len(u) /\ q > 0 => u[q] # "/"
  BY <1>1, <1>2
<1>5. q \in 0..Len(u)
  BY <1>1, <1>2
<1> HIDE DEF q
<1>6. Len(Trim(u)) = q /\ DOMAIN Trim(u) = 1..q /\ \A j \in 1..q : Trim(u)[j] = u[j]
  BY <1>3, <1>5
<1> QED
  BY <1>4, <1>5, <1>6

-----------------------------------------------------------------------------
(* What a spec says                                                        *)

LEMMA Units ==
    ASSUME NEW S, NEW c \in S, NEW t \in S, NEW r \in Seq(S)
    PROVE  /\ <<c>> \in Seq(S) /\ <<>> \in Seq(S) /\ <<c>> \o <<>> = <<c>>
           /\ <<c>> \o r \in Seq(S)
           /\ <<c, t>> = <<c>> \o <<t>>
<1>1. /\ <<c>> \in Seq(S) /\ <<t>> \in Seq(S) /\ <<>> \in Seq(S)
      /\ <<c>> \o <<>> = <<c>> /\ <<c>> \o r \in Seq(S)
  OBVIOUS
<1> DEFINE x == <<c, t>>
           y == <<c>> \o <<t>>
<1>2. x \in Seq(S) /\ Len(x) = 2 /\ x[1] = c /\ x[2] = t
  OBVIOUS
<1>3. y \in Seq(S) /\ Len(y) = 2 /\ y[1] = c /\ y[2] = t
  OBVIOUS
<1> HIDE DEF x, y
<1>4. Len(x) = Len(y) /\ \A i \in 1..Len(x) : x[i] = y[i]
  BY <1>2, <1>3
<1>5. x = y
  BY <1>2, <1>3, <1>4, SeqEqual
<1> QED
  BY <1>1, <1>5 DEF x, y

\* Folded, so that the provers do not rewrite with it.
PairJoins(d, c, t, r) == d \o <<c, t>> \o r = d \o <<c>> \o (<<t>> \o r)

LEMMA JoinPair ==
    ASSUME NEW S, NEW d \in Seq(S), NEW c \in S, NEW t \in S, NEW r \in Seq(S)
    PROVE  PairJoins(d, c, t, r)
<1>1. <<c, t>> = <<c>> \o <<t>> /\ <<c>> \in Seq(S) /\ <<t>> \in Seq(S)
  BY Units
<1>2. d \o <<c>> \in Seq(S)
  BY <1>1, ConcatProperties
<1>3. d \o (<<c>> \o <<t>>) = (d \o <<c>>) \o <<t>>
  BY <1>1, ConcatAssociative
<1>4. ((d \o <<c>>) \o <<t>>) \o r = (d \o <<c>>) \o (<<t>> \o r)
  BY <1>1, <1>2, ConcatAssociative
<1> QED
  BY <1>1, <1>3, <1>4, Zenon DEF PairJoins

LEMMA AcceptedTypes ==
    ASSUME NEW spec \in Seq(STRING), Accepted(spec)
    PROVE  /\ Before(spec) \in Seq(STRING) /\ After(spec) \in Seq(STRING)
           /\ "=" \in STRING
           /\ spec = Before(spec) \o <<"=">> \o After(spec)
           /\ Before(spec) # <<>> /\ Before(spec)[1] = Sha /\ ~Contains(Before(spec), "=")
<1>1. Contains(spec, "=") /\ Len(Before(spec)) > 0 /\ spec[1] = Sha
  BY DEF Accepted
<1>2. /\ Before(spec) \in Seq(STRING) /\ After(spec) \in Seq(STRING)
      /\ ~Contains(Before(spec), "=")
      /\ spec = Before(spec) \o <<"=">> \o After(spec)
      /\ Before(spec) # <<>> => Before(spec)[1] = spec[1]
  BY <1>1, CutParts
<1>3. Before(spec) # <<>>
  BY <1>1, <1>2
<1>4. "=" \in STRING
  BY <1>1 DEF Contains
<1> QED
  BY <1>1, <1>2, <1>3, <1>4

\* The lower made of a spec that is accepted is what the spec says,
LEMMA SaysItsLower ==
    ASSUME NEW spec \in Seq(STRING), Accepted(spec)
    PROVE  Says(spec, Remote(spec))
<1> DEFINE b == Before(spec)
           r == After(spec)
<1>1. /\ b \in Seq(STRING) /\ r \in Seq(STRING) /\ "=" \in STRING
      /\ spec = b \o <<"=">> \o r /\ b # <<>> /\ b[1] = Sha /\ ~Contains(b, "=")
  BY AcceptedTypes
<1>2. IsSize(Size(r)) /\ (Contains(r, "=") => Dir(r) # <<>>)
  BY DEF Accepted
<1>3. /\ Remote(spec).digest = b /\ Remote(spec).size = ByteCount[Size(r)[1]]
      /\ Remote(spec).dir = IF Dir(r) = <<>> THEN None ELSE Some(Dir(r))
  BY DEF Remote
<1> HIDE DEF b, r
<1>4. PICK t \in DOMAIN ByteCount : Size(r) = <<t>> /\ Len(Size(r)) = 1
  <2>1. Size(r) \in Seq(STRING)
    <3>1. Contains(r, "=") => Before(r) \in Seq(STRING)
      BY <1>1, CutParts
    <3> QED
      BY <1>1, <3>1 DEF Size
  <2>2. Size(r) = <<Size(r)[1]>>
    BY <1>2, <2>1 DEF IsSize
  <2> QED
    BY <1>2, <2>2 DEF IsSize
<1>5. t \in STRING /\ Remote(spec).size = ByteCount[t]
  <2>1. Size(r)[1] = t
    BY <1>4
  <2>2. ASSUME Contains(r, "=") PROVE t \in STRING
    BY <1>1, <1>4, <2>1, <2>2, CutParts DEF Size
  <2>3. ASSUME ~Contains(r, "=") PROVE t \in STRING
    BY <1>1, <1>4, <2>1, <2>3 DEF Size
  <2> QED
    BY <1>3, <2>1, <2>2, <2>3
<1>6. ASSUME ~Contains(r, "=")
      PROVE  Remote(spec).dir = None /\ spec = b \o <<"=", t>> \o <<>>
  <2>1. r = <<t>> /\ Dir(r) = <<>>
    BY <1>4, <1>6 DEF Size, Dir
  <2>2. <<>> \in Seq(STRING) /\ <<t>> \o <<>> = <<t>>
    BY <1>1, <1>5, Units
  <2>3. PairJoins(b, "=", t, <<>>)
    BY <1>1, <1>5, <2>2, JoinPair
  <2> QED
    BY <1>1, <1>3, <2>1, <2>2, <2>3 DEF PairJoins
<1>7. ASSUME Contains(r, "=")
      PROVE  /\ Remote(spec).dir = Some(After(r)) /\ After(r) # <<>>
             /\ spec = b \o <<"=", t>> \o (<<"=">> \o After(r))
  <2>1. Dir(r) = After(r) /\ After(r) # <<>> /\ Before(r) = <<t>>
    BY <1>2, <1>4, <1>7 DEF Size, Dir
  <2>2. After(r) \in Seq(STRING) /\ r = <<t>> \o <<"=">> \o After(r)
    BY <1>1, <1>7, <2>1, CutParts
  <2>3. r = <<t>> \o (<<"=">> \o After(r)) /\ <<"=">> \o After(r) \in Seq(STRING)
    <3>1. <<"=">> \in Seq(STRING) /\ <<t>> \in Seq(STRING) /\ <<"=">> \o After(r) \in Seq(STRING)
      BY <1>1, <1>5, <2>2, Units
    <3> QED
      BY <2>2, <3>1, ConcatAssociative
  <2> DEFINE d == <<"=">> \o After(r)
  <2> HIDE DEF d
  <2>4. PairJoins(b, "=", t, d)
    BY <1>1, <1>5, <2>3, JoinPair DEF d
  <2> QED
    BY <1>1, <1>3, <2>1, <2>3, <2>4 DEF d, PairJoins
<1>8. None # Some(<<>>) /\ \A d : Some(d) # None /\ Some(d)[1] = d /\ (Some(d) = Some(<<>>) => d = <<>>)
  BY DEF None, Some
<1>9. spec = b \o <<"=", t>> \o (IF Remote(spec).dir = None THEN <<>> ELSE <<"=">> \o Remote(spec).dir[1])
      /\ Remote(spec).dir # Some(<<>>)
  <2>1. CASE Contains(r, "=")
    BY <1>7, <1>8, <2>1
  <2>2. CASE ~Contains(r, "=")
    BY <1>6, <1>8, <2>2
  <2> QED
    BY <2>1, <2>2
<1> QED
  BY <1>1, <1>3, <1>5, <1>9 DEF Says

\* and one that says anything is accepted.
LEMMA SaidIsAccepted ==
    ASSUME NEW spec \in Seq(STRING), NEW l \in Readings(spec), Says(spec, l)
    PROVE  Accepted(spec)
<1> DEFINE d == l.digest
           S == STRING \cup DOMAIN ByteCount \cup {"="}
<1>1. /\ d # <<>> /\ d[1] = Sha /\ ~Contains(d, "=")
      /\ l.dir # Some(<<>>)
  BY DEF Says
<1>2. PICK t \in DOMAIN ByteCount :
          spec = d \o <<"=", t>> \o (IF l.dir = None THEN <<>> ELSE <<"=">> \o l.dir[1])
  BY DEF Says
<1>3. /\ d \in Seq(STRING)
      /\ l.dir = None \/ \E i \in 1..(Len(spec) + 1) : l.dir = Some(SubSeq(spec, i, Len(spec)))
  <2>1. /\ l.digest \in {SubSeq(spec, 1, i) : i \in 0..Len(spec)}
        /\ l.dir \in {None} \cup {Some(SubSeq(spec, i, Len(spec))) : i \in 1..(Len(spec) + 1)}
    BY DEF Readings
  <2>2. \A i \in 0..Len(spec) : SubSeq(spec, 1, i) \in Seq(STRING)
    OBVIOUS
  <2> QED
    BY <2>1, <2>2
<1>4. d \in Seq(S) /\ "=" \in S /\ t \in S
  BY <1>3
<1>5. t # "="
  BY ConfigAssumption
<1>6. \A x : Contains(<<x>>, "=") <=> x = "="
  BY DEF Contains
<1> HIDE DEF d, S
<1>7. CASE l.dir = None
  <2>1. spec = d \o <<"=">> \o <<t>>
    <3>1. <<>> \in Seq(S) /\ <<t>> \o <<>> = <<t>>
      BY <1>4, Units
    <3>2. PairJoins(d, "=", t, <<>>)
      BY <1>4, <3>1, JoinPair
    <3> QED
      BY <1>2, <1>7, <3>1, <3>2 DEF PairJoins
  <2>2. Contains(spec, "=") /\ Before(spec) = d /\ After(spec) = <<t>>
    <3>1. <<t>> \in Seq(S)
      BY <1>4
    <3> QED
      BY <1>1, <1>4, <2>1, <3>1, JoinedParts
  <2> QED
    <3>1. Size(<<t>>) = <<t>> /\ ~Contains(<<t>>, "=")
      BY <1>5, <1>6 DEF Size
    <3>2. IsSize(<<t>>)
      BY DEF IsSize
    <3>3. Len(d) > 0 /\ spec[1] = Sha
      BY <1>1, <1>3, <2>2, CutParts
    <3> QED
      BY <2>2, <3>1, <3>2, <3>3 DEF Accepted
<1>8. CASE l.dir # None
  <2>1. PICK i \in 1..(Len(spec) + 1) : l.dir = Some(SubSeq(spec, i, Len(spec)))
    BY <1>3, <1>8
  <2> DEFINE e == SubSeq(spec, i, Len(spec))
  <2>2. e \in Seq(STRING)
    OBVIOUS
  <2>3. l.dir[1] = e /\ e # <<>>
    BY <1>1, <2>1 DEF Some
  <2> HIDE DEF e
  <2>4. e \in Seq(S)
    BY <2>2 DEF S
  <2> DEFINE r == <<t>> \o <<"=">> \o e
  <2>5. r \in Seq(S) /\ Contains(r, "=") /\ Before(r) = <<t>> /\ After(r) = e
    <3>1. <<t>> \in Seq(S) /\ ~Contains(<<t>>, "=")
      BY <1>4, <1>5, <1>6
    <3> QED
      BY <1>4, <2>4, <3>1, JoinedParts
  <2>6. spec = d \o <<"=">> \o r
    <3>0. <<"=">> \in Seq(S) /\ <<t>> \in Seq(S) /\ <<"=">> \o e \in Seq(S)
      BY <1>4, <2>4, Units
    <3>1. <<"=">> \o e \in Seq(S) /\ r = <<t>> \o (<<"=">> \o e)
      BY <2>4, <3>0, ConcatAssociative
    <3>2. spec = d \o <<"=", t>> \o (<<"=">> \o e)
      BY <1>2, <1>8, <2>3
    <3> DEFINE f == <<"=">> \o e
    <3> HIDE DEF f
    <3>3. PairJoins(d, "=", t, f)
      BY <1>4, <3>1, JoinPair DEF f
    <3> QED
      BY <3>1, <3>2, <3>3 DEF f, PairJoins
  <2> HIDE DEF r
  <2>7. Contains(spec, "=") /\ Before(spec) = d /\ After(spec) = r
    BY <1>1, <1>4, <2>5, <2>6, JoinedParts
  <2>8. Len(d) > 0 /\ spec[1] = Sha
    BY <1>1, <1>3, <2>7, CutParts
  <2>9. IsSize(Size(r)) /\ Dir(r) # <<>>
    BY <2>3, <2>5 DEF IsSize, Size, Dir
  <2> QED
    BY <2>7, <2>8, <2>9 DEF Accepted
<1> QED
  BY <1>7, <1>8

-----------------------------------------------------------------------------
(* What to_json makes of a config                                          *)

LEMMA BuildLowers ==
    ASSUME NEW a, a.files \in Seq(STRING), a.remotes \in Seq(Seq(STRING))
    PROVE  LET l == Build(a).lowers
           IN  /\ Len(l) = Len(a.files) + Len(a.remotes) /\ Len(l) \in Nat
               /\ DOMAIN l = 1..Len(l)
               /\ \A i \in 1..Len(a.files) : l[i] = [path |-> a.files[i]]
               /\ \A i \in 1..Len(a.remotes) : l[Len(a.files) + i] = Remote(a.remotes[i])
<1> DEFINE m == Len(a.files)
           n == Len(a.remotes)
           fs == [i \in 1..m |-> [path |-> a.files[i]]]
           rs == [i \in 1..n |-> Remote(a.remotes[i])]
           S == {[path |-> a.files[i]] : i \in 1..m} \cup {Remote(a.remotes[i]) : i \in 1..n}
<1>1. m \in Nat /\ DOMAIN a.files = 1..m /\ n \in Nat /\ DOMAIN a.remotes = 1..n
  BY SeqFacts
<1>2. Build(a).lowers = fs \o rs
  BY <1>1 DEF Build
<1>3. fs \in [1..m -> S]
  OBVIOUS
<1>4. rs \in [1..n -> S]
  OBVIOUS
<1>5. /\ \A i \in 1..m : fs[i] = [path |-> a.files[i]]
      /\ \A i \in 1..n : rs[i] = Remote(a.remotes[i])
  OBVIOUS
<1> HIDE DEF fs, rs, S, m, n
<1>6. fs \in Seq(S) /\ rs \in Seq(S) /\ Len(fs) = m /\ Len(rs) = n
  BY <1>1, <1>3, <1>4, FunctionSeq
<1>7. /\ fs \o rs \in Seq(S) /\ Len(fs \o rs) = m + n
      /\ \A i \in 1..m : (fs \o rs)[i] = fs[i]
      /\ \A i \in 1..n : (fs \o rs)[m + i] = rs[i]
  BY <1>6, ConcatSeq
<1>8. DOMAIN (fs \o rs) = 1..(m + n)
  BY <1>7, SeqFacts
<1> QED
  <2>1. m + n \in Nat /\ \A i \in 1..n : (fs \o rs)[m + i] = Remote(a.remotes[i])
    BY <1>1, <1>5, <1>7
  <2> QED
    BY <1>1, <1>2, <1>5, <1>7, <1>8, <2>1, Zenon DEF m, n

\* A remote lower is told from a file by its digest.
LEMMA RemoteIsRemote ==
    ASSUME NEW spec, NEW path
    PROVE  IsRemote(Remote(spec)) /\ ~IsRemote([path |-> path])
  BY DEF IsRemote, Remote

LEMMA RendersAsked ==
    ASSUME NEW a, a.files \in Seq(STRING), a.remotes \in Seq(Seq(STRING)),
           Renders(Build(a)), a.remotes # <<>>
    PROVE  a.url # None
<1>1. 1 \in 1..Len(a.remotes)
  OBVIOUS
<1>2. Len(a.files) + 1 \in DOMAIN Build(a).lowers
      /\ Build(a).lowers[Len(a.files) + 1] = Remote(a.remotes[1])
  <2>1. Len(a.files) \in Nat /\ Len(a.remotes) \in Nat
    BY SeqFacts
  <2> QED
    <3>1. LET l == Build(a).lowers
          IN  /\ Len(l) = Len(a.files) + Len(a.remotes) /\ DOMAIN l = 1..Len(l)
              /\ l[Len(a.files) + 1] = Remote(a.remotes[1])
      BY <1>1, BuildLowers, Zenon
    <3>2. Len(a.files) + 1 \in 1..(Len(a.files) + Len(a.remotes))
      <4>1. Len(a.remotes) > 0
        BY <1>1, <2>1
      <4> QED
        BY <2>1, <4>1, SplitIndex
    <3> QED
      BY <3>1, <3>2, Zenon
<1>3. Build(a).url # None
  BY <1>2, RemoteIsRemote DEF Renders
<1> QED
  BY <1>3 DEF Build

\* Every lower is a file's or a remote one.
LEMMA LowerKinds ==
    ASSUME NEW a, a.files \in Seq(STRING), a.remotes \in Seq(Seq(STRING)),
           NEW i \in DOMAIN Build(a).lowers
    PROVE  \/ Build(a).lowers[i] = [path |-> a.files[i]]
           \/ \E j \in 1..Len(a.remotes) : Build(a).lowers[i] = Remote(a.remotes[j])
<1>1. LET l == Build(a).lowers
      IN  /\ Len(l) = Len(a.files) + Len(a.remotes) /\ DOMAIN l = 1..Len(l)
          /\ \A j \in 1..Len(a.files) : l[j] = [path |-> a.files[j]]
          /\ \A j \in 1..Len(a.remotes) : l[Len(a.files) + j] = Remote(a.remotes[j])
  BY BuildLowers, Zenon
<1>2. i \in 1..Len(a.files) \/ \E j \in 1..Len(a.remotes) : i = Len(a.files) + j
  <2>1. Len(a.files) \in Nat /\ Len(a.remotes) \in Nat
    BY SeqFacts
  <2>2. i \in 1..(Len(a.files) + Len(a.remotes))
    BY <1>1
  <2> QED
    BY <2>1, <2>2, SplitIndex, Zenon
<1> QED
  BY <1>1, <1>2, Zenon

\* A text is its head, its lowers and its tail.
LEMMA JsonParts ==
    ASSUME NEW a, a.files \in Seq(STRING), a.remotes \in Seq(Seq(STRING))
    PROVE  LET t == Json(Build(a))
               c == Build(a)
               n == Len(a.files) + Len(a.remotes)
           IN  /\ n \in Nat /\ Len(t) = n + 2
               /\ t[1] = [repoBlobUrl |-> c.url]
               /\ \A i \in 1..n : t[1 + i] = Lower(c.lowers[i])
               /\ t[n + 2] = [upper |-> IF c.upper = None THEN None ELSE Some(Upper(c.upper[1])),
                              resultFile |-> Display(c.result)]
               /\ t \in [1..Len(t) -> {t[i] : i \in 1..Len(t)}]
<1> DEFINE c == Build(a)
           n == Len(a.files) + Len(a.remotes)
           head == [repoBlobUrl |-> c.url]
           ls == [i \in 1..n |-> Lower(c.lowers[i])]
           tail == [upper |-> IF c.upper = None THEN None ELSE Some(Upper(c.upper[1])),
                    resultFile |-> Display(c.result)]
           S == {head, tail} \cup {Lower(c.lowers[i]) : i \in 1..n}
           hl == <<head>> \o ls
           t == hl \o <<tail>>
<1>1. n \in Nat /\ DOMAIN c.lowers = 1..n
  <2>1. LET l == Build(a).lowers
        IN  Len(l) = Len(a.files) + Len(a.remotes) /\ Len(l) \in Nat /\ DOMAIN l = 1..Len(l)
    BY BuildLowers, Zenon
  <2> QED
    BY <2>1
<1>2. Json(c) = t
  BY <1>1 DEF Json
<1>3. ls \in [1..n -> S] /\ head \in S /\ tail \in S /\ \A i \in 1..n : ls[i] = Lower(c.lowers[i])
  OBVIOUS
<1> HIDE DEF c, n, head, ls, tail, S
<1>4. ls \in Seq(S) /\ Len(ls) = n /\ <<head>> \in Seq(S) /\ <<tail>> \in Seq(S)
  BY <1>1, <1>3, FunctionSeq
<1>5. /\ hl \in Seq(S) /\ Len(hl) = n + 1 /\ hl[1] = head
      /\ \A i \in 1..n : hl[1 + i] = ls[i]
  <2>1. Len(<<head>>) = 1 /\ <<head>>[1] = head
    OBVIOUS
  <2>2. /\ <<head>> \o ls \in Seq(S)
        /\ Len(<<head>> \o ls) = 1 + n
        /\ \A i \in 1..1 : (<<head>> \o ls)[i] = <<head>>[i]
        /\ \A i \in 1..n : (<<head>> \o ls)[1 + i] = ls[i]
    BY <1>4, <2>1, ConcatSeq
  <2> QED
    BY <1>1, <1>4, <2>1, <2>2
<1> HIDE DEF hl
<1>6. /\ t \in Seq(S) /\ Len(t) = n + 2
      /\ \A i \in 1..(n + 1) : t[i] = hl[i]
      /\ t[n + 2] = tail
  <2>1. Len(<<tail>>) = 1 /\ <<tail>>[1] = tail
    OBVIOUS
  <2>2. /\ hl \o <<tail>> \in Seq(S)
        /\ Len(hl \o <<tail>>) = (n + 1) + 1
        /\ \A i \in 1..(n + 1) : (hl \o <<tail>>)[i] = hl[i]
        /\ \A i \in 1..1 : (hl \o <<tail>>)[(n + 1) + i] = <<tail>>[i]
    BY <1>4, <1>5, <2>1, ConcatSeq
  <2> QED
    BY <1>1, <1>5, <2>1, <2>2
<1> HIDE DEF t
<1>7. t[1] = head
  <2>1. 1 \in 1..(n + 1)
    BY <1>1
  <2> QED
    BY <1>5, <1>6, <2>1
<1>8. ASSUME NEW i \in 1..n PROVE t[1 + i] = Lower(c.lowers[i])
  <2>1. 1 + i \in 1..(n + 1)
    BY <1>1
  <2> QED
    BY <1>3, <1>5, <1>6, <2>1
<1>9. t \in [1..Len(t) -> {t[i] : i \in 1..Len(t)}]
  <2>1. t \in [1..Len(t) -> S]
    BY <1>6, SeqFacts
  <2> QED
    BY <2>1
<1> QED
  BY <1>1, <1>2, <1>6, <1>7, <1>8, <1>9 DEF c, n, head, tail

LEMMA FileLower ==
    ASSUME NEW path
    PROVE  /\ Lower([path |-> path]) = [file |-> Display(path)]
           /\ DOMAIN Lower([path |-> path]) = {"file"}
  BY RemoteIsRemote DEF Lower

LEMMA RemoteLower ==
    ASSUME NEW spec
    PROVE  /\ Lower(Remote(spec)) = Remote(spec)
           /\ DOMAIN Lower(Remote(spec)) = {"digest", "size", "dir"}
  BY RemoteIsRemote DEF Lower, Remote

LEMMA JsonShaped ==
    ASSUME NEW a, a.files \in Seq(STRING), a.remotes \in Seq(Seq(STRING))
    PROVE  Shaped(Json(Build(a)))
<1> DEFINE c == Build(a)
           t == Json(c)
           n == Len(a.files) + Len(a.remotes)
           head == [repoBlobUrl |-> c.url]
           tail == [upper |-> IF c.upper = None THEN None ELSE Some(Upper(c.upper[1])),
                    resultFile |-> Display(c.result)]
<1>1. /\ n \in Nat /\ Len(t) = n + 2
      /\ t[1] = head
      /\ \A i \in 1..n : t[1 + i] = Lower(c.lowers[i])
      /\ t[n + 2] = tail
      /\ t \in [1..Len(t) -> {t[i] : i \in 1..Len(t)}]
  BY JsonParts, Zenon
<1>2. /\ "repoBlobUrl" \in DOMAIN head /\ "upper" \notin DOMAIN head
      /\ "upper" \in DOMAIN tail /\ "repoBlobUrl" \notin DOMAIN tail
  OBVIOUS
<1>3. ASSUME NEW i \in 1..n
      PROVE  DOMAIN Lower(c.lowers[i]) \cap {"repoBlobUrl", "upper"} = {}
  <2>1. i \in DOMAIN c.lowers
    <3>1. LET l == Build(a).lowers
          IN  Len(l) = Len(a.files) + Len(a.remotes) /\ DOMAIN l = 1..Len(l)
      BY BuildLowers, Zenon
    <3> QED
      BY <3>1
  <2>2. \/ c.lowers[i] = [path |-> a.files[i]]
        \/ \E j \in 1..Len(a.remotes) : c.lowers[i] = Remote(a.remotes[j])
    BY <2>1, LowerKinds
  <2> QED
    BY <2>2, FileLower, RemoteLower
<1> HIDE DEF c, t, n, head, tail
<1>4. ASSUME NEW i \in 2..(n + 1)
      PROVE  DOMAIN t[i] \cap {"repoBlobUrl", "upper"} = {}
  <2>1. i - 1 \in 1..n /\ 1 + (i - 1) = i
    BY <1>1
  <2> QED
    BY <1>1, <1>3, <2>1
<1>5. \A i \in 2..Len(t) : "repoBlobUrl" \notin DOMAIN t[i]
  <2> SUFFICES ASSUME NEW i \in 2..Len(t) PROVE "repoBlobUrl" \notin DOMAIN t[i]
    OBVIOUS
  <2>1. i \in 2..(n + 1) \/ i = n + 2
    BY <1>1
  <2> QED
    BY <1>1, <1>2, <1>4, <2>1
<1>6. \A i \in 1..(Len(t) - 1) : "upper" \notin DOMAIN t[i]
  <2> SUFFICES ASSUME NEW i \in 1..(Len(t) - 1) PROVE "upper" \notin DOMAIN t[i]
    OBVIOUS
  <2>1. i \in 2..(n + 1) \/ i = 1
    BY <1>1
  <2> QED
    BY <1>1, <1>2, <1>4, <2>1
<1>7. Len(t) \in Nat /\ Len(t) > 1
  BY <1>1
<1> QED
  BY <1>1, <1>2, <1>5, <1>6, <1>7 DEF Shaped, t, c

-----------------------------------------------------------------------------
(* What is in the file                                                     *)

\* A beginning of a text is read only if it is all of it.
LEMMA BeginningReads ==
    ASSUME NEW t, Shaped(t), NEW n \in 0..Len(t), NEW f,
           f \in [1..n -> {t[i] : i \in 1..Len(t)}], Len(f) = n,
           \A i \in 1..n : f[i] = t[i], Parses(f)
    PROVE  f = t
<1>1. n > 1 /\ "upper" \in DOMAIN f[n]
  BY DEF Parses
<1>2. n = Len(t)
  <2>1. Len(t) \in Nat /\ \A i \in 1..(Len(t) - 1) : "upper" \notin DOMAIN t[i]
    BY DEF Shaped
  <2> QED
    BY <1>1, <2>1
<1> QED
  BY <1>2 DEF Shaped

LEMMA InitHolds == Init => CIInv
  BY DEF Init, CIInv, Kept, PCs, Begun, ReadsNoMixture, Parses

LEMMA KeptStep == Kept /\ [Next]_vars => Kept'
<1> SUFFICES ASSUME Kept, [Next]_vars PROVE Kept'
  OBVIOUS
<1> USE DEF Kept, PCs, Goto, Asked, AllAccepted
<1>1. CASE Begin
  BY <1>1, ConfigAssumption DEF Begin
<1>2. CASE ParseArgs
  BY <1>2 DEF ParseArgs
<1>3. CASE CreateParent
  BY <1>3 DEF CreateParent
<1>4. CASE Render
  <2>1. CASE Renders(conf)
    <3>1. pc = "render" /\ conf = Build(args) /\ UNCHANGED args
          /\ pc' = "open" /\ json' = Json(Build(args))
      BY <1>4, <2>1 DEF Render
    <3>2. Shaped(json)'
      BY <3>1, JsonShaped DEF Shaped
    <3>3. args.remotes # <<>> => args.url # None
      BY <2>1, <3>1, RendersAsked
    <3> QED
      BY <3>1, <3>2, <3>3
  <2>2. CASE ~Renders(conf)
    BY <1>4, <2>2 DEF Render
  <2> QED
    BY <2>1, <2>2
<1>5. CASE Open \/ Write \/ Written
  BY <1>5 DEF Open, Write, Written, Shaped
<1>6. CASE End
  BY <1>6 DEF End
<1>7. CASE UNCHANGED vars
  BY <1>7 DEF vars, Shaped
<1> QED
  BY <1>1, <1>2, <1>3, <1>4, <1>5, <1>6, <1>7 DEF Next

LEMMA WriteStep ==
    ASSUME CIInv, Write
    PROVE  Begun' /\ ReadsNoMixture'
<1> DEFINE S == {json[i] : i \in 1..Len(json)}
<1>1. /\ pc = "write" /\ pos < Len(json) /\ pos' = pos + 1 /\ pc' = pc
      /\ json' = json /\ given' = given
      /\ file' = SubSeq(file, 1, pos) \o <<json[pos + 1]>> \o SubSeq(file, pos + 2, Len(file))
  BY DEF Write
<1>2. /\ Shaped(json) /\ Len(json) \in Nat /\ json \in given /\ pos \in Nat /\ Len(file) = pos
      /\ file \in [1..pos -> S] /\ \A i \in 1..pos : file[i] = json[i]
  BY <1>1 DEF CIInv, Kept, Begun, Shaped
<1>3. json[pos + 1] \in S
  BY <1>1, <1>2
<1> HIDE DEF S
<1>4. file \in Seq(S)
  BY <1>2, FunctionSeq
<1>5. /\ file' \in Seq(S) /\ Len(file') = pos + 1
      /\ \A i \in 1..(pos + 1) : file'[i] = json[i]
  <2>1. SubSeq(file, 1, pos) = file /\ SubSeq(file, pos + 2, Len(file)) = <<>>
    BY <1>2, <1>4
  <2>2. file' = (file \o <<json[pos + 1]>>) \o <<>>
    BY <1>1, <2>1
  <2>3. file' = file \o <<json[pos + 1]>>
    BY <1>3, <1>4, <2>2
  <2>4. <<json[pos + 1]>> \in Seq(S) /\ 1 = Len(<<json[pos + 1]>>) /\ <<json[pos + 1]>>[1] = json[pos + 1]
    BY <1>3
  <2> DEFINE x == <<json[pos + 1]>>
  <2> HIDE DEF x
  <2>5. /\ file \o x \in Seq(S) /\ Len(file \o x) = pos + 1
        /\ \A i \in 1..pos : (file \o x)[i] = file[i]
        /\ \A i \in 1..1 : (file \o x)[pos + i] = x[i]
    BY <1>2, <1>4, <2>4, ConcatSeq DEF x
  <2> QED
    BY <1>2, <2>3, <2>4, <2>5 DEF x
<1>6. file' \in [1..(pos + 1) -> S] /\ pos + 1 \in 0..Len(json)
  <2>1. file' \in [1..Len(file') -> S]
    BY <1>5, SeqFacts
  <2>2. pos + 1 \in 0..Len(json)
    BY <1>1, <1>2
  <2> QED
    BY <1>5, <2>1, <2>2
<1>7. Begun'
  <2>1. pc' = "write" /\ json' \in given' /\ pos' \in 0..Len(json') /\ Len(file') = pos'
    BY <1>1, <1>2, <1>5, <1>6
  <2>2. file' \in [1..pos' -> {json'[i] : i \in 1..Len(json')}]
    BY <1>1, <1>6 DEF S
  <2>3. \A i \in 1..pos' : file'[i] = json'[i]
    BY <1>1, <1>5
  <2> QED
    BY <2>1, <2>2, <2>3 DEF Begun
<1>8. ReadsNoMixture'
  <2>1. Parses(file') => file' = json
    BY <1>2, <1>5, <1>6, BeginningReads DEF S
  <2> QED
    BY <1>1, <1>2, <2>1 DEF ReadsNoMixture
<1> QED
  BY <1>7, <1>8

LEMMA FileStep == CIInv /\ [Next]_vars => Begun' /\ ReadsNoMixture'
<1> SUFFICES ASSUME CIInv, [Next]_vars PROVE Begun' /\ ReadsNoMixture'
  OBVIOUS
<1> USE DEF CIInv, Kept, Begun, ReadsNoMixture, Goto
<1>1. CASE Begin \/ ParseArgs \/ CreateParent \/ Written \/ End
  BY <1>1 DEF Begin, ParseArgs, CreateParent, Written, End, Parses
<1>2. CASE Render
  BY <1>2 DEF Render, Parses
<1>3. CASE Open
  BY <1>3 DEF Open, Shaped, Parses
<1>4. CASE Write
  BY <1>4, WriteStep
<1>5. CASE UNCHANGED vars
  BY <1>5 DEF vars, Parses
<1> QED
  BY <1>1, <1>2, <1>3, <1>4, <1>5 DEF Next

LEMMA Invariance == Spec => []CIInv
<1>1. CIInv /\ [Next]_vars => CIInv'
  BY KeptStep, FileStep DEF CIInv
<1> QED
  BY <1>1, InitHolds, PTL DEF Spec

-----------------------------------------------------------------------------
(* The theorems                                                            *)

\* The daemon finds a file it cannot read, or one some command was to write: what
\* a command leaves that dies at fs::write has no tail, and what the next one
\* writes has no remains of it (config.rs:208-217).
THEOREM NeverAMixture == Spec => []ReadsNoMixture
<1>1. CIInv => ReadsNoMixture
  BY DEF CIInv
<1> QED
  BY <1>1, Invariance, PTL

\* Only a command whose options can all be written touches the file.
THEOREM RefusalsTouchNothing == Spec => RefusedTouchesNothing
<1>1. CIInv /\ [Next]_vars =>
          [file' # file => AllAccepted /\ (args.remotes # <<>> => args.url # None)]_vars
  <2> SUFFICES ASSUME CIInv, Next, file' # file
               PROVE  AllAccepted /\ (args.remotes # <<>> => args.url # None)
    BY DEF vars
  <2>1. pc \in {"open", "write"}
    BY DEF Next, Begin, ParseArgs, CreateParent, Render, Open, Write, Written, End, Goto
  <2> QED
    BY <2>1 DEF CIInv, Kept, Asked
<1> QED
  BY <1>1, Invariance, PTL DEF Spec, RefusedTouchesNothing

-----------------------------------------------------------------------------

\* What the daemon is given is a config, with sizes that are numbers and no empty
\* directory; what is written lies inside the text.
Sound ==
    /\ DOMAIN args = DOMAIN NoArgs /\ DOMAIN conf = DOMAIN NoConf
    /\ pc \in {"idle", "parse"} => conf = NoConf
    /\ pos \in 0..Len(json) /\ runs \in 0..Commands
    /\ \A i \in DOMAIN conf.lowers : IsRemote(conf.lowers[i]) =>
          /\ conf.lowers[i].size \in Nat
          /\ conf.lowers[i].dir # Some(<<>>)
    /\ \A t \in given : Parses(t)

LEMMA ShapedParses ==
    ASSUME NEW t, Shaped(t)
    PROVE  Parses(t)
  BY DEF Shaped, Parses

LEMMA RemoteSound ==
    ASSUME NEW spec, Accepted(spec)
    PROVE  Remote(spec).size \in Nat /\ Remote(spec).dir # Some(<<>>)
<1>1. Size(After(spec))[1] \in DOMAIN ByteCount
  BY DEF Accepted, IsSize
<1>2. Remote(spec).size \in Nat
  BY <1>1, ConfigAssumption DEF Remote
<1>3. \A d : d # <<>> => Some(d) # Some(<<>>)
  BY DEF Some
<1>4. None # Some(<<>>)
  BY DEF None, Some
<1>5. Remote(spec).dir # Some(<<>>)
  BY <1>3, <1>4 DEF Remote
<1> QED
  BY <1>2, <1>5

LEMMA SoundStep == CIInv /\ Sound /\ [Next]_vars => Sound'
<1> SUFFICES ASSUME CIInv, Sound, [Next]_vars PROVE Sound'
  OBVIOUS
<1> USE DEF CIInv, Kept, Sound, Goto
<1>1. CASE Begin
  <2>1. PICK a \in Inputs : args' = a
    BY <1>1 DEF Begin
  <2>2. DOMAIN args' = DOMAIN NoArgs
    BY <2>1, ConfigAssumption DEF NoArgs
  <2>3. runs' \in 0..Commands
    BY <1>1, ConfigAssumption DEF Begin
  <2> QED
    BY <1>1, <2>2, <2>3 DEF Begin, NoConf
<1>2. CASE ParseArgs
  <2>1. CASE AllAccepted
    <3>1. conf' = Build(args) /\ args.files \in Seq(STRING) /\ args.remotes \in Seq(Seq(STRING))
      BY <1>2, <2>1 DEF ParseArgs
    <3>2. DOMAIN conf' = DOMAIN NoConf
      BY <3>1 DEF Build, NoConf
    <3>3. ASSUME NEW i \in DOMAIN conf'.lowers, IsRemote(conf'.lowers[i])
          PROVE  conf'.lowers[i].size \in Nat /\ conf'.lowers[i].dir # Some(<<>>)
      <4>1. PICK j \in 1..Len(args.remotes) : conf'.lowers[i] = Remote(args.remotes[j])
        BY <3>1, <3>3, LowerKinds, RemoteIsRemote
      <4>2. Accepted(args.remotes[j])
        BY <2>1, <3>1, <4>1, SeqFacts DEF AllAccepted
      <4> QED
        BY <4>1, <4>2, RemoteSound
    <3>4. pc' = "parent" /\ UNCHANGED <<args, json, pos, given, runs>>
      BY <1>2, <2>1 DEF ParseArgs
    <3> QED
      BY <3>2, <3>3, <3>4
  <2>2. CASE ~AllAccepted
    BY <1>2, <2>2 DEF ParseArgs
  <2> QED
    BY <2>1, <2>2
<1>3. CASE CreateParent \/ Written
  BY <1>3 DEF CreateParent, Written
<1>4. CASE Render
  <2>1. pos = 0 /\ UNCHANGED <<args, conf, pos, given, runs>> /\ pc' \notin {"idle", "parse"}
    BY <1>4 DEF Render, Begun
  <2>2. pos' \in 0..Len(json')
    <3>1. CASE Renders(conf)
      <4>1. Len(json') \in Nat
        BY <1>4, <3>1, JsonShaped DEF Render, Shaped
      <4> QED
        BY <2>1, <4>1
    <3>2. CASE ~Renders(conf)
      BY <1>4, <2>1, <3>2 DEF Render
    <3> QED
      BY <3>1, <3>2
  <2> QED
    BY <2>1, <2>2
<1>5. CASE Open
  BY <1>5, ShapedParses DEF Open
<1>6. CASE Write
  <2>1. pos' \in 0..Len(json')
    <3>1. /\ pc = "write" /\ pos < Len(json) /\ pos' = pos + 1 /\ json' = json
          /\ pos \in Nat
      BY <1>6 DEF Write, Begun
    <3>2. Len(json) \in Nat
      BY <3>1 DEF Shaped
    <3> QED
      BY <3>1, <3>2
  <2>2. UNCHANGED <<pc, args, conf, given, runs>>
    BY <1>6 DEF Write
  <2> QED
    BY <2>1, <2>2
<1>7. CASE End
  <2>1. conf' = NoConf /\ args' = NoArgs /\ pc' = "idle" /\ pos' = 0 /\ json' = <<>>
        /\ UNCHANGED <<given, runs>>
    BY <1>7 DEF End
  <2>2. conf'.lowers = <<>>
    BY <2>1 DEF NoConf
  <2> QED
    BY <2>1, <2>2
<1>8. CASE UNCHANGED vars
  BY <1>8 DEF vars
<1> QED
  BY <1>1, <1>2, <1>3, <1>4, <1>5, <1>6, <1>7, <1>8 DEF Next

\* Every config the daemon is given has a head, lowers and a tail; sizes are
\* numbers, and no directory is empty.
THEOREM ConfigWellTyped == Spec => []ConfigTypeOK
<1>1. Init => Sound
  <2> SUFFICES ASSUME Init PROVE Sound
    OBVIOUS
  <2>1. conf = NoConf /\ args = NoArgs /\ pc = "idle" /\ pos = 0 /\ json = <<>>
        /\ given = {} /\ runs = 0
    BY DEF Init
  <2>2. conf.lowers = <<>>
    BY <2>1 DEF NoConf
  <2> QED
    BY <2>1, <2>2, ConfigAssumption DEF Sound
<1>2. CIInv /\ Sound => ConfigTypeOK
  BY DEF CIInv, Kept, Sound, Shaped, ConfigTypeOK
<1> QED
  BY <1>1, <1>2, SoundStep, Invariance, PTL DEF Spec

-----------------------------------------------------------------------------
(* The file of a command that ends well                                    *)

\* The text is of the command line, the file of a command that ended well is all
\* of the text, and one that is refused asked for what cannot be written.
Rendered ==
    /\ pc # "idle" => args \in Inputs
    /\ pc \in {"open", "write", "ok"} => json = Json(Build(args))
    /\ pc = "ok" => file = json
    /\ pc = "refused" => ~AllAccepted \/ (args.remotes # <<>> /\ args.url = None)

LEMMA NotRendered ==
    ASSUME NEW a, a.files \in Seq(STRING), a.remotes \in Seq(Seq(STRING)),
           ~Renders(Build(a))
    PROVE  a.remotes # <<>> /\ a.url = None
<1>1. PICK i \in DOMAIN Build(a).lowers : IsRemote(Build(a).lowers[i])
  BY DEF Renders
<1>2. PICK j \in 1..Len(a.remotes) : Build(a).lowers[i] = Remote(a.remotes[j])
  BY <1>1, LowerKinds, RemoteIsRemote
<1>3. a.remotes # <<>>
  BY <1>2
<1>4. Build(a).url = None
  BY DEF Renders
<1>5. \A x : Some(x) # None
  BY DEF Some, None
<1> QED
  BY <1>3, <1>4, <1>5 DEF Build

LEMMA RenderedStep == CIInv /\ Rendered /\ [Next]_vars => Rendered'
<1> SUFFICES ASSUME CIInv, Rendered, [Next]_vars PROVE Rendered'
  OBVIOUS
<1> USE DEF Rendered, Goto
<1>1. CASE Begin
  BY <1>1 DEF Begin
<1>2. CASE ParseArgs
  BY <1>2 DEF ParseArgs, AllAccepted
<1>3. CASE CreateParent
  BY <1>3 DEF CreateParent
<1>4. CASE Render
  <2>1. /\ pc = "render" /\ conf = Build(args) /\ args' = args
        /\ args.files \in Seq(STRING) /\ args.remotes \in Seq(Seq(STRING))
    BY <1>4 DEF Render, CIInv, Kept
  <2>2. CASE Renders(conf)
    BY <1>4, <2>1, <2>2 DEF Render
  <2>3. CASE ~Renders(conf)
    BY <1>4, <2>1, <2>3, NotRendered DEF Render
  <2> QED
    BY <2>2, <2>3
<1>5. CASE Open \/ Write
  BY <1>5 DEF Open, Write
<1>6. CASE Written
  <2>1. /\ pc = "write" /\ pc' = "ok" /\ pos = Len(json)
        /\ UNCHANGED <<args, json, file>>
    BY <1>6 DEF Written
  <2>2. Shaped(json) /\ file \in [1..pos -> {json[i] : i \in 1..Len(json)}]
        /\ \A i \in 1..pos : file[i] = json[i]
    BY <2>1 DEF CIInv, Kept, Begun
  <2>3. file = json
    BY <2>1, <2>2 DEF Shaped
  <2> QED
    BY <2>1, <2>3
<1>7. CASE End
  BY <1>7 DEF End
<1>8. CASE UNCHANGED vars
  BY <1>8 DEF vars, AllAccepted
<1> QED
  BY <1>1, <1>2, <1>3, <1>4, <1>5, <1>6, <1>7, <1>8 DEF Next

\* What the text of a command line says.
LEMMA TextSays ==
    ASSUME CIInv, Rendered, pc = "ok"
    PROVE  LET n == Len(args.files)
           IN  /\ Parses(file) /\ Len(file) = n + Len(args.remotes) + 2
               /\ \A i \in 1..n : args.files[i] \in Utf8Paths => file[i + 1].file = args.files[i]
               /\ \A i \in DOMAIN args.remotes : Says(args.remotes[i], file[n + i + 1])
               /\ file[1].repoBlobUrl = Build(args).url
               /\ file[Len(file)].upper =
                      IF args.upper = None THEN None ELSE Some(Upper(args.upper[1]))
               /\ file[Len(file)].resultFile = Display(args.result)
<1> DEFINE n == Len(args.files)
           k == Len(args.remotes)
           c == Build(args)
<1>1. /\ file = Json(c) /\ AllAccepted
      /\ args.files \in Seq(STRING) /\ args.remotes \in Seq(Seq(STRING))
  BY DEF CIInv, Kept, Rendered, Asked
<1>2. Parses(file)
  BY <1>1, JsonShaped DEF Shaped, Parses
<1>3. n \in Nat /\ k \in Nat /\ DOMAIN args.remotes = 1..k
  BY <1>1, SeqFacts
<1>4. /\ Len(file) = n + k + 2
      /\ file[1] = [repoBlobUrl |-> c.url]
      /\ \A i \in 1..(n + k) : file[1 + i] = Lower(c.lowers[i])
      /\ file[n + k + 2] = [upper |-> IF c.upper = None THEN None ELSE Some(Upper(c.upper[1])),
                            resultFile |-> Display(c.result)]
  BY <1>1, JsonParts, Zenon
<1>5. /\ \A i \in 1..n : c.lowers[i] = [path |-> args.files[i]]
      /\ \A i \in 1..k : c.lowers[n + i] = Remote(args.remotes[i])
  BY <1>1, BuildLowers, Zenon
<1>6. c.upper = args.upper /\ c.result = args.result
  BY DEF Build
<1> HIDE DEF n, k, c
<1>7. ASSUME NEW i \in 1..n, args.files[i] \in Utf8Paths
      PROVE  file[i + 1].file = args.files[i]
  <2>1. i \in 1..(n + k) /\ 1 + i = i + 1
    BY <1>3
  <2>2. file[i + 1] = Lower([path |-> args.files[i]])
    BY <1>4, <1>5, <2>1
  <2>3. Display(args.files[i]) = args.files[i]
    BY <1>7 DEF Display
  <2>4. file[i + 1] = [file |-> Display(args.files[i])]
    BY <2>2, FileLower, Zenon
  <2> QED
    BY <2>3, <2>4
<1>8. ASSUME NEW i \in 1..k
      PROVE  Says(args.remotes[i], file[n + i + 1])
  <2>1. n + i \in 1..(n + k) /\ 1 + (n + i) = n + i + 1
    BY <1>3
  <2>2. file[n + i + 1] = Lower(c.lowers[n + i]) /\ c.lowers[n + i] = Remote(args.remotes[i])
    BY <1>4, <1>5, <2>1
  <2>3. i \in DOMAIN args.remotes
    BY <1>3
  <2>4. args.remotes[i] \in Seq(STRING) /\ Accepted(args.remotes[i])
    BY <1>1, <2>3 DEF AllAccepted
  <2> QED
    BY <2>2, <2>4, RemoteLower, SaysItsLower
<1>9. /\ file[1].repoBlobUrl = c.url
      /\ file[Len(file)].upper = IF args.upper = None THEN None ELSE Some(Upper(args.upper[1]))
      /\ file[Len(file)].resultFile = Display(args.result)
  BY <1>4, <1>6
<1>10. Len(file) = n + k + 2 /\ \A i \in DOMAIN args.remotes : Says(args.remotes[i], file[n + i + 1])
  BY <1>3, <1>4, <1>8
<1> QED
  BY <1>2, <1>7, <1>9, <1>10 DEF n, k, c

LEMMA InputTypes ==
    ASSUME NEW a \in Inputs
    PROVE  /\ a.url # None => a.url[1] \in Seq(STRING)
           /\ a.upper # None =>
                 a.upper = Some([data |-> a.upper[1].data, index |-> a.upper[1].index])
  BY ConfigAssumption

\* A command that ends well has written what its options say, cut where the help
\* text cuts it, and one that refuses a spec was given one that says nothing
\* (config.rs:40-217, obdctl.rs:338-365).
THEOREM FilesSayWhatWasAsked == Spec => []WrittenAsSaid
<1>1. Init => Rendered
  BY DEF Init, Rendered
<1>2. ASSUME CIInv, Rendered, pc = "ok", args.remotes # <<>>
      PROVE  /\ file[1].repoBlobUrl # None
             /\ \A j \in DOMAIN file[1].repoBlobUrl[1] :
                   j = Len(file[1].repoBlobUrl[1]) => file[1].repoBlobUrl[1][j] # "/"
  <2>1. args.url # None /\ args \in Inputs
    BY <1>2 DEF CIInv, Kept, Asked, Rendered
  <2>2. args.url[1] \in Seq(STRING)
    BY <2>1, InputTypes
  <2>3. file[1].repoBlobUrl = Some(Trim(args.url[1]))
    BY <1>2, <2>1, TextSays DEF Build
  <2>4. file[1].repoBlobUrl # None /\ file[1].repoBlobUrl[1] = Trim(args.url[1])
    BY <2>3 DEF Some, None
  <2> QED
    BY <2>2, <2>4, Trimmed
<1>3. ASSUME CIInv, Rendered, pc = "ok", args.upper # None,
             {args.upper[1].data, args.upper[1].index} \subseteq Utf8Paths
      PROVE  file[Len(file)].upper = args.upper
  <2>1. args.upper = Some([data |-> args.upper[1].data, index |-> args.upper[1].index])
    BY <1>3, InputTypes DEF Rendered
  <2>2. Upper(args.upper[1]) = [data |-> args.upper[1].data, index |-> args.upper[1].index]
    BY <1>3 DEF Upper, Display
  <2> QED
    BY <1>3, <2>1, <2>2, TextSays
<1>4. ASSUME CIInv, Rendered, pc = "refused", ~(args.remotes # <<>> /\ args.url = None)
      PROVE  \E i \in DOMAIN args.remotes :
                 \A l \in Readings(args.remotes[i]) : ~Says(args.remotes[i], l)
  <2>1. PICK i \in DOMAIN args.remotes : ~Accepted(args.remotes[i])
    BY <1>4 DEF Rendered, AllAccepted
  <2>2. args.remotes[i] \in Seq(STRING)
    BY <1>4 DEF CIInv, Kept
  <2> QED
    BY <2>1, <2>2, SaidIsAccepted
<1>5. CIInv /\ Rendered => WrittenAsSaid
  <2> SUFFICES ASSUME CIInv, Rendered PROVE WrittenAsSaid
    OBVIOUS
  <2>1. ASSUME pc = "ok"
        PROVE  LET n == Len(args.files)
               IN  /\ Parses(file) /\ Len(file) = n + Len(args.remotes) + 2
                   /\ \A i \in 1..n : args.files[i] \in Utf8Paths => file[i + 1].file = args.files[i]
                   /\ \A i \in DOMAIN args.remotes : Says(args.remotes[i], file[n + i + 1])
    BY <2>1, TextSays
  <2>2. ASSUME pc = "ok", args.result \in Utf8Paths
        PROVE  file[Len(file)].resultFile = args.result
    BY <2>2, TextSays DEF Display
  <2> QED
    BY <1>2, <1>3, <1>4, <2>1, <2>2 DEF WrittenAsSaid
<1> QED
  BY <1>1, <1>5, RenderedStep, Invariance, PTL DEF Spec

=============================================================================
