--------------------------- MODULE EventLogProofs ----------------------------
(***************************************************************************)
(* Theorems about EventLog, for every size of the ring and of the file,    *)
(* every file of an earlier version, and any number of events, failed      *)
(* writes, restarts and power losses: the audit trail says what was        *)
(* answered, a healthy status is true, and nothing durable is lost.        *)
(***************************************************************************)
EXTENDS EventLog, WellFoundedInduction, FiniteSetTheorems, SequenceTheorems, TLAPS

(***************************************************************************)
(* Induction, over a set of numbers.                                       *)
(***************************************************************************)

\* A set of numbers has a least one.
LEMMA LeastNat ==
    ASSUME NEW S \in SUBSET Nat, S # {}
    PROVE  \E n \in S : \A m \in S : n <= m
<1> DEFINE R == {ss \in Nat \X Nat : ss[1] < ss[2]}
<1>1. IsWellFoundedOn(R, Nat)
    BY NatLessThanWellFounded DEF OpToRel
<1>2. \E x \in S : \A y \in S : ~(<<y, x>> \in R)
    <2> HIDE DEF R
    <2> QED BY <1>1, WFMin
<1>3. \A x, y \in Nat : <<y, x>> \in R <=> y < x
    OBVIOUS
<1> HIDE DEF R
<1>4. PICK x \in S : \A y \in S : ~(<<y, x>> \in R)
    BY <1>2
<1>5. ASSUME NEW y \in S PROVE x <= y
    <2>1. x \in Nat /\ y \in Nat
        OBVIOUS
    <2>2. ~(y < x)
        BY <2>1, <1>3, <1>4
    <2> QED BY <2>1, <2>2
<1> QED BY <1>5

\* A set that holds 0, and with n also n + 1 up to m, holds all numbers up to m.
LEMMA SetInduction ==
    ASSUME NEW m \in Nat, NEW S, 0 \in S, \A n \in 0..(m - 1) : n \in S => n + 1 \in S
    PROVE  0..m \subseteq S
<1> SUFFICES ASSUME (0..m) \ S # {} PROVE FALSE
    OBVIOUS
<1>1. (0..m) \ S \in SUBSET Nat
    OBVIOUS
<1>2. PICK n \in (0..m) \ S : \A k \in (0..m) \ S : n <= k
    BY <1>1, LeastNat
<1>3. n # 0 /\ n - 1 \in 0..(m - 1) /\ n - 1 \in 0..m
    BY <1>2
<1>4. n - 1 \in S
    BY <1>2, <1>3
<1> QED BY <1>2, <1>3, <1>4

(***************************************************************************)
(* Histories: events in the order of their numbers.                        *)
(***************************************************************************)

InOrder(s) == \A i, j \in DOMAIN s : i < j => s[i] < s[j]

History(s) == s \in Seq(Nat \ {Torn}) /\ InOrder(s)

\* Every event of s is older than n.
Before(s, n) == \A i \in DOMAIN s : s[i] < n

\* e is in s, or Keep newer events are.
Has(e, s) == e \in Events(s) \/ (Len(s) >= Keep /\ \A i \in DOMAIN s : e < s[i])

\* What Newest takes.
LEMMA NewestFacts ==
    ASSUME NEW S, NEW s \in Seq(S), NEW n \in Nat
    PROVE  LET t == Newest(s, n)
               k == IF Len(s) > n THEN Len(s) - n ELSE 0
           IN  /\ t \in Seq(S) /\ Len(t) = Len(s) - k
               /\ \A i \in DOMAIN t : t[i] = s[i + k] /\ i + k \in DOMAIN s
               /\ \A i \in DOMAIN s : i > k => i - k \in DOMAIN t /\ s[i] = t[i - k]
<1> DEFINE t == Newest(s, n)
           k == IF Len(s) > n THEN Len(s) - n ELSE 0
           L == Len(s)
<1>1. L \in Nat /\ k \in Nat /\ k <= L /\ DOMAIN s = 1..L
    OBVIOUS
<1>2. t = SubSeq(s, k + 1, L)
    BY <1>1 DEF Newest
<1>3. \A i \in (k + 1)..L : s[i] \in S
    BY <1>1
<1> HIDE DEF t, k, L
<1>4. /\ t \in Seq(S)
      /\ Len(t) = IF k + 1 <= L THEN L - (k + 1) + 1 ELSE 0
      /\ \A i \in 1..(L - (k + 1) + 1) : t[i] = s[(k + 1) + i - 1]
    BY <1>1, <1>2, <1>3, SubSeqProperties
<1>5. Len(t) = L - k /\ DOMAIN t = 1..(L - k)
    BY <1>1, <1>4
<1>6. \A i \in DOMAIN t : t[i] = s[i + k] /\ i + k \in DOMAIN s
    BY <1>1, <1>4, <1>5
<1>7. ASSUME NEW i \in DOMAIN s, i > k PROVE i - k \in DOMAIN t /\ s[i] = t[i - k]
    <2>1. i - k \in DOMAIN t /\ i - k + k = i
        BY <1>1, <1>5, <1>7
    <2> QED BY <2>1, <1>6
<1> QED BY <1>4, <1>5, <1>6, <1>7 DEF t, k, L

\* Trimming keeps a history one, and what it had but for what Keep newer events push out.
LEMMA TrimKeeps ==
    ASSUME NEW s, History(s)
    PROVE  /\ History(Trim(s)) /\ Len(Trim(s)) <= Keep
           /\ Events(Trim(s)) \subseteq Events(s)
           /\ \A e \in Nat : Has(e, s) => Has(e, Trim(s))
           /\ Len(s) <= Keep => Trim(s) = s
<1> DEFINE t == Trim(s)
           k == IF Len(s) > Keep THEN Len(s) - Keep ELSE 0
<1>0. Keep \in Nat /\ Keep > 0 /\ s \in Seq(Nat \ {Torn}) /\ k \in Nat /\ Len(s) \in Nat
    BY KeepAssumption DEF History
<1>1. /\ t \in Seq(Nat \ {Torn}) /\ Len(t) = Len(s) - k
      /\ \A i \in DOMAIN t : t[i] = s[i + k] /\ i + k \in DOMAIN s
      /\ \A i \in DOMAIN s : i > k => i - k \in DOMAIN t /\ s[i] = t[i - k]
    BY <1>0, NewestFacts DEF Trim
<1> HIDE DEF t
<1>2. InOrder(t)
    <2> SUFFICES ASSUME NEW i \in DOMAIN t, NEW j \in DOMAIN t, i < j PROVE t[i] < t[j]
        BY DEF InOrder
    <2> HIDE DEF k
    <2>1. i + k \in DOMAIN s /\ j + k \in DOMAIN s /\ i + k < j + k
        BY <1>0, <1>1
    <2> QED BY <1>1, <2>1 DEF InOrder, History
<1>3. Len(t) <= Keep
    BY <1>0, <1>1
<1>4. Events(t) \subseteq Events(s)
    BY <1>1 DEF Events
<1>5. ASSUME NEW e \in Nat, Has(e, s) PROVE Has(e, t)
    <2>1. CASE \E i \in DOMAIN s : e = s[i]
        <3>1. PICK i \in DOMAIN s : e = s[i]
            BY <2>1
        <3>2. CASE i > k
            BY <1>1, <3>1, <3>2 DEF Has, Events
        <3>3. CASE i <= k
            <4>1. Len(t) = Keep
                BY <1>0, <1>1, <3>1, <3>3
            <4>2. \A j \in DOMAIN t : e < t[j]
                BY <1>0, <1>1, <3>1, <3>3 DEF History, InOrder
            <4> QED BY <1>0, <4>1, <4>2 DEF Has
        <3> QED BY <1>0, <3>1, <3>2, <3>3
    <2>2. CASE Len(s) >= Keep /\ \A i \in DOMAIN s : e < s[i]
        <3>1. Len(t) = Keep
            BY <1>0, <1>1, <2>2
        <3>2. \A j \in DOMAIN t : e < t[j]
            BY <1>1, <2>2
        <3> QED BY <1>0, <3>1, <3>2 DEF Has
    <2> QED BY <1>5, <2>1, <2>2 DEF Has, Events
<1>6. ASSUME Len(s) <= Keep PROVE t = s
    BY <1>0, <1>1, <1>6
<1> QED BY <1>1, <1>2, <1>3, <1>4, <1>5, <1>6 DEF t, History

\* A history followed by newer events.
LEMMA JoinKeeps ==
    ASSUME NEW s, NEW b, History(s), History(b), \A x \in Events(s), y \in Events(b) : x < y
    PROVE  /\ History(s \o b)
           /\ Events(s \o b) = Events(s) \union Events(b)
           /\ \A e \in Nat : Has(e, s) => Has(e, s \o b)
<1>0. s \in Seq(Nat \ {Torn}) /\ b \in Seq(Nat \ {Torn}) /\ Len(s) \in Nat /\ Len(b) \in Nat
    BY DEF History
<1> DEFINE u == s \o b
<1>1. /\ u \in Seq(Nat \ {Torn}) /\ Len(u) = Len(s) + Len(b)
      /\ \A i \in DOMAIN s : i \in DOMAIN u /\ u[i] = s[i]
      /\ \A i \in DOMAIN b : i + Len(s) \in DOMAIN u /\ u[i + Len(s)] = b[i]
      /\ \A i \in DOMAIN u : i \notin DOMAIN s => i - Len(s) \in DOMAIN b /\ u[i] = b[i - Len(s)]
    BY <1>0
<1> HIDE DEF u
<1>2. Events(u) = Events(s) \union Events(b)
    <2>1. \A i \in DOMAIN u : u[i] \in Events(s) \union Events(b)
        BY <1>1 DEF Events
    <2>2. \A i \in DOMAIN s : s[i] \in Events(u)
        BY <1>1 DEF Events
    <2>3. \A i \in DOMAIN b : b[i] \in Events(u)
        BY <1>1 DEF Events
    <2> QED BY <2>1, <2>2, <2>3 DEF Events
<1>3. InOrder(u)
    <2> SUFFICES ASSUME NEW i \in DOMAIN u, NEW j \in DOMAIN u, i < j PROVE u[i] < u[j]
        BY DEF InOrder
    <2>0. DOMAIN s = 1..Len(s) /\ DOMAIN u = 1..Len(u) /\ i \in Nat /\ j \in Nat
        BY <1>0, <1>1
    <2>1. CASE j \in DOMAIN s
        <3>1. i \in DOMAIN s
            BY <1>0, <1>1, <2>0, <2>1
        <3> QED BY <1>1, <2>1, <3>1 DEF History, InOrder
    <2>2. CASE i \in DOMAIN s /\ j \notin DOMAIN s
        <3>1. s[i] \in Events(s) /\ b[j - Len(s)] \in Events(b)
            BY <1>1, <2>2 DEF Events
        <3> QED BY <1>1, <2>2, <3>1
    <2>3. CASE i \notin DOMAIN s /\ j \notin DOMAIN s
        <3>1. i - Len(s) \in DOMAIN b /\ j - Len(s) \in DOMAIN b /\ i - Len(s) < j - Len(s)
            BY <1>0, <1>1, <2>3
        <3> QED BY <1>1, <2>3, <3>1 DEF History, InOrder
    <2>4. CASE i \notin DOMAIN s /\ j \in DOMAIN s
        BY <1>0, <2>0, <2>4
    <2> QED BY <2>1, <2>2, <2>3, <2>4
<1>4. ASSUME NEW e \in Nat, Has(e, s) PROVE Has(e, u)
    <2>1. CASE e \in Events(s)
        BY <1>2, <2>1 DEF Has
    <2>2. CASE Len(s) >= Keep /\ \A i \in DOMAIN s : e < s[i]
        <3>1. 1 \in DOMAIN s /\ Len(u) >= Keep
            BY <1>0, <1>1, <2>2, KeepAssumption
        <3>2. \A x \in Events(s) : e < x /\ x \in Nat
            BY <1>0, <2>2 DEF Events
        <3>3. \A y \in Events(b) : e < y
            <4> SUFFICES ASSUME NEW y \in Events(b) PROVE e < y
                OBVIOUS
            <4>1. s[1] \in Events(s)
                BY <3>1 DEF Events
            <4>2. y \in Nat
                BY <1>0 DEF Events
            <4>3. e < s[1] /\ s[1] \in Nat /\ s[1] < y
                BY <3>2, <4>1
            <4> QED BY <4>2, <4>3
        <3>4. \A i \in DOMAIN u : u[i] \in Events(u)
            BY DEF Events
        <3> QED BY <1>2, <3>1, <3>2, <3>3, <3>4 DEF Has
    <2> QED BY <1>4, <2>1, <2>2 DEF Has
<1> QED BY <1>1, <1>2, <1>3, <1>4 DEF u, History

\* The events of a history are numbers.
LEMMA EventsAreNumbers == \A s : History(s) => Events(s) \subseteq Nat
BY DEF History, Events

\* A history followed by one newer event.
LEMMA AppendKeeps ==
    ASSUME NEW s, History(s), NEW n \in Nat \ {Torn}, \A i \in DOMAIN s : s[i] < n
    PROVE  /\ History(Append(s, n))
           /\ Events(Append(s, n)) = Events(s) \union {n}
           /\ \A e \in Nat : Has(e, s) => Has(e, Append(s, n))
<1>1. s \in Seq(Nat \ {Torn}) /\ <<n>> \in Seq(Nat \ {Torn})
    BY DEF History
<1>2. Append(s, n) = s \o <<n>>
    BY <1>1, AppendIsConcat
<1>3. DOMAIN <<n>> = {1} /\ <<n>>[1] = n
    OBVIOUS
<1>4. History(<<n>>) /\ Events(<<n>>) = {n}
    <2> HIDE DEF History
    <2>1. InOrder(<<n>>)
        BY <1>3 DEF InOrder
    <2> QED BY <1>1, <1>3, <2>1 DEF History, Events
<1>5. \A x \in Events(s), y \in Events(<<n>>) : x < y
    BY <1>4 DEF Events
<1> QED BY <1>2, <1>4, <1>5, JoinKeeps

(***************************************************************************)
(* Reading a file: what Parsed makes of its lines.                         *)
(***************************************************************************)

\* What follows the events so far when line n of s has been read.
NextLine(s, n, upTo) == IF s[n] = Torn THEN upTo ELSE Append(upTo, s[n])

\* g holds the events of the first n lines of s, for every n up to m.
IsUpTo(s, m, g) ==
    g = [n \in 0..m |-> IF n = 0 THEN <<>> ELSE NextLine(s, n, g[n - 1])]

\* The recursive function of Parsed exists.
LEMMA UpToExists ==
    ASSUME NEW s \in Seq(Nat)
    PROVE  \E g : IsUpTo(s, Len(s), g)
<1> DEFINE M == {m \in Nat : \E g : IsUpTo(s, m, g)}
           L == Len(s)
<1>0. L \in Nat
    OBVIOUS
<1> HIDE DEF L
<1>1. 0 \in M
    <2>1. IsUpTo(s, 0, [n \in 0..0 |-> <<>>])
        BY DEF IsUpTo
    <2> QED BY <2>1
<1>2. ASSUME NEW n \in 0..(L - 1), n \in M PROVE n + 1 \in M
    <2>1. PICK g : IsUpTo(s, n, g)
        BY <1>2
    <2> DEFINE h == [i \in 0..(n + 1) |-> IF i = n + 1 THEN NextLine(s, n + 1, g[n]) ELSE g[i]]
    <2>2. ASSUME NEW i \in 0..(n + 1)
          PROVE  h[i] = IF i = 0 THEN <<>> ELSE NextLine(s, i, h[i - 1])
        <3>1. CASE i = n + 1
            BY <1>0, <3>1
        <3>2. CASE i = 0
            BY <1>0, <2>1, <3>2 DEF IsUpTo
        <3>3. CASE i \in 1..n
            <4>1. h[i] = g[i] /\ h[i - 1] = g[i - 1] /\ i \in 0..n /\ i # 0
                BY <1>0, <3>3
            <4> QED BY <2>1, <4>1 DEF IsUpTo
        <3> QED BY <1>0, <3>1, <3>2, <3>3
    <2>3. IsUpTo(s, n + 1, h)
        <3>1. h = [i \in 0..(n + 1) |-> h[i]]
            OBVIOUS
        <3> HIDE DEF h
        <3> QED BY <2>2, <3>1 DEF IsUpTo
    <2> HIDE DEF h
    <2> QED BY <1>0, <2>3
<1> HIDE DEF M
<1>3. 0..L \subseteq M
    BY <1>0, <1>1, <1>2, SetInduction
<1> QED BY <1>0, <1>3 DEF M, L

\* Parsed is the last value of that function.
LEMMA ParsedIsUpTo ==
    ASSUME NEW s \in Seq(Nat)
    PROVE  \E g : /\ Parsed(s) = g[Len(s)]
                  /\ g[0] = <<>>
                  /\ \A n \in 1..Len(s) : g[n] = NextLine(s, n, g[n - 1])
<1> DEFINE Eq(g) == g = [n \in 0..Len(s) |->
                            IF n = 0 THEN <<>>
                            ELSE IF s[n] = Torn THEN g[n - 1] ELSE Append(g[n - 1], s[n])]
           c == CHOOSE g : Eq(g)
<1>1. PICK h : IsUpTo(s, Len(s), h)
    BY UpToExists
<1>2. Eq(h)
    BY <1>1, Zenon DEF IsUpTo, NextLine
<1>3. Eq(c)
    BY <1>2, Zenon
<1>4. Parsed(s) = c[Len(s)]
    BY Zenon DEF Parsed
<1> HIDE DEF c
<1>5. \A n \in 0..Len(s) : c[n] = IF n = 0 THEN <<>>
                            ELSE IF s[n] = Torn THEN c[n - 1] ELSE Append(c[n - 1], s[n])
    BY <1>3
<1>6. 0 \in 0..Len(s) /\ \A n \in 1..Len(s) : n \in 0..Len(s) /\ n # 0
    OBVIOUS
<1> QED BY <1>4, <1>5, <1>6 DEF NextLine

\* The lines before the first one that does not parse are taken as they are.
LEMMA ParsedPrefix ==
    ASSUME NEW s \in Seq(Nat), NEW m \in 0..Len(s), \A i \in 1..m : s[i] # Torn,
           NEW g, g[0] = <<>>, \A n \in 1..Len(s) : g[n] = NextLine(s, n, g[n - 1])
    PROVE  g[m] = SubSeq(s, 1, m)
<1> DEFINE M == {n \in 0..m : g[n] = SubSeq(s, 1, n)}
<1>0. m \in Nat /\ Len(s) \in Nat /\ m <= Len(s)
    OBVIOUS
<1>1. 0 \in M
    <2>1. SubSeq(s, 1, 0) = <<>> /\ 0 \in 0..m
        BY <1>0, SubSeqEmpty
    <2> QED BY <2>1
<1>2. ASSUME NEW n \in 0..(m - 1), n \in M PROVE n + 1 \in M
    <2>1. n + 1 \in 1..m /\ n + 1 \in 1..Len(s) /\ 1 \in 1..Len(s) /\ n + 1 - 1 = n
        BY <1>0
    <2>2. g[n + 1] = Append(SubSeq(s, 1, n), s[n + 1])
        <3>1. s[n + 1] # Torn /\ g[n + 1] = NextLine(s, n + 1, g[n]) /\ g[n] = SubSeq(s, 1, n)
            BY <1>2, <2>1
        <3> QED BY <3>1 DEF NextLine
    <2>3. SubSeq(s, 1, n + 1) = SubSeq(s, 1, n) \o <<s[n + 1]>>
        BY <2>1, SubSeqRecursiveSecond
    <2>4. SubSeq(s, 1, n) \in Seq(Nat) /\ s[n + 1] \in Nat
        <3>1. \A i \in 1..n : s[i] \in Nat
            BY <1>0, <2>1
        <3> QED BY <2>1, <3>1, SubSeqProperties
    <2>5. g[n + 1] = SubSeq(s, 1, n + 1)
        BY <2>2, <2>3, <2>4, AppendIsConcat
    <2> QED BY <2>1, <2>5
<1> HIDE DEF M
<1>3. 0..m \subseteq M
    BY <1>0, <1>1, <1>2, SetInduction
<1> QED BY <1>0, <1>3 DEF M

\* A history parses to itself, also with an unfinished line at its end.
LEMMA ParsedHistory ==
    ASSUME NEW s, History(s)
    PROVE  Parsed(s) = s /\ Parsed(Append(s, Torn)) = s
<1>0. s \in Seq(Nat) /\ Len(s) \in Nat /\ \A i \in 1..Len(s) : s[i] # Torn
    BY DEF History
<1>1. Parsed(s) = s
    <2>1. PICK g : /\ Parsed(s) = g[Len(s)]
                   /\ g[0] = <<>>
                   /\ \A n \in 1..Len(s) : g[n] = NextLine(s, n, g[n - 1])
        BY <1>0, ParsedIsUpTo
    <2>2. g[Len(s)] = SubSeq(s, 1, Len(s))
        BY <1>0, <2>1, ParsedPrefix
    <2> QED BY <1>0, <2>1, <2>2, SubSeqFull
<1>2. Parsed(Append(s, Torn)) = s
    <2> DEFINE u == Append(s, Torn)
               L == Len(s)
    <2>0. /\ L \in Nat /\ u \in Seq(Nat) /\ Len(u) = L + 1 /\ u[L + 1] = Torn
          /\ \A i \in 1..L : u[i] = s[i]
        BY <1>0 DEF Torn
    <2> HIDE DEF u
    <2>1. PICK g : /\ Parsed(u) = g[L + 1]
                   /\ g[0] = <<>>
                   /\ \A n \in 1..Len(u) : g[n] = NextLine(u, n, g[n - 1])
        BY <2>0, ParsedIsUpTo
    <2>2. g[L + 1] = g[L]
        BY <2>0, <2>1 DEF NextLine
    <2>3. g[L] = SubSeq(u, 1, L)
        <3>1. L \in 0..Len(u) /\ \A i \in 1..L : u[i] # Torn
            BY <1>0, <2>0
        <3> HIDE DEF L
        <3> QED BY <2>0, <2>1, <3>1, ParsedPrefix
    <2>4. SubSeq(u, 1, L) = s
        <3>1. \A i \in 1..L : u[i] \in Nat
            BY <2>0
        <3>2. /\ SubSeq(u, 1, L) \in Seq(Nat)
              /\ Len(SubSeq(u, 1, L)) = L
              /\ \A i \in 1..L : SubSeq(u, 1, L)[i] = u[i]
            BY <2>0, <3>1, SubSeqProperties
        <3> QED BY <1>0, <2>0, <3>2, SeqEqual
    <2> QED BY <2>1, <2>2, <2>3, <2>4 DEF u
<1> QED BY <1>1, <1>2

\* The lines an earlier version left parse to a history.
LEMMA ParsedLegacy ==
    ASSUME NEW s \in Seq(Nat), NEW k \in Nat, \A i \in 1..Len(s) : s[i] \in {Torn, i + k}
    PROVE  History(Parsed(s)) /\ \A i \in DOMAIN Parsed(s) : Parsed(s)[i] <= Len(s) + k
<1>1. PICK g : /\ Parsed(s) = g[Len(s)]
               /\ g[0] = <<>>
               /\ \A n \in 1..Len(s) : g[n] = NextLine(s, n, g[n - 1])
    BY ParsedIsUpTo
<1> DEFINE Good(n) == History(g[n]) /\ \A i \in DOMAIN g[n] : g[n][i] <= n + k
           M == {n \in 0..Len(s) : Good(n)}
<1>0. Len(s) \in Nat
    OBVIOUS
<1>2. 0 \in M
    <2>1. g[0] \in Seq(Nat \ {Torn}) /\ DOMAIN g[0] = {}
        BY <1>1
    <2>2. Good(0) /\ 0 \in 0..Len(s)
        BY <1>0, <2>1 DEF History, InOrder
    <2> QED BY <2>2
<1>3. ASSUME NEW n \in 0..(Len(s) - 1), n \in M PROVE n + 1 \in M
    <2>1. n \in Nat /\ n + 1 \in 1..Len(s) /\ n + 1 - 1 = n /\ Good(n)
        BY <1>0, <1>3
    <2>2. g[n + 1] = NextLine(s, n + 1, g[n])
        BY <1>1, <2>1
    <2>3. CASE s[n + 1] = Torn
        <3>1. g[n + 1] = g[n]
            BY <2>2, <2>3 DEF NextLine
        <3>2. \A i \in DOMAIN g[n] : g[n][i] \in Nat
            BY <2>1 DEF History
        <3> QED BY <2>1, <3>1, <3>2
    <2>4. CASE s[n + 1] # Torn
        <3> DEFINE h == g[n]
                   e == n + 1 + k
                   u == Append(h, e)
        <3>1. s[n + 1] = e
            BY <2>1, <2>4
        <3>2. g[n + 1] = u
            BY <2>2, <2>4, <3>1 DEF NextLine
        <3>3. h \in Seq(Nat \ {Torn}) /\ e \in Nat \ {Torn} /\ Len(h) \in Nat
            BY <2>1 DEF History, Torn
        <3>5. e = n + 1 + k /\ DOMAIN h = 1..Len(h) /\ \A i \in DOMAIN h : h[i] <= n + k
            BY <2>1, <3>3
        <3>6. History(h) /\ \A i \in DOMAIN h : h[i] < e
            BY <2>1, <3>3, <3>5
        <3> HIDE DEF h, e, u
        <3>7. /\ History(u)
              /\ \A i \in DOMAIN u : u[i] = e \/ \E j \in DOMAIN h : u[i] = h[j]
            BY <3>3, <3>6, AppendKeeps DEF u, Events
        <3>8. \A i \in DOMAIN u : u[i] <= n + 1 + k
            <4>1. \A j \in DOMAIN h : h[j] \in Nat
                BY <3>3
            <4> QED BY <2>1, <3>5, <3>7, <4>1
        <3> QED BY <1>0, <2>1, <3>2, <3>7, <3>8
    <2> QED BY <2>3, <2>4
<1> HIDE DEF M
<1>4. 0..Len(s) \subseteq M
    BY <1>0, <1>2, <1>3, SetInduction
<1>5. Len(s) \in M
    BY <1>0, <1>4
<1> QED BY <1>1, <1>5 DEF M

(***************************************************************************)
(* Files: what a start finds in them.                                      *)
(***************************************************************************)

\* The file of a running program: a history, and perhaps an unfinished line.
Sound(c) ==
    /\ c \in Content /\ Len(c.lines) <= FileLimit
    /\ History(Parsed(c.lines))
    /\ c.lines \in {Parsed(c.lines), Append(Parsed(c.lines), Torn)}

\* A file that holds the history h, and perhaps an unfinished line.
LEMMA SoundContent ==
    ASSUME NEW h, History(h), NEW c \in Content, c.lines \in {h, Append(h, Torn)},
           Len(c.lines) <= FileLimit
    PROVE  Sound(c) /\ Parsed(c.lines) = h /\ Restored(c) = Trim(h)
<1>1. Parsed(c.lines) = h
    BY ParsedHistory
<1>2. Window(c.lines) = c.lines
    BY LimitAssumption DEF Content, Window
<1> QED BY <1>1, <1>2 DEF Sound, Restored

\* A start takes the newest Keep events of a sound file.
LEMMA SoundRestored ==
    ASSUME NEW c, Sound(c)
    PROVE  /\ Restored(c) = Trim(Parsed(c.lines))
           /\ History(Restored(c)) /\ Len(Restored(c)) <= Keep
           /\ Events(Restored(c)) \subseteq Events(Parsed(c.lines))
           /\ \A e \in Nat : Has(e, Parsed(c.lines)) => Has(e, Restored(c))
<1>1. Window(c.lines) = c.lines
    BY LimitAssumption DEF Sound, Content, Window
<1>2. Restored(c) = Trim(Parsed(c.lines))
    BY <1>1 DEF Restored
<1> QED BY <1>2, TrimKeeps DEF Sound

\* A rewritten file gives back the ring it was written from.
LEMMA SavedRing ==
    ASSUME NEW r, History(r), Len(r) <= Keep
    PROVE  /\ Sound(Closed(r)) /\ Parsed(Closed(r).lines) = r /\ Restored(Closed(r)) = r
           /\ Closed(r).lines = r /\ ~Closed(r).open
<1>1. Closed(r).lines = r /\ ~Closed(r).open /\ Closed(r) \in Content
    BY DEF Closed, Content, History
<1>2. Len(r) <= FileLimit
    BY KeepAssumption, LimitAssumption DEF History
<1> QED BY <1>1, <1>2, SoundContent, TrimKeeps

\* Trimming before an event is added changes nothing.
LEMMA TrimAppend ==
    ASSUME NEW S, NEW s \in Seq(S), NEW n \in S
    PROVE  Trim(Append(Trim(s), n)) = Trim(Append(s, n))
<1> DEFINE t == Trim(s)
           u == Append(t, n)
           v == Append(s, n)
           L == Len(s)
           k == IF L > Keep THEN L - Keep ELSE 0
           ku == IF Len(u) > Keep THEN Len(u) - Keep ELSE 0
           kv == IF Len(v) > Keep THEN Len(v) - Keep ELSE 0
<1>1. /\ Keep \in Nat \ {0} /\ L \in Nat /\ k \in Nat /\ k <= L
      /\ k = IF L > Keep THEN L - Keep ELSE 0
    BY KeepAssumption
<1>2. t \in Seq(S) /\ Len(t) = L - k /\ \A i \in DOMAIN t : t[i] = s[i + k]
    BY <1>1, NewestFacts DEF Trim
<1> HIDE DEF t
<1>3. /\ u \in Seq(S) /\ Len(u) = L - k + 1 /\ u[L - k + 1] = n
      /\ \A i \in 1..(L - k) : u[i] = s[i + k]
    <2> HIDE DEF k, L
    <2>1. /\ u \in Seq(S) /\ Len(u) = Len(t) + 1 /\ u[Len(t) + 1] = n
          /\ \A i \in 1..Len(t) : u[i] = t[i] /\ i \in DOMAIN t
        BY <1>2, AppendProperties
    <2> HIDE DEF u
    <2> QED BY <1>1, <1>2, <2>1
<1>4. v \in Seq(S) /\ Len(v) = L + 1 /\ v[L + 1] = n /\ \A i \in 1..L : v[i] = s[i]
    OBVIOUS
<1>5. ku \in Nat /\ kv \in Nat /\ kv = ku + k /\ Len(u) - ku = Len(v) - kv
    <2> HIDE DEF u, v, k, L
    <2> QED BY <1>1, <1>3, <1>4
<1> HIDE DEF u, v
<1>6. /\ Trim(u) \in Seq(S) /\ Len(Trim(u)) = Len(u) - ku
      /\ \A i \in DOMAIN Trim(u) : Trim(u)[i] = u[i + ku] /\ i + ku \in DOMAIN u
    BY <1>1, <1>3, NewestFacts DEF Trim
<1>7. /\ Trim(v) \in Seq(S) /\ Len(Trim(v)) = Len(v) - kv
      /\ \A i \in DOMAIN Trim(v) : Trim(v)[i] = v[i + kv] /\ i + kv \in DOMAIN v
    BY <1>1, <1>4, NewestFacts DEF Trim
<1> HIDE DEF ku, kv, k, L
<1>8. ASSUME NEW i \in 1..Len(Trim(u)) PROVE Trim(u)[i] = Trim(v)[i]
    <2>1. i + ku \in 1..(L - k + 1) /\ i \in Nat /\ i + kv = i + ku + k
        BY <1>1, <1>3, <1>5, <1>6
    <2>2. Trim(u)[i] = u[i + ku] /\ Trim(v)[i] = v[i + kv]
        <3>1. DOMAIN Trim(u) = 1..Len(Trim(u)) /\ DOMAIN Trim(v) = 1..Len(Trim(u))
            BY <1>5, <1>6, <1>7
        <3> QED BY <1>6, <1>7, <3>1
    <2>3. CASE i + ku = L - k + 1
        <3>1. i + kv = L + 1
            BY <1>1, <1>5, <2>1, <2>3
        <3> QED BY <1>3, <1>4, <2>2, <2>3, <3>1
    <2>4. CASE i + ku \in 1..(L - k)
        <3>1. i + kv \in 1..L
            BY <1>1, <1>5, <2>1, <2>4
        <3> QED BY <1>3, <1>4, <2>1, <2>2, <2>4, <3>1
    <2> QED BY <1>1, <1>5, <2>1, <2>3, <2>4
<1>9. Trim(u) = Trim(v)
    BY <1>5, <1>6, <1>7, <1>8, SeqEqual
<1> QED BY <1>9 DEF u, v, t

\* e is not in r because Keep newer events are.
LEMMA HasIsPushedOut ==
    ASSUME NEW r, History(r), Len(r) <= Keep, NEW e \in Nat, Has(e, r)
    PROVE  e \in Events(r) \/ PushedOut(e, r)
<1> SUFFICES ASSUME e \notin Events(r) PROVE PushedOut(e, r)
    OBVIOUS
<1>1. Len(r) = Keep /\ \A i \in DOMAIN r : e < r[i]
    BY KeepAssumption DEF Has, History
<1>2. {x \in Events(r) : x > e} = Events(r)
    BY <1>1 DEF Events, History
<1>3. DOMAIN r = 1..Keep
    BY <1>1, KeepAssumption DEF History
<1>4. \A i, j \in 1..Keep : r[i] = r[j] => i = j
    <2> SUFFICES ASSUME NEW i \in 1..Keep, NEW j \in 1..Keep, r[i] = r[j], i # j PROVE FALSE
        OBVIOUS
    <2>1. r[i] \in Nat /\ r[j] \in Nat /\ i \in Nat /\ j \in Nat
        BY <1>3, KeepAssumption DEF History
    <2>2. r[i] < r[j] \/ r[j] < r[i]
        BY <1>3, <2>1 DEF History, InOrder
    <2> QED BY <2>1, <2>2
<1>5. [i \in 1..Keep |-> r[i]] \in Bijection(1..Keep, Events(r))
    BY <1>3, <1>4 DEF Events, Bijection, Injection, Surjection, IsInjective
<1>6. Cardinality(Events(r)) = Keep
    <2>1. ExistsBijection(1..Keep, Events(r))
        BY <1>5 DEF ExistsBijection
    <2>2. IsFiniteSet(1..Keep) /\ Cardinality(1..Keep) = Keep
        BY FS_Interval, KeepAssumption
    <2> QED BY <2>1, <2>2, FS_Bijection
<1> QED BY <1>2, <1>6 DEF PushedOut

(***************************************************************************)
(* The inductive invariant.                                                *)
(***************************************************************************)

\* The events of r are older than n.
Older(r, n) == \A x \in Events(r) : x < n

\* What a power loss or a restart may find: sound files with events before n.
DiskInv(f, rem, n) ==
    f \in rem /\ \A c \in rem : Sound(c) /\ Older(Parsed(c.lines), n)

\* The file f holds the history whose newest events are r, and nothing else.
CleanFile(f, r) == ~f.open /\ History(f.lines) /\ Trim(f.lines) = r

\* The events that every power loss would leave.
Durable(rem, ref, n) == {e \in (1..n) \ ref : \A c \in rem : e \in Events(Restored(c))}

\* The numbers given out so far, and the types of the flags.
NumbersInv ==
    /\ next \in Nat \ {0} /\ fileBytes \in Nat
    /\ {dirty, loadBlocked, lastError} \subseteq BOOLEAN
    /\ confirmed \subseteq 1..(next - 1) /\ refused \subseteq 1..(next - 1)
    /\ faults \in 0..MaxFaults /\ crashes \in 0..MaxCrashes

\* The ring is a history without the refused audits.
RingInv ==
    History(ring) /\ Len(ring) <= Keep /\ Older(ring, next) /\ refused \cap Events(ring) = {}

\* A file that no write failed on is the ring.
CleanInv == ~dirty /\ ~loadBlocked => CleanFile(file, ring) /\ fileBytes = Len(file.lines)

\* A refused audit is in a file only if its own write put it there, and only until the
\* next write succeeds; no audit is written while the file cannot be read.
RefusedInv ==
    /\ unsynced \subseteq refused
    /\ ~dirty \/ loadBlocked => unsynced = {}
    /\ \A c \in remains : refused \cap Events(Parsed(c.lines)) \subseteq unsynced

\* What happens while the file cannot be read is newer than what is in it.
BlockedInv ==
    loadBlocked => \A x \in Events(Parsed(file.lines)), y \in Events(ring) : x < y

\* What was promised is in every file, and in the ring.
KeptInv ==
    /\ \A e \in confirmed : \A c \in remains : Has(e, Restored(c))
    /\ ~loadBlocked => \A e \in confirmed \union Durable(remains, refused, next) : Has(e, ring)

LogInv ==
    NumbersInv /\ RingInv /\ DiskInv(file, remains, next) /\ CleanInv /\ RefusedInv /\ BlockedInv /\ KeptInv

\* The files of now are files of later.
LEMMA LaterDisk ==
    ASSUME NEW f, NEW rem, NEW n \in Nat, NEW m \in Nat, DiskInv(f, rem, n), n <= m
    PROVE  DiskInv(f, rem, m)
<1> SUFFICES ASSUME NEW c \in rem PROVE Sound(c) /\ Older(Parsed(c.lines), m)
    BY DEF DiskInv
<1>1. Sound(c) /\ Older(Parsed(c.lines), n)
    BY DEF DiskInv
<1>2. Events(Parsed(c.lines)) \subseteq Nat
    BY <1>1, EventsAreNumbers DEF Sound
<1> QED BY <1>1, <1>2 DEF Older

\* What a rewrite of the file with r leaves.
LEMMA RewriteKeeps ==
    ASSUME NEW f, NEW rem, NEW n \in Nat, NEW m \in Nat, DiskInv(f, rem, n), n <= m,
           NEW r, History(r), Len(r) <= Keep, Older(r, m), NEW out \in CompactOutcomes
    PROVE  LET d == compactLocked(f, r, rem, out)
           IN  /\ DiskInv(d.file, d.remains, m)
               /\ d.file \in {f, Closed(r)}
               /\ \A c \in d.remains : c \in rem \/ (Restored(c) = r /\ Parsed(c.lines) = r)
               /\ out = "ok" => d.file = Closed(r) /\ d.remains = {Closed(r)} /\ CleanFile(d.file, r)
               /\ out # "ok" => rem \subseteq d.remains
<1> DEFINE d == compactLocked(f, r, rem, out)
<1>1. /\ d.file \in d.remains
      /\ d.file \in {f, Closed(r)}
      /\ d.remains \subseteq rem \union {Closed(r)}
      /\ out = "ok" => d.file = Closed(r) /\ d.remains = {Closed(r)}
      /\ out # "ok" => rem \subseteq d.remains
    <2>1. CASE out = "ok"
        BY <2>1 DEF compactLocked
    <2>2. CASE out = "late"
        BY <2>2 DEF compactLocked
    <2>3. CASE out = "fail"
        BY <2>3 DEF compactLocked, DiskInv
    <2> QED BY <2>1, <2>2, <2>3 DEF CompactOutcomes
<1> HIDE DEF d
<1>2. /\ Sound(Closed(r)) /\ Parsed(Closed(r).lines) = r /\ Restored(Closed(r)) = r
      /\ Closed(r).lines = r /\ ~Closed(r).open
    BY SavedRing
<1>3. \A c \in rem : Sound(c) /\ Older(Parsed(c.lines), m)
    BY LaterDisk DEF DiskInv
<1>4. DiskInv(d.file, d.remains, m)
    BY <1>1, <1>2, <1>3 DEF DiskInv
<1>5. out = "ok" => CleanFile(d.file, r)
    BY <1>1, <1>2, TrimKeeps DEF CleanFile
<1> QED BY <1>1, <1>2, <1>4, <1>5 DEF d

\* What an append to a clean file leaves.
LEMMA AppendLineKeeps ==
    ASSUME NEW f, NEW rem, NEW n \in Nat \ {0}, DiskInv(f, rem, n),
           ~f.open, History(f.lines), Len(f.lines) + 1 <= FileLimit,
           NEW out \in AppendOutcomes
    PROVE  LET d == appendLineLocked(f, n, rem, out)
           IN  /\ DiskInv(d.file, d.remains, n + 1)
               /\ rem \subseteq d.remains
               /\ \A c \in d.remains :
                     c \in rem \/ Restored(c) \in {Trim(f.lines), Trim(Append(f.lines, n))}
               /\ \A c \in d.remains :
                     c \in rem \/ Events(Parsed(c.lines)) \subseteq Events(f.lines) \union {n}
               /\ out = "ok" => d.file = Closed(Append(f.lines, n)) /\ History(d.file.lines)
<1> DEFINE d == appendLineLocked(f, n, rem, out)
           s == f.lines
           W == {Written(f, n, p) : p \in {"ok", "torn", "noeol"}}
<1>1. s \in Seq(Nat \ {Torn}) /\ Len(s) \in Nat /\ n \in Nat \ {Torn} /\ Torn \in Nat
    BY DEF History, Torn
<1>2. Parsed(s) = s
    BY ParsedHistory
<1>3. \A x \in Events(s) : x < n
    BY <1>2 DEF DiskInv, Older
<1>4. History(Append(s, n)) /\ Events(Append(s, n)) = Events(s) \union {n}
    <2>1. \A i \in DOMAIN s : s[i] < n
        BY <1>3 DEF Events
    <2> QED BY <1>1, <2>1, AppendKeeps
<1>5. /\ d.file \in d.remains
      /\ rem \subseteq d.remains
      /\ d.remains \subseteq rem \union W
      /\ out = "ok" => d.file = Written(f, n, "ok")
    <2>1. CASE out = "none"
        BY <2>1 DEF appendLineLocked, DiskInv
    <2>2. CASE out \in {"torn", "noeol"}
        BY <2>2 DEF appendLineLocked
    <2>3. CASE out \in {"ok", "late"}
        BY <2>3 DEF appendLineLocked
    <2> QED BY <2>1, <2>2, <2>3 DEF AppendOutcomes
<1> HIDE DEF d
<1>6. /\ Written(f, n, "ok") = Closed(Append(s, n))
      /\ Written(f, n, "noeol") = [lines |-> Append(s, n), open |-> TRUE]
      /\ Written(f, n, "torn") = [lines |-> Append(s, Torn), open |-> TRUE]
    BY DEF Written, Closed
<1>7. ASSUME NEW c \in W
      PROVE  /\ Sound(c) /\ Older(Parsed(c.lines), n + 1)
             /\ Restored(c) \in {Trim(s), Trim(Append(s, n))}
             /\ Events(Parsed(c.lines)) \subseteq Events(s) \union {n}
    <2>0. \A x \in Events(s) : x \in Nat
        BY <1>1 DEF Events
    <2>1. CASE c.lines = Append(s, n) /\ c \in Content
        <3>1. Len(c.lines) = Len(s) + 1
            BY <1>1, <2>1
        <3>2. Sound(c) /\ Parsed(c.lines) = Append(s, n) /\ Restored(c) = Trim(Append(s, n))
            BY <1>4, <2>1, <3>1, SoundContent
        <3> QED BY <1>3, <1>4, <2>0, <3>2 DEF Older
    <2>2. CASE c.lines = Append(s, Torn) /\ c \in Content
        <3>1. Len(c.lines) = Len(s) + 1
            BY <1>1, <2>2
        <3>2. Sound(c) /\ Parsed(c.lines) = s /\ Restored(c) = Trim(s)
            BY <2>2, <3>1, SoundContent
        <3> QED BY <1>3, <2>0, <3>2 DEF Older
    <2> DEFINE u == Append(s, n)
               v == Append(s, Torn)
    <2>3. u \in Seq(Nat) /\ v \in Seq(Nat)
        BY <1>1
    <2> HIDE DEF u, v
    <2>4. c \in {Closed(u), [lines |-> u, open |-> TRUE], [lines |-> v, open |-> TRUE]}
        BY <1>6 DEF u, v
    <2>5. c \in Content /\ c.lines \in {u, v}
        <3>1. \A x \in Seq(Nat), o \in BOOLEAN :
                 [lines |-> x, open |-> o] \in Content /\ [lines |-> x, open |-> o].lines = x
            BY DEF Content
        <3>2. PICK x \in {u, v}, o \in BOOLEAN : c = [lines |-> x, open |-> o]
            BY <2>4 DEF Closed
        <3> QED BY <2>3, <3>1, <3>2
    <2> QED BY <2>1, <2>2, <2>5 DEF u, v
<1>8. \A c \in rem : Sound(c) /\ Older(Parsed(c.lines), n + 1)
    <2>1. n + 1 \in Nat /\ n <= n + 1
        OBVIOUS
    <2> QED BY <2>1, LaterDisk DEF DiskInv
<1>9. DiskInv(d.file, d.remains, n + 1)
    <2> HIDE DEF W
    <2> QED BY <1>5, <1>7, <1>8 DEF DiskInv
<1>10. \A c \in d.remains : \/ c \in rem
                          \/ /\ Restored(c) \in {Trim(s), Trim(Append(s, n))}
                             /\ Events(Parsed(c.lines)) \subseteq Events(s) \union {n}
    <2> HIDE DEF W
    <2> QED BY <1>5, <1>7
<1>11. out = "ok" => d.file = Closed(Append(s, n)) /\ History(d.file.lines)
    <2>1. Closed(Append(s, n)).lines = Append(s, n)
        BY DEF Closed
    <2> QED BY <1>4, <1>5, <1>6, <2>1
<1> QED BY <1>5, <1>9, <1>10, <1>11 DEF d

\* The file f, in the files rem, was read with the outcome out: l is the result.
LoadFacts(f, rem, n, out, l) ==
    LET r == Restored(f)
    IN  /\ l.ring = r /\ l.ok = (out = "ok") /\ l.bytes \in Nat
        /\ DiskInv(l.file, l.remains, n)
        /\ Events(Parsed(l.file.lines)) \subseteq Events(Parsed(f.lines))
        /\ \A c \in l.remains : c \in rem \/ (Restored(c) = r /\ Parsed(c.lines) = r)
        /\ \A e : (\A c \in l.remains : e \in Events(Restored(c))) => e \in Events(r)
        /\ l.ok => CleanFile(l.file, r) /\ l.bytes = Len(l.file.lines)

\* What a start, or a later attempt to read the file, leaves.
LEMMA LoadKeeps ==
    ASSUME NEW f, NEW rem, NEW n \in Nat, DiskInv(f, rem, n), NEW bytes \in Nat,
           NEW out \in LoadOutcomes
    PROVE  LoadFacts(f, rem, n, out, load(f, rem, bytes, out))
<1> DEFINE l == load(f, rem, bytes, out)
           r == Restored(f)
           compacts == out # "unreadable" /\ NeedsCompact(f)
           d == compactLocked(f, r, rem, out)
<1>1. /\ f \in rem /\ Sound(f) /\ Older(Parsed(f.lines), n)
      /\ r = Trim(Parsed(f.lines)) /\ History(r) /\ Len(r) <= Keep
      /\ Events(r) \subseteq Events(Parsed(f.lines))
    BY SoundRestored DEF DiskInv
<1>2. Older(r, n) /\ Len(f.lines) \in Nat /\ Len(r) \in Nat
    BY <1>1 DEF Older, Sound, Content, History
<1>3. Parsed(Closed(r).lines) = r /\ Restored(Closed(r)) = r /\ Closed(r).lines = r
    BY <1>1, SavedRing
<1> HIDE DEF r
<1>4. l.ring = r /\ l.ok = (out = "ok")
    BY DEF load, r
<1>5. CASE compacts
    <2>1. out \in CompactOutcomes
        BY <1>5 DEF LoadOutcomes
    <2>2. /\ l.file = d.file /\ l.remains = d.remains
          /\ l.bytes = IF out = "ok" THEN Len(r) ELSE Len(f.lines)
        BY <1>5 DEF load, r
    <2>3. /\ DiskInv(d.file, d.remains, n)
          /\ d.file \in {f, Closed(r)}
          /\ \A c \in d.remains : c \in rem \/ (Restored(c) = r /\ Parsed(c.lines) = r)
          /\ out = "ok" => d.file = Closed(r) /\ d.remains = {Closed(r)} /\ CleanFile(d.file, r)
          /\ out # "ok" => rem \subseteq d.remains
        BY <1>1, <1>2, <2>1, RewriteKeeps
    <2> HIDE DEF l, d
    <2>4. Events(Parsed(l.file.lines)) \subseteq Events(Parsed(f.lines))
        BY <1>1, <1>3, <2>2, <2>3
    <2>5. ASSUME NEW e, \A c \in l.remains : e \in Events(Restored(c)) PROVE e \in Events(r)
        <3>1. CASE out = "ok"
            BY <1>3, <2>2, <2>3, <2>5, <3>1
        <3>2. CASE out # "ok"
            BY <1>1, <2>2, <2>3, <2>5, <3>2 DEF r
        <3> QED BY <3>1, <3>2
    <2>6. /\ l.bytes \in Nat /\ DiskInv(l.file, l.remains, n)
          /\ \A c \in l.remains : c \in rem \/ (Restored(c) = r /\ Parsed(c.lines) = r)
          /\ l.ok => CleanFile(l.file, r) /\ l.bytes = Len(l.file.lines)
        <3>1. l.bytes \in Nat
            BY <1>2, <2>2
        <3>2. DiskInv(l.file, l.remains, n) /\ \A c \in l.remains : c \in rem \/ (Restored(c) = r /\ Parsed(c.lines) = r)
            BY <2>2, <2>3, Zenon
        <3>3. ASSUME l.ok PROVE CleanFile(l.file, r) /\ l.bytes = Len(l.file.lines)
            <4>1. out = "ok"
                BY <1>4, <3>3
            <4> QED BY <1>3, <2>2, <2>3, <4>1
        <3> QED BY <3>1, <3>2, <3>3
    <2> QED BY <1>4, <2>4, <2>5, <2>6, Zenon DEF LoadFacts, l, r
<1>6. CASE ~compacts
    <2>1. /\ l.file = f /\ l.remains = rem
          /\ l.bytes = IF out = "unreadable" THEN bytes ELSE Len(f.lines)
        BY <1>6 DEF load, r
    <2>2. ASSUME l.ok PROVE CleanFile(f, r) /\ l.bytes = Len(f.lines)
        <3>1. out = "ok" /\ ~NeedsCompact(f)
            BY <1>4, <1>6, <2>2
        <3>2. ~f.open /\ \A i \in DOMAIN f.lines : f.lines[i] # Torn
            BY <3>1 DEF NeedsCompact
        <3>3. f.lines = Parsed(f.lines)
            <4> DEFINE h == Parsed(f.lines)
            <4>1. h \in Seq(Nat) /\ Torn \in Nat
                BY <1>1 DEF Sound, History, Torn
            <4> HIDE DEF h
            <4>2. Append(h, Torn)[Len(h) + 1] = Torn /\ Len(h) + 1 \in DOMAIN Append(h, Torn)
                BY <4>1
            <4>3. f.lines # Append(h, Torn)
                BY <3>2, <4>2
            <4> QED BY <1>1, <4>3 DEF Sound, h
        <3>4. History(f.lines)
            BY <1>1, <3>3 DEF Sound
        <3> QED BY <1>1, <2>1, <3>1, <3>2, <3>3, <3>4 DEF CleanFile
    <2> HIDE DEF l
    <2>3. \A e : (\A c \in l.remains : e \in Events(Restored(c))) => e \in Events(r)
        BY <1>1, <2>1 DEF r
    <2>4. /\ l.bytes \in Nat /\ DiskInv(l.file, l.remains, n)
          /\ Events(Parsed(l.file.lines)) \subseteq Events(Parsed(f.lines))
          /\ \A c \in l.remains : c \in rem \/ (Restored(c) = r /\ Parsed(c.lines) = r)
          /\ l.ok => CleanFile(l.file, r) /\ l.bytes = Len(l.file.lines)
        BY <1>1, <1>2, <2>1, <2>2
    <2> QED BY <1>4, <2>3, <2>4, Zenon DEF LoadFacts, l, r
<1> QED BY <1>5, <1>6

\* The numbers that the promises are about.
Kept == confirmed \union Durable(remains, refused, next)

\* No step takes away what was promised.
KeptStep == \A e \in Kept : \A c \in remains' : Has(e, Restored(c))

\* What is durable is not newer than the files it is in, and more files and more
\* refusals make no more events durable.
LEMMA DurableShrinks ==
    ASSUME NEW f, NEW rem, NEW n \in Nat, DiskInv(f, rem, n),
           NEW more, rem \subseteq more, NEW ref, NEW refs, ref \subseteq refs, NEW m \in Nat
    PROVE  Durable(more, refs, m) \subseteq Durable(rem, ref, n)
<1> SUFFICES ASSUME NEW e \in Durable(more, refs, m) PROVE e \in Durable(rem, ref, n)
    OBVIOUS
<1>1. e \in 1..m /\ e \notin ref /\ \A c \in rem : e \in Events(Restored(c))
    BY DEF Durable
<1>2. f \in rem /\ Sound(f) /\ Older(Parsed(f.lines), n)
    BY DEF DiskInv
<1>3. e \in Events(Parsed(f.lines))
    BY <1>1, <1>2, SoundRestored
<1>4. e < n
    BY <1>2, <1>3 DEF Older
<1> QED BY <1>1, <1>4 DEF Durable

\* A file that was there, or one that holds what was promised, breaks no promise.
LEMMA KeptNext ==
    ASSUME LogInv, \A c \in remains' : c \in remains \/ \A e \in Kept : Has(e, Restored(c))
    PROVE  KeptStep
BY DEF LogInv, KeptInv, KeptStep, Kept, Durable, Has

\* The numbers that were promised are numbers.
LEMMA KeptNumbers == LogInv => Kept \subseteq Nat
<1> SUFFICES ASSUME LogInv PROVE Kept \subseteq Nat
    OBVIOUS
<1>1. next \in Nat /\ confirmed \subseteq 1..(next - 1)
    BY DEF LogInv, NumbersInv
<1>2. SUFFICES ASSUME NEW e \in Kept PROVE e \in Nat
    OBVIOUS
<1>3. e \in 1..(next - 1) \/ e \in 1..next
    BY <1>1 DEF Kept, Durable
<1> QED BY <1>1, <1>3

\* The ring with one event more.
LEMMA RingGrows ==
    ASSUME LogInv, NEW g, g = Trim(Append(ring, next))
    PROVE  /\ History(g) /\ Len(g) <= Keep /\ Older(g, next + 1)
           /\ Events(g) \subseteq Events(ring) \union {next}
           /\ next \in Events(g)
           /\ refused \cap Events(g) = {}
           /\ \A e \in Nat : Has(e, ring) => Has(e, g)
<1> DEFINE u == Append(ring, next)
<1>1. /\ History(ring) /\ Older(ring, next) /\ next \in Nat \ {Torn}
      /\ refused \cap Events(ring) = {} /\ next \notin refused
    BY DEF LogInv, RingInv, NumbersInv, Torn
<1>2. \A i \in DOMAIN ring : ring[i] < next
    BY <1>1 DEF Older, Events
<1>3. /\ History(u) /\ Events(u) = Events(ring) \union {next}
      /\ \A e \in Nat : Has(e, ring) => Has(e, u)
    BY <1>1, <1>2, AppendKeeps
<1>4. Has(next, u)
    BY <1>3 DEF Has
<1> HIDE DEF u
<1>5. /\ History(g) /\ Len(g) <= Keep /\ Events(g) \subseteq Events(u)
      /\ \A e \in Nat : Has(e, u) => Has(e, g)
    BY <1>3, TrimKeeps DEF u
<1>6. Older(g, next + 1)
    <2>1. \A x \in Events(ring) : x \in Nat
        BY <1>1 DEF History, Events
    <2> QED BY <1>1, <1>3, <1>5, <2>1 DEF Older
<1>7. next \in Events(g)
    <2> SUFFICES ASSUME next \notin Events(g) PROVE FALSE
        OBVIOUS
    <2>1. Len(g) >= Keep /\ \A i \in DOMAIN g : next < g[i]
        BY <1>1, <1>4, <1>5 DEF Has
    <2>2. 1 \in DOMAIN g
        BY <1>5, <2>1, KeepAssumption DEF History
    <2>3. g[1] \in Nat /\ g[1] \in Events(g)
        BY <1>5, <2>2 DEF History, Events
    <2> QED BY <1>1, <1>6, <2>1, <2>2, <2>3 DEF Older
<1> QED BY <1>1, <1>3, <1>5, <1>6, <1>7

\* The events of the file followed by those that came while it could not be read.
LEMMA RingMerges ==
    ASSUME LogInv, loadBlocked, NEW g, g = Trim(Append(ring, next)),
           NEW r, r = Restored(file), NEW m, m = Trim(r \o g)
    PROVE  /\ History(m) /\ Len(m) <= Keep /\ Older(m, next + 1)
           /\ refused \cap Events(m) = {}
           /\ \A e \in Nat : Has(e, r) => Has(e, m)
<1>1. /\ History(g) /\ Older(g, next + 1) /\ Events(g) \subseteq Events(ring) \union {next}
      /\ refused \cap Events(g) = {}
    BY RingGrows
<1>2. /\ Sound(file) /\ Older(Parsed(file.lines), next) /\ next \in Nat
      /\ refused \subseteq 1..(next - 1)
    BY DEF LogInv, DiskInv, NumbersInv
<1>3. History(r) /\ Events(r) \subseteq Events(Parsed(file.lines))
    BY <1>2, SoundRestored
<1>4. \A x \in Events(r) : x \in Nat /\ x < next
    <2>1. \A x \in Events(r) : x \in Nat /\ x \in Events(Parsed(file.lines))
        BY <1>3, EventsAreNumbers
    <2> QED BY <1>2, <2>1 DEF Older
<1>5. \A x \in Events(r), y \in Events(ring) : x < y
    BY <1>3 DEF LogInv, BlockedInv
<1>6. \A x \in Events(r), y \in Events(g) : x < y
    BY <1>1, <1>4, <1>5
<1>7. /\ History(r \o g) /\ Events(r \o g) = Events(r) \union Events(g)
      /\ \A e \in Nat : Has(e, r) => Has(e, r \o g)
    BY <1>1, <1>3, <1>6, JoinKeeps
<1>8. /\ History(m) /\ Len(m) <= Keep /\ Events(m) \subseteq Events(r) \union Events(g)
      /\ \A e \in Nat : Has(e, r) => Has(e, m)
    BY <1>7, TrimKeeps
<1>9. Older(m, next + 1)
    BY <1>1, <1>2, <1>4, <1>8 DEF Older
<1>10. refused \cap Events(m) = {}
    <2>1. \A x \in Events(r) : x \notin refused
        <3>1. file \in remains
            BY DEF LogInv, DiskInv
        <3>2. refused \cap Events(Parsed(file.lines)) = {}
            BY <3>1 DEF LogInv, RefusedInv
        <3> QED BY <1>3, <3>2
    <2> QED BY <1>1, <1>8, <2>1
<1> QED BY <1>8, <1>9, <1>10

\* A file rewritten with the ring r is clean.
LEMMA RewrittenIsClean ==
    ASSUME NEW r, History(r), Len(r) <= Keep
    PROVE  CleanFile(Closed(r), r) /\ Closed(r).lines = r /\ Restored(Closed(r)) = r
BY SavedRing, TrimKeeps DEF CleanFile

(***************************************************************************)
(* The invariant holds at the start.                                       *)
(***************************************************************************)

\* Whatever an earlier version left, the first start brings it into order.
LEMMA LogInit == Init => LogInv
<1> SUFFICES ASSUME Init PROVE LogInv
    OBVIOUS
<1> DEFINE L(f) == load(f, {f}, 0, "ok")
<1>1. PICK f \in InitialFiles :
         /\ ring = L(f).ring /\ file = L(f).file /\ remains = L(f).remains
         /\ fileBytes = L(f).bytes
         /\ dirty = FALSE /\ loadBlocked = FALSE /\ lastError = FALSE
         /\ next = Len(f.lines) + 1
         /\ confirmed = {} /\ refused = {} /\ unsynced = {} /\ faults = 0 /\ crashes = 0
    BY DEF Init
<1> DEFINE s == f.lines
           w == Window(s)
           p == Parsed(w)
           r == Restored(f)
           n == Len(s)
<1>2. s \in Seq(Nat) /\ n \in Nat /\ f.open \in BOOLEAN /\ \A i \in 1..n : s[i] \in {Torn, i}
    <2>1. f \in [lines : Seq(Nat), open : BOOLEAN] /\ \A i \in DOMAIN s : s[i] \in {0, i}
        BY FilesAssumption
    <2>2. s \in Seq(Nat) /\ f.open \in BOOLEAN
        BY <2>1
    <2> HIDE DEF s
    <2> QED BY <2>1, <2>2 DEF Torn
<1>3. History(p) /\ Older(p, n + 1)
    <2> DEFINE k == IF n > FileLimit THEN n - FileLimit ELSE 0
               v == Newest(s, FileLimit)
    <2> HIDE DEF s, n
    <2>1. k \in Nat /\ FileLimit \in Nat
        BY <1>2, LimitAssumption
    <2>2. v \in Seq(Nat) /\ Len(v) = n - k /\ \A i \in DOMAIN v : v[i] = s[i + k] /\ i + k \in DOMAIN s
        BY <1>2, <2>1, NewestFacts DEF n
    <2>3. CASE w = s
        <3>1. \A i \in 1..Len(s) : s[i] \in {Torn, i + 0}
            BY <1>2 DEF n
        <3>2. History(Parsed(s)) /\ \A i \in DOMAIN Parsed(s) : Parsed(s)[i] <= n + 0
            BY <1>2, <3>1, ParsedLegacy DEF n
        <3>3. \A x \in Events(Parsed(s)) : x <= n /\ x \in Nat
            BY <1>2, <3>2, EventsAreNumbers DEF Events
        <3> QED BY <1>2, <2>3, <3>2, <3>3 DEF Older
    <2>4. CASE w = v
        <3> HIDE DEF k, v
        <3>1. \A i \in 1..Len(v) : v[i] \in {Torn, i + k}
            BY <1>2, <2>1, <2>2 DEF n
        <3>2. History(Parsed(v)) /\ \A i \in DOMAIN Parsed(v) : Parsed(v)[i] <= Len(v) + k
            BY <2>1, <2>2, <3>1, ParsedLegacy
        <3>3. Len(v) + k = n
            BY <1>2, <2>1, <2>2
        <3>4. \A x \in Events(Parsed(v)) : x <= n /\ x \in Nat
            BY <1>2, <3>2, <3>3, EventsAreNumbers DEF Events
        <3> QED BY <1>2, <2>4, <3>2, <3>4 DEF Older
    <2> QED BY <2>3, <2>4 DEF Window
<1>4. /\ r = Trim(p) /\ History(r) /\ Len(r) <= Keep
      /\ Events(r) \subseteq Events(p)
    BY <1>3, TrimKeeps DEF Restored
<1>5. Older(r, n + 1) /\ Len(r) \in Nat
    BY <1>3, <1>4 DEF Older, History
<1> HIDE DEF r, p, w
<1>6. /\ ring = r /\ fileBytes = Len(file.lines) /\ remains = {file}
      /\ Sound(file) /\ Older(Parsed(file.lines), n + 1) /\ Restored(file) = r
      /\ CleanFile(file, r)
    <2>1. CASE NeedsCompact(f)
        <3>1. file = Closed(r) /\ remains = {Closed(r)} /\ fileBytes = Len(r) /\ ring = r
            BY <1>1, <2>1 DEF load, compactLocked, r
        <3> QED BY <1>4, <1>5, <3>1, SavedRing, RewrittenIsClean
    <2>2. CASE ~NeedsCompact(f)
        <3>1. file = f /\ remains = {f} /\ fileBytes = n /\ ring = r
            BY <1>1, <2>2 DEF load, r
        <3>2. ~f.open /\ n <= Keep /\ \A i \in 1..n : s[i] # Torn
            BY <1>2, <2>2, KeepAssumption DEF NeedsCompact
        <3>3. f \in Content
            BY FilesAssumption DEF Content
        <3> HIDE DEF s, n
        <3>4. \A i \in 1..n : s[i] = i
            BY <1>2, <3>2
        <3>5. s \in Seq(Nat \ {Torn}) /\ DOMAIN s = 1..n
            BY <1>2, <3>2 DEF n
        <3>6. History(s)
            BY <1>2, <3>4, <3>5 DEF History, InOrder
        <3>7. Events(s) \subseteq 1..n
            BY <3>4, <3>5 DEF Events
        <3>8. Sound(f) /\ Parsed(s) = s /\ r = Trim(s)
            <4>1. n <= FileLimit
                BY <1>2, <3>2, LimitAssumption, KeepAssumption
            <4> QED BY <3>3, <3>6, <4>1, SoundContent DEF r, s, n
        <3>9. Older(s, n + 1)
            BY <1>2, <3>7 DEF Older
        <3> QED BY <3>1, <3>2, <3>6, <3>8, <3>9 DEF CleanFile, r, s, n
    <2> QED BY <2>1, <2>2
<1> HIDE DEF L, s, n
<1>7. next = n + 1 /\ fileBytes \in Nat
    BY <1>1, <1>6 DEF CleanFile, History, s, n
<1>8. NumbersInv
    <2>1. MaxFaults \in Nat /\ MaxCrashes \in Nat
        BY BoundsAssumption
    <2>2. dirty \in BOOLEAN /\ loadBlocked \in BOOLEAN /\ lastError \in BOOLEAN
        BY <1>1
    <2>3. faults \in 0..MaxFaults /\ crashes \in 0..MaxCrashes
        BY <1>1, <2>1
    <2>4. next \in Nat \ {0} /\ confirmed \subseteq 1..(next - 1) /\ refused \subseteq 1..(next - 1)
        BY <1>1, <1>2, <1>7
    <2> QED BY <1>7, <2>2, <2>3, <2>4, Zenon DEF NumbersInv
<1>9. RingInv
    BY <1>1, <1>4, <1>5, <1>6, <1>7 DEF RingInv
<1>10. DiskInv(file, remains, next)
    BY <1>6, <1>7 DEF DiskInv
<1>11. CleanInv /\ BlockedInv /\ RefusedInv
    BY <1>1, <1>6 DEF CleanInv, BlockedInv, RefusedInv
<1>12. KeptInv
    BY <1>1, <1>6 DEF KeptInv, Durable, Has
<1> QED BY <1>8, <1>9, <1>10, <1>11, <1>12 DEF LogInv

(***************************************************************************)
(* Every step keeps it, and what was promised.                             *)
(***************************************************************************)

\* What the numbers are before a step.
LEMMA Numbers ==
    LogInv => /\ next \in Nat \ {0} /\ next + 1 \in Nat \ {0} /\ next <= next + 1
              /\ next - 1 \in Int /\ fileBytes \in Nat
              /\ dirty \in BOOLEAN /\ loadBlocked \in BOOLEAN /\ lastError \in BOOLEAN
              /\ confirmed \subseteq 1..(next - 1) /\ refused \subseteq 1..(next - 1)
              /\ faults \in Nat /\ MaxFaults \in Nat
              /\ crashes \in 0..MaxCrashes /\ faults \in 0..MaxFaults
BY BoundsAssumption DEF LogInv, NumbersInv

\* An event that waits while the file cannot be read, or ends that wait.
LEMMA AddBlockedKeeps ==
    ASSUME LogInv, NEW loaded \in LoadOutcomes, NEW out \in CompactOutcomes,
           AddBlocked(loaded, out), next' = next + 1, UNCHANGED <<confirmed, refused, crashes>>,
           unsynced' = IF dirty' THEN unsynced ELSE {}
    PROVE  LogInv' /\ KeptStep
<1> DEFINE g == Trim(Append(ring, next))
           r == Restored(file)
           l == load(file, remains, fileBytes, loaded)
           m == Trim(r \o g)
           d == compactLocked(l.file, m, l.remains, out)
<1>1. loadBlocked /\ DiskInv(file, remains, next)
    BY DEF AddBlocked, LogInv
<1>2. /\ History(g) /\ Len(g) <= Keep /\ Older(g, next + 1)
      /\ Events(g) \subseteq Events(ring) \union {next}
      /\ refused \cap Events(g) = {}
      /\ \A e \in Nat : Has(e, ring) => Has(e, g)
    BY RingGrows
<1>3. /\ History(m) /\ Len(m) <= Keep /\ Older(m, next + 1)
      /\ refused \cap Events(m) = {}
      /\ \A e \in Nat : Has(e, r) => Has(e, m)
    BY <1>1, RingMerges
<1>4. /\ l.ring = r /\ l.ok = (loaded = "ok") /\ l.bytes \in Nat
      /\ DiskInv(l.file, l.remains, next)
      /\ Events(Parsed(l.file.lines)) \subseteq Events(Parsed(file.lines))
      /\ \A c \in l.remains : c \in remains \/ (Restored(c) = r /\ Parsed(c.lines) = r)
      /\ \A e : (\A c \in l.remains : e \in Events(Restored(c))) => e \in Events(r)
    <2>1. next \in Nat /\ fileBytes \in Nat
        BY Numbers
    <2>2. LoadFacts(file, remains, next, loaded, l)
        BY <1>1, <2>1, LoadKeeps
    <2> HIDE DEF l
    <2> QED BY <2>2, Zenon DEF LoadFacts
<1>5. \A e \in Kept : e \in Nat /\ Has(e, r) /\ Has(e, m)
    <2>1. file \in remains
        BY <1>1 DEF DiskInv
    <2>2. \A e \in Kept : Has(e, r)
        BY <2>1 DEF LogInv, KeptInv, Kept, Durable, Has
    <2> QED BY <1>3, <2>2, KeptNumbers
<1>6. /\ faults + Fault(loaded) + Fault(out) <= MaxFaults
      /\ faults' = faults + Fault(loaded) + Fault(out)
    BY DEF AddBlocked
<1>7. faults' \in 0..MaxFaults /\ crashes' \in 0..MaxCrashes
    <2>1. Fault(loaded) \in Nat /\ Fault(out) \in Nat
        BY DEF Fault
    <2> QED BY <1>6, <2>1, Numbers
<1>70. /\ unsynced = {} /\ unsynced' = {} /\ refused' = refused
       /\ \A c \in remains : refused \cap Events(Parsed(c.lines)) = {}
       /\ refused \cap Events(r) = {}
    <2>1. unsynced = {} /\ \A c \in remains : refused \cap Events(Parsed(c.lines)) = {}
        BY <1>1 DEF LogInv, RefusedInv
    <2>2. file \in remains /\ Sound(file)
        BY <1>1 DEF DiskInv
    <2> QED BY <2>1, <2>2, SoundRestored
<1>8. CASE loaded = "ok"
    <2>1. /\ ring' = m /\ file' = d.file /\ remains' = d.remains
          /\ fileBytes' = IF out = "ok" THEN Len(m) ELSE l.bytes
          /\ loadBlocked' = FALSE /\ dirty' = (out # "ok") /\ lastError' = (out # "ok")
        BY <1>4, <1>8 DEF AddBlocked, Settle
    <2>2. /\ DiskInv(d.file, d.remains, next + 1)
          /\ \A c \in d.remains : c \in l.remains \/ (Restored(c) = m /\ Parsed(c.lines) = m)
          /\ out = "ok" => d.file = Closed(m) /\ d.remains = {Closed(m)} /\ CleanFile(d.file, m)
          /\ out # "ok" => l.remains \subseteq d.remains
        BY <1>3, <1>4, Numbers, RewriteKeeps
    <2>3. Closed(m).lines = m /\ Restored(Closed(m)) = m /\ Parsed(Closed(m).lines) = m
        BY <1>3, SavedRing
    <2> HIDE DEF g, r, l, m, d
    <2>4. NumbersInv'
        <3>1. fileBytes' \in Nat
            BY <1>3, <1>4, <2>1 DEF History
        <3>2. dirty' \in BOOLEAN /\ loadBlocked' \in BOOLEAN /\ lastError' \in BOOLEAN
            BY <2>1
        <3>3. next' \in Nat \ {0} /\ confirmed' \subseteq 1..(next' - 1) /\ refused' \subseteq 1..(next' - 1)
            BY Numbers
        <3> QED BY <1>7, <3>1, <3>2, <3>3, Zenon DEF NumbersInv
    <2>5. RingInv'
        BY <1>3, <2>1 DEF RingInv
    <2>6. CleanInv'
        BY <1>3, <2>1, <2>2, <2>3 DEF CleanInv
    <2>7. BlockedInv'
        BY <2>1 DEF BlockedInv
    <2>70. RefusedInv'
        <3>1. ASSUME NEW c \in remains' PROVE refused \cap Events(Parsed(c.lines)) = {}
            BY <1>3, <1>4, <1>70, <2>1, <2>2
        <3> QED BY <1>70, <3>1 DEF RefusedInv
    <2>8. KeptStep
        <3>1. \A c \in remains' : c \in remains \/ Restored(c) \in {r, m}
            BY <1>4, <2>1, <2>2
        <3> QED BY <1>5, <3>1, KeptNext
    <2>9. \A e \in Durable(remains, refused, next)' : Has(e, m)
        <3> SUFFICES ASSUME NEW e \in Durable(remains', refused', next') PROVE Has(e, m)
            OBVIOUS
        <3>1. e \in Nat /\ \A c \in remains' : e \in Events(Restored(c))
            BY Numbers DEF Durable
        <3>2. CASE out = "ok"
            BY <2>1, <2>2, <2>3, <3>1, <3>2 DEF Has
        <3>3. CASE out # "ok"
            <4>1. e \in Events(r)
                BY <1>4, <2>1, <2>2, <3>1, <3>3
            <4> QED BY <1>3, <3>1, <4>1 DEF Has
        <3> QED BY <3>2, <3>3
    <2>10. KeptInv'
        BY <1>5, <2>1, <2>8, <2>9 DEF KeptInv, KeptStep, Kept
    <2> QED BY <2>1, <2>2, <2>4, <2>5, <2>6, <2>7, <2>70, <2>8, <2>10 DEF LogInv
<1>9. CASE loaded # "ok"
    <2>1. /\ ring' = g /\ file' = l.file /\ remains' = l.remains /\ fileBytes' = l.bytes
          /\ loadBlocked' = TRUE /\ dirty' = dirty /\ lastError' = TRUE
        BY <1>4, <1>9, Numbers DEF AddBlocked, Settle
    <2> HIDE DEF g, r, l, m, d
    <2>2. NumbersInv'
        BY <1>4, <1>7, <2>1, Numbers DEF NumbersInv
    <2>3. RingInv'
        BY <1>2, <2>1 DEF RingInv
    <2>4. DiskInv(file', remains', next')
        BY <1>4, <2>1, Numbers, LaterDisk
    <2>5. CleanInv'
        BY <2>1 DEF CleanInv
    <2>6. BlockedInv'
        <3>1. \A x \in Events(Parsed(file.lines)) : x < next
            BY <1>1 DEF DiskInv, Older
        <3>2. \A x \in Events(Parsed(file.lines)), y \in Events(ring) : x < y
            BY <1>1 DEF LogInv, BlockedInv
        <3> QED BY <1>2, <1>4, <2>1, <3>1, <3>2 DEF BlockedInv
    <2>60. RefusedInv'
        <3>1. ASSUME NEW c \in remains' PROVE refused \cap Events(Parsed(c.lines)) = {}
            BY <1>4, <1>70, <2>1
        <3> QED BY <1>70, <3>1 DEF RefusedInv
    <2>7. KeptStep
        BY <1>4, <1>5, <2>1, KeptNext
    <2>8. KeptInv'
        BY <2>1, <2>7 DEF KeptInv, KeptStep, Kept
    <2> QED BY <2>2, <2>3, <2>4, <2>5, <2>6, <2>60, <2>7, <2>8 DEF LogInv
<1> QED BY <1>8, <1>9

\* An event that rewrites the file.
LEMMA AddCompactKeeps ==
    ASSUME LogInv, NEW out \in CompactOutcomes, AddCompact(out),
           next' = next + 1, UNCHANGED <<confirmed, refused, crashes>>,
           unsynced' = IF dirty' THEN unsynced ELSE {}
    PROVE  LogInv' /\ KeptStep
<1> DEFINE g == Trim(Append(ring, next))
           d == compactLocked(file, g, remains, out)
<1>1. ~loadBlocked /\ DiskInv(file, remains, next)
    BY DEF AddCompact, LogInv
<1>2. /\ History(g) /\ Len(g) <= Keep /\ Older(g, next + 1)
      /\ refused \cap Events(g) = {}
      /\ \A e \in Nat : Has(e, ring) => Has(e, g)
    BY RingGrows
<1>3. /\ ring' = g /\ file' = d.file /\ remains' = d.remains
      /\ fileBytes' = IF out = "ok" THEN Len(g) ELSE fileBytes
      /\ loadBlocked' = FALSE /\ dirty' = (out # "ok") /\ lastError' = (out # "ok")
      /\ faults + Fault(out) <= MaxFaults /\ faults' = faults + Fault(out)
    BY DEF AddCompact, Settle
<1>4. /\ DiskInv(d.file, d.remains, next + 1)
      /\ \A c \in d.remains : c \in remains \/ (Restored(c) = g /\ Parsed(c.lines) = g)
      /\ out = "ok" => d.file = Closed(g) /\ d.remains = {Closed(g)} /\ CleanFile(d.file, g)
      /\ out # "ok" => remains \subseteq d.remains
    BY <1>1, <1>2, Numbers, RewriteKeeps
<1>5. Closed(g).lines = g /\ Restored(Closed(g)) = g /\ Parsed(Closed(g).lines) = g
    BY <1>2, SavedRing
<1> HIDE DEF g, d
<1>6. \A e \in Kept : e \in Nat /\ Has(e, ring) /\ Has(e, g)
    BY <1>1, <1>2, KeptNumbers DEF LogInv, KeptInv, Kept
<1>7. NumbersInv'
    <2>1. fileBytes' \in Nat
        BY <1>2, <1>3, Numbers DEF History
    <2>2. dirty' \in BOOLEAN /\ loadBlocked' \in BOOLEAN /\ lastError' \in BOOLEAN
        BY <1>3
    <2>3. next' \in Nat \ {0} /\ confirmed' \subseteq 1..(next' - 1) /\ refused' \subseteq 1..(next' - 1)
        BY Numbers
    <2>4. faults' \in 0..MaxFaults /\ crashes' \in 0..MaxCrashes
        BY <1>3, Numbers DEF Fault
    <2> QED BY <2>1, <2>2, <2>3, <2>4, Zenon DEF NumbersInv
<1>8. RingInv'
    BY <1>2, <1>3 DEF RingInv
<1>9. CleanInv'
    BY <1>2, <1>3, <1>4, <1>5 DEF CleanInv
<1>10. BlockedInv'
    BY <1>3 DEF BlockedInv
<1>100. RefusedInv'
    <2>1. /\ unsynced \subseteq refused
          /\ \A c \in remains : refused \cap Events(Parsed(c.lines)) \subseteq unsynced
        BY DEF LogInv, RefusedInv
    <2>2. CASE out = "ok"
        BY <1>2, <1>3, <1>4, <1>5, <2>2 DEF RefusedInv
    <2>3. CASE out # "ok"
        BY <1>2, <1>3, <1>4, <2>1, <2>3 DEF RefusedInv
    <2> QED BY <2>2, <2>3
<1>11. KeptStep
    BY <1>3, <1>4, <1>6, KeptNext
<1>12. \A e \in Durable(remains, refused, next)' : Has(e, g)
    <2>1. CASE out = "ok"
        BY <1>3, <1>4, <1>5, <2>1 DEF Durable, Has
    <2>2. CASE out # "ok"
        <3>1. Durable(remains', refused', next') \subseteq Kept
            BY <1>1, <1>3, <1>4, <2>2, Numbers, DurableShrinks DEF Kept
        <3> QED BY <1>6, <3>1
    <2> QED BY <2>1, <2>2
<1>13. KeptInv'
    BY <1>3, <1>6, <1>11, <1>12 DEF KeptInv, KeptStep, Kept
<1> QED BY <1>3, <1>4, <1>7, <1>8, <1>9, <1>10, <1>100, <1>11, <1>13 DEF LogInv

\* An event that is appended to the file.
LEMMA AddAppendKeeps ==
    ASSUME LogInv, NEW out \in AppendOutcomes, AddAppend(out),
           next' = next + 1, UNCHANGED <<confirmed, refused, crashes>>,
           unsynced' = IF dirty' THEN unsynced ELSE {}
    PROVE  LogInv' /\ KeptStep
<1> DEFINE g == Trim(Append(ring, next))
           s == file.lines
           d == appendLineLocked(file, next, remains, out)
<1>1. /\ ~loadBlocked /\ ~dirty /\ DiskInv(file, remains, next)
      /\ fileBytes + 1 <= FileLimit
    BY Numbers, LimitAssumption DEF AddAppend, MustCompact, LogInv
<1>2. /\ History(g) /\ Len(g) <= Keep /\ Older(g, next + 1)
      /\ refused \cap Events(g) = {}
      /\ \A e \in Nat : Has(e, ring) => Has(e, g)
    BY RingGrows
<1>3. /\ ~file.open /\ History(s) /\ Trim(s) = ring /\ fileBytes = Len(s)
    BY <1>1 DEF LogInv, CleanInv, CleanFile
<1>30. /\ unsynced = {} /\ refused \cap Events(s) = {}
       /\ \A c \in remains : refused \cap Events(Parsed(c.lines)) = {}
    <2>1. unsynced = {} /\ \A c \in remains : refused \cap Events(Parsed(c.lines)) = {}
        BY <1>1 DEF LogInv, RefusedInv
    <2>2. file \in remains /\ Parsed(s) = s
        BY <1>1, <1>3, ParsedHistory DEF DiskInv
    <2> QED BY <2>1, <2>2
<1>4. /\ ring' = g /\ file' = d.file /\ remains' = d.remains
      /\ fileBytes' = IF out = "none" THEN fileBytes ELSE fileBytes + 1
      /\ loadBlocked' = FALSE /\ dirty' = (out # "ok") /\ lastError' = (out # "ok")
      /\ faults + Fault(out) <= MaxFaults /\ faults' = faults + Fault(out)
    BY DEF AddAppend, Settle
<1>5. Trim(Append(s, next)) = g
    <2>1. s \in Seq(Nat) /\ next \in Nat
        BY <1>3, Numbers DEF History
    <2> QED BY <1>3, <2>1, TrimAppend
<1>6. /\ DiskInv(d.file, d.remains, next + 1)
      /\ remains \subseteq d.remains
      /\ \A c \in d.remains : c \in remains \/ Restored(c) \in {ring, g}
      /\ \A c \in d.remains : c \in remains \/ Events(Parsed(c.lines)) \subseteq Events(s) \union {next}
      /\ out = "ok" => d.file = Closed(Append(s, next)) /\ History(d.file.lines)
    BY <1>1, <1>3, <1>5, Numbers, AppendLineKeeps
<1> HIDE DEF g, d, s
<1>7. \A e \in Kept : e \in Nat /\ Has(e, ring) /\ Has(e, g)
    BY <1>1, <1>2, KeptNumbers DEF LogInv, KeptInv, Kept
<1>8. NumbersInv'
    <2>1. fileBytes' \in Nat
        BY <1>4, Numbers
    <2>2. dirty' \in BOOLEAN /\ loadBlocked' \in BOOLEAN /\ lastError' \in BOOLEAN
        BY <1>4
    <2>3. next' \in Nat \ {0} /\ confirmed' \subseteq 1..(next' - 1) /\ refused' \subseteq 1..(next' - 1)
        BY Numbers
    <2>4. faults' \in 0..MaxFaults /\ crashes' \in 0..MaxCrashes
        BY <1>4, Numbers DEF Fault
    <2> QED BY <2>1, <2>2, <2>3, <2>4, Zenon DEF NumbersInv
<1>9. RingInv'
    BY <1>2, <1>4 DEF RingInv
<1>10. CleanInv'
    <2> SUFFICES ASSUME out = "ok"
                 PROVE  /\ CleanFile(file', ring') /\ fileBytes' = Len(file'.lines)
        BY <1>4 DEF CleanInv
    <2> DEFINE u == Append(s, next)
    <2>1. file' = Closed(u) /\ file'.lines = u /\ ~file'.open /\ History(u)
        <3>1. file' = Closed(u) /\ History(d.file.lines) /\ file' = d.file
            BY <1>4, <1>6
        <3>2. Closed(u).lines = u /\ ~Closed(u).open
            BY DEF Closed
        <3> HIDE DEF u
        <3>3. History(file'.lines)
            BY <3>1
        <3> QED BY <3>1, <3>2, <3>3
    <2>2. s \in Seq(Nat) /\ next \in Nat /\ s \in Seq(Nat \ {Torn}) /\ next \in Nat \ {Torn}
        BY <1>3, Numbers DEF History, Torn
    <2>3. Len(u) = Len(s) + 1
        BY <2>2
    <2> HIDE DEF u
    <2> QED BY <1>3, <1>4, <1>5, <2>1, <2>3 DEF CleanFile, u
<1>11. BlockedInv'
    BY <1>4 DEF BlockedInv
<1>110. RefusedInv'
    <2>1. ASSUME NEW c \in remains' PROVE refused \cap Events(Parsed(c.lines)) = {}
        <3>1. next \notin refused
            BY Numbers
        <3> QED BY <1>4, <1>6, <1>30, <3>1
    <2> QED BY <1>4, <1>30, <2>1 DEF RefusedInv
<1>12. KeptStep
    BY <1>4, <1>6, <1>7, KeptNext
<1>13. \A e \in Durable(remains, refused, next)' : Has(e, g)
    <2>1. Durable(remains', refused', next') \subseteq Kept
        BY <1>1, <1>4, <1>6, Numbers, DurableShrinks DEF Kept
    <2> QED BY <1>7, <2>1
<1>14. KeptInv'
    BY <1>4, <1>7, <1>12, <1>13 DEF KeptInv, KeptStep, Kept
<1> QED BY <1>4, <1>6, <1>8, <1>9, <1>10, <1>11, <1>110, <1>12, <1>14 DEF LogInv

\* An audit record while the file cannot be read.
LEMMA AuditBlockedKeeps ==
    ASSUME LogInv, AuditBlocked, next' = next + 1, UNCHANGED crashes
    PROVE  LogInv' /\ KeptStep
<1>1. /\ loadBlocked /\ lastError' = TRUE /\ refused' = refused \union {next}
      /\ UNCHANGED <<ring, file, remains, fileBytes, dirty, loadBlocked, confirmed, unsynced, faults>>
      /\ DiskInv(file, remains, next) /\ RingInv /\ BlockedInv
    BY DEF AuditBlocked, LogInv
<1>2. History(ring) /\ Events(ring) \subseteq Nat
    BY <1>1, EventsAreNumbers DEF RingInv
<1>3. NumbersInv'
    <2>1. dirty' \in BOOLEAN /\ loadBlocked' \in BOOLEAN /\ lastError' \in BOOLEAN
        BY <1>1, Numbers
    <2>2. next' \in Nat \ {0} /\ confirmed' \subseteq 1..(next' - 1) /\ refused' \subseteq 1..(next' - 1)
        BY <1>1, Numbers
    <2>3. fileBytes' \in Nat /\ faults' \in 0..MaxFaults /\ crashes' \in 0..MaxCrashes
        BY <1>1, Numbers
    <2> QED BY <2>1, <2>2, <2>3, Zenon DEF NumbersInv
<1>4. RingInv'
    <2>1. Older(ring, next + 1)
        BY <1>1, <1>2, Numbers DEF RingInv, Older
    <2>2. next \notin Events(ring)
        BY <1>1, Numbers DEF RingInv, Older
    <2> QED BY <1>1, <2>1, <2>2 DEF RingInv
<1>5. DiskInv(file', remains', next')
    BY <1>1, Numbers, LaterDisk
<1>6. CleanInv'
    BY <1>1 DEF CleanInv
<1>7. BlockedInv'
    <2>1. \A x \in Events(Parsed(file.lines)) : x < next
        BY <1>1 DEF DiskInv, Older
    <2> QED BY <1>1, <2>1 DEF BlockedInv
<1>70. RefusedInv'
    <2>1. /\ unsynced = {} /\ dirty \in BOOLEAN
          /\ \A c \in remains : refused \cap Events(Parsed(c.lines)) = {}
        BY <1>1, Numbers DEF LogInv, RefusedInv
    <2>2. \A c \in remains : next \notin Events(Parsed(c.lines))
        BY <1>1, Numbers DEF DiskInv, Older
    <2> QED BY <1>1, <2>1, <2>2 DEF RefusedInv
<1>8. KeptStep
    BY <1>1, KeptNext
<1>9. KeptInv'
    BY <1>1 DEF LogInv, KeptInv
<1> QED BY <1>3, <1>4, <1>5, <1>6, <1>7, <1>70, <1>8, <1>9 DEF LogInv

\* An audit record that is written, or refused.
LEMMA AuditWriteKeeps ==
    ASSUME LogInv, NEW out \in CompactOutcomes, AuditWrite(out),
           next' = next + 1, UNCHANGED crashes
    PROVE  LogInv' /\ KeptStep
<1> DEFINE g == Trim(Append(ring, next))
           d == compactLocked(file, g, remains, out)
<1>1. ~loadBlocked /\ DiskInv(file, remains, next) /\ RingInv
    BY DEF AuditWrite, LogInv
<1>2. /\ History(g) /\ Len(g) <= Keep /\ Older(g, next + 1)
      /\ refused \cap Events(g) = {} /\ next \in Events(g)
      /\ \A e \in Nat : Has(e, ring) => Has(e, g)
    BY RingGrows
<1>3. /\ ring' = (IF out = "ok" THEN g ELSE ring)
      /\ file' = d.file /\ remains' = d.remains
      /\ fileBytes' = IF out = "ok" THEN Len(g) ELSE fileBytes
      /\ loadBlocked' = loadBlocked /\ dirty' = (out # "ok") /\ lastError' = (out # "ok")
      /\ confirmed' = (IF out = "ok" THEN confirmed \union {next} ELSE confirmed)
      /\ refused' = (IF out = "ok" THEN refused ELSE refused \union {next})
      /\ unsynced' = CASE out = "ok"   -> {}
                       [] out = "late" -> unsynced \union {next}
                       [] out = "fail" -> unsynced
      /\ faults + Fault(out) <= MaxFaults /\ faults' = faults + Fault(out)
    BY DEF AuditWrite
<1>30. out = "fail" => remains' = remains
    BY <1>3 DEF compactLocked
<1>4. /\ DiskInv(d.file, d.remains, next + 1)
      /\ \A c \in d.remains : c \in remains \/ (Restored(c) = g /\ Parsed(c.lines) = g)
      /\ out = "ok" => d.file = Closed(g) /\ d.remains = {Closed(g)} /\ CleanFile(d.file, g)
      /\ out # "ok" => remains \subseteq d.remains
    BY <1>1, <1>2, Numbers, RewriteKeeps
<1>5. Closed(g).lines = g /\ Restored(Closed(g)) = g /\ Parsed(Closed(g).lines) = g
    BY <1>2, SavedRing
<1> HIDE DEF g, d
<1>6. \A e \in Kept : e \in Nat /\ Has(e, ring) /\ Has(e, g)
    BY <1>1, <1>2, KeptNumbers DEF LogInv, KeptInv, Kept
<1>7. NumbersInv'
    <2>1. fileBytes' \in Nat
        BY <1>2, <1>3, Numbers DEF History
    <2>2. dirty' \in BOOLEAN /\ loadBlocked' \in BOOLEAN /\ lastError' \in BOOLEAN
        BY <1>3, Numbers
    <2>3. next' \in Nat \ {0} /\ confirmed' \subseteq 1..(next' - 1) /\ refused' \subseteq 1..(next' - 1)
        BY <1>3, Numbers
    <2>4. faults' \in 0..MaxFaults /\ crashes' \in 0..MaxCrashes
        BY <1>3, Numbers DEF Fault
    <2> QED BY <2>1, <2>2, <2>3, <2>4, Zenon DEF NumbersInv
<1>8. RingInv'
    <2>1. CASE out = "ok"
        BY <1>2, <1>3, <2>1 DEF RingInv
    <2>2. CASE out # "ok"
        <3>1. Events(ring) \subseteq Nat
            BY <1>1, EventsAreNumbers DEF RingInv
        <3>2. Older(ring, next + 1) /\ next \notin Events(ring)
            BY <1>1, <3>1, Numbers DEF RingInv, Older
        <3> QED BY <1>1, <1>3, <2>2, <3>2 DEF RingInv
    <2> QED BY <2>1, <2>2
<1>9. CleanInv'
    BY <1>2, <1>3, <1>4, <1>5 DEF CleanInv
<1>10. BlockedInv'
    BY <1>1, <1>3 DEF BlockedInv
<1>100. RefusedInv'
    <2>1. /\ unsynced \subseteq refused
          /\ \A c \in remains : refused \cap Events(Parsed(c.lines)) \subseteq unsynced
        BY DEF LogInv, RefusedInv
    <2>2. \A c \in remains : next \notin Events(Parsed(c.lines))
        BY <1>1, Numbers DEF DiskInv, Older
    <2>3. CASE out = "ok"
        BY <1>1, <1>2, <1>3, <1>4, <1>5, <2>3 DEF RefusedInv
    <2>4. CASE out = "late"
        BY <1>1, <1>2, <1>3, <1>4, <2>1, <2>2, <2>4 DEF RefusedInv
    <2>5. CASE out = "fail"
        BY <1>1, <1>3, <1>30, <2>1, <2>2, <2>5 DEF RefusedInv
    <2> QED BY <2>3, <2>4, <2>5 DEF CompactOutcomes
<1>11. KeptStep
    BY <1>3, <1>4, <1>6, KeptNext
<1>12. KeptInv'
    <2>1. CASE out = "ok"
        <3>1. /\ ring' = g /\ confirmed' = confirmed \union {next} /\ remains' = {Closed(g)}
            BY <1>3, <1>4, <2>1
        <3>2. \A e \in confirmed' : Has(e, g)
            BY <1>2, <1>6, <3>1 DEF Kept, Has
        <3>3. \A e \in Durable(remains', refused', next') : Has(e, g)
            BY <1>5, <3>1 DEF Durable, Has
        <3> QED BY <1>5, <3>1, <3>2, <3>3 DEF KeptInv
    <2>2. CASE out # "ok"
        <3>1. Durable(remains', refused', next') \subseteq Kept
            BY <1>1, <1>3, <1>4, <2>2, Numbers, DurableShrinks DEF Kept
        <3> QED BY <1>3, <1>6, <1>11, <2>2, <3>1 DEF KeptInv, KeptStep, Kept
    <2> QED BY <2>1, <2>2
<1> QED BY <1>3, <1>4, <1>7, <1>8, <1>9, <1>10, <1>100, <1>11, <1>12 DEF LogInv

\* The process starts again, after a power loss or not.
LEMMA RestartKeeps ==
    ASSUME LogInv, NEW out \in LoadOutcomes, Restart(out)
    PROVE  LogInv' /\ KeptStep
<1>0. PICK f \in remains : \E rem \in {remains, {f}} : NewEventLog(f, rem, out)
    BY DEF Restart, LogInv, DiskInv
<1>1. PICK rem \in {remains, {f}} : NewEventLog(f, rem, out)
    BY <1>0
<1>2. /\ crashes' \in 0..MaxCrashes /\ faults' \in 0..MaxFaults
      /\ refused' = refused \ unsynced /\ unsynced' = {} /\ UNCHANGED <<next, confirmed>>
    BY Numbers, BoundsAssumption DEF Restart, Fault
<1> DEFINE r == Restored(f)
           l == load(f, rem, 0, out)
<1>3. DiskInv(f, rem, next) /\ f \in remains /\ rem \subseteq remains
    BY DEF LogInv, DiskInv
<1>4. /\ ring' = IF l.ok THEN l.ring ELSE <<>>
      /\ file' = l.file /\ remains' = l.remains /\ fileBytes' = l.bytes
      /\ dirty' = FALSE /\ loadBlocked' = ~l.ok /\ lastError' = ~l.ok
    BY <1>1 DEF NewEventLog
<1>5. LoadFacts(f, rem, next, out, l)
    <2>1. next \in Nat /\ 0 \in Nat
        BY Numbers
    <2> QED BY <1>3, <2>1, LoadKeeps
<1> HIDE DEF l
<1>6. /\ l.ring = r /\ l.ok = (out = "ok") /\ l.bytes \in Nat
      /\ DiskInv(l.file, l.remains, next)
      /\ \A c \in l.remains : c \in rem \/ (Restored(c) = r /\ Parsed(c.lines) = r)
      /\ \A e : (\A c \in l.remains : e \in Events(Restored(c))) => e \in Events(r)
      /\ l.ok => CleanFile(l.file, r) /\ l.bytes = Len(l.file.lines)
    BY <1>5, Zenon DEF LoadFacts
<1>7. /\ ring' = IF out = "ok" THEN r ELSE <<>>
      /\ loadBlocked' = (out # "ok") /\ lastError' = (out # "ok")
    BY <1>4, <1>6
<1>70. Events(r) \subseteq Events(Parsed(f.lines))
    <2>1. Sound(f)
        BY <1>3 DEF DiskInv
    <2> QED BY <2>1, SoundRestored
<1>71. \A c \in remains : refused' \cap Events(Parsed(c.lines)) = {}
    BY <1>2 DEF LogInv, RefusedInv
<1>72. refused' \cap Events(r) = {}
    BY <1>3, <1>70, <1>71
<1>8. History(r) /\ Len(r) <= Keep /\ Older(r, next)
    <2>1. Sound(f) /\ Older(Parsed(f.lines), next)
        BY <1>3 DEF DiskInv
    <2> QED BY <2>1, SoundRestored DEF Older
<1> HIDE DEF r
<1>9. \A e \in Kept : Has(e, Restored(f))
    BY <1>3 DEF LogInv, KeptInv, Kept, Durable, Has
<1>10. NumbersInv'
    <2>1. dirty' \in BOOLEAN /\ loadBlocked' \in BOOLEAN /\ lastError' \in BOOLEAN
        BY <1>4, <1>7
    <2>2. next' \in Nat \ {0} /\ confirmed' \subseteq 1..(next' - 1) /\ refused' \subseteq 1..(next' - 1)
        BY <1>2, Numbers
    <2> QED BY <1>2, <1>4, <1>6, <2>1, <2>2 DEF NumbersInv
<1>11. RingInv'
    <2>1. History(<<>>) /\ Len(<<>>) <= Keep /\ Events(<<>>) = {}
        BY KeepAssumption DEF History, InOrder, Events
    <2> QED BY <1>2, <1>7, <1>72, <1>8, <2>1 DEF RingInv, Older
<1>12. CleanInv'
    BY <1>2, <1>4, <1>6, <1>7 DEF CleanInv
<1>13. BlockedInv'
    <2>1. Events(<<>>) = {}
        BY DEF Events
    <2> QED BY <1>2, <1>7, <2>1 DEF BlockedInv
<1>130. RefusedInv'
    <2>1. ASSUME NEW c \in remains' PROVE refused' \cap Events(Parsed(c.lines)) = {}
        BY <1>3, <1>4, <1>6, <1>71, <1>72
    <2> QED BY <1>2, <2>1 DEF RefusedInv
<1>14. KeptStep
    BY <1>3, <1>4, <1>6, <1>9, KeptNext DEF r
<1>15. KeptInv'
    <2>1. \A e \in Durable(remains', refused', next') : e \in Events(r)
        BY <1>4, <1>6 DEF Durable
    <2> QED BY <1>2, <1>7, <1>9, <1>14, <2>1 DEF KeptInv, KeptStep, Kept, Has, r
<1> QED BY <1>2, <1>4, <1>6, <1>10, <1>11, <1>12, <1>13, <1>130, <1>14, <1>15 DEF LogInv

\* Every step.
LEMMA LogNext == LogInv /\ [Next]_vars => LogInv' /\ (KeptStep \/ UNCHANGED vars)
<1> SUFFICES ASSUME LogInv, [Next]_vars PROVE LogInv' /\ (KeptStep \/ UNCHANGED vars)
    OBVIOUS
<1>1. CASE Add
    BY <1>1, AddBlockedKeeps, AddCompactKeeps, AddAppendKeeps DEF Add
<1>2. CASE RecordAudit
    BY <1>2, AuditBlockedKeeps, AuditWriteKeeps DEF RecordAudit
<1>3. CASE \E out \in LoadOutcomes : Restart(out)
    BY <1>3, RestartKeeps
<1>4. CASE UNCHANGED vars
    BY <1>4 DEF vars, LogInv, NumbersInv, RingInv, CleanInv, RefusedInv, BlockedInv, KeptInv
<1> QED BY <1>1, <1>2, <1>3, <1>4 DEF Next

\* The invariant holds in every reachable state.
LEMMA LogAlways == Spec => []LogInv
BY LogInit, LogNext, PTL DEF Spec

(***************************************************************************)
(* What it says.                                                           *)
(***************************************************************************)

\* The variables keep their types, and the ring never outgrows Keep.
THEOREM EventLogTypes == Spec => []TypeOK
<1>1. LogInv => TypeOK
    <2> SUFFICES ASSUME LogInv PROVE TypeOK
        OBVIOUS
    <2>1. ring \in Seq(Nat \ {Torn}) /\ Len(ring) =< Keep
        BY DEF LogInv, RingInv, History
    <2>2. file \in Content /\ remains \subseteq Content
        BY DEF LogInv, DiskInv, Sound
    <2>3. NumbersInv /\ unsynced \subseteq refused
        BY DEF LogInv, RefusedInv
    <2> QED BY <2>1, <2>2, <2>3 DEF TypeOK, NumbersInv
<1> QED BY <1>1, LogAlways, PTL

\* The audit trail says what was answered, over failed writes, restarts and power losses:
\* a confirmed record is restored by every later start until Keep newer events push it
\* out; a refused one is never shown and, once a write succeeds, in no file that a start
\* may find, unless its own rewrite failed in the directory sync and the process ended
\* before the next write succeeded.
THEOREM AuditAlwaysTrue == Spec => []AuditIsTrue
<1>1. LogInv => AuditIsTrue
    <2> SUFFICES ASSUME LogInv PROVE AuditIsTrue
        OBVIOUS
    <2>1. ASSUME NEW a \in confirmed, NEW c \in remains \union {file}
          PROVE  a \in Events(Restored(c)) \/ PushedOut(a, Restored(c))
        <3>1. c \in remains /\ Sound(c)
            BY DEF LogInv, DiskInv
        <3>2. History(Restored(c)) /\ Len(Restored(c)) <= Keep
            BY <3>1, SoundRestored
        <3>3. a \in Nat /\ Has(a, Restored(c))
            BY <3>1, Numbers DEF LogInv, KeptInv
        <3> QED BY <3>2, <3>3, HasIsPushedOut
    <2>2. RefusedAuditStaysOut
        BY DEF LogInv, RingInv, DiskInv, RefusedInv, RefusedAuditStaysOut
    <2> QED BY <2>1, <2>2 DEF AuditIsTrue, ConfirmedAuditSurvives
<1> QED BY <1>1, LogAlways, PTL

\* A healthy status is true: the file restores what List shows; histories are in
\* order, in memory and wherever a start may find them, and the file is bounded.
THEOREM HistoryAlwaysSound == Spec => []HistoryIsSound
<1>1. LogInv => HistoryIsSound
    <2> SUFFICES ASSUME LogInv PROVE HistoryIsSound
        OBVIOUS
    <2>1. HealthyIsSaved
        <3> SUFFICES ASSUME ~dirty, ~loadBlocked PROVE Restored(file) = ring
            BY DEF HealthyIsSaved
        <3>1. CleanFile(file, ring) /\ Sound(file)
            BY DEF LogInv, CleanInv, DiskInv
        <3>2. Parsed(file.lines) = file.lines
            BY <3>1, ParsedHistory DEF CleanFile
        <3> QED BY <3>1, <3>2, SoundRestored DEF CleanFile
    <2>2. HistoryInOrder
        <3>1. \A c \in remains \union {file} : History(Restored(c))
            BY SoundRestored DEF LogInv, DiskInv
        <3>2. History(ring)
            BY DEF LogInv, RingInv
        <3> QED BY <3>1, <3>2 DEF HistoryInOrder, History, InOrder
    <2>3. FileBounded
        BY DEF LogInv, DiskInv, Sound, FileBounded
    <2> QED BY <2>1, <2>2, <2>3 DEF HistoryIsSound
<1> QED BY <1>1, LogAlways, PTL

\* What every power loss would leave is never lost again, but to Keep newer events
\* or because RecordAudit takes back a record it refused.
THEOREM HistoryAlwaysKept == Spec => HistoryIsKept
<1> DEFINE Step == \A e \in (1..next) \ refused :
                      (\A c \in remains : e \in Events(Restored(c))) =>
                          \A c \in remains' :
                              e \in Events(Restored(c)) \/ PushedOut(e, Restored(c))
<1>1. LogInv /\ LogInv' /\ KeptStep => Step
    <2> SUFFICES ASSUME LogInv, LogInv', KeptStep,
                        NEW e \in (1..next) \ refused,
                        \A c \in remains : e \in Events(Restored(c)),
                        NEW c \in remains'
                 PROVE  e \in Events(Restored(c)) \/ PushedOut(e, Restored(c))
        OBVIOUS
    <2>1. e \in Nat /\ e \in Kept
        BY Numbers DEF Kept, Durable
    <2>2. Sound(c)
        BY DEF LogInv, DiskInv
    <2>3. History(Restored(c)) /\ Len(Restored(c)) <= Keep
        BY <2>2, SoundRestored
    <2> QED BY <2>1, <2>3, HasIsPushedOut DEF KeptStep
<1>2. LogInv /\ [Next]_vars => [Step]_vars
    <2> HIDE DEF Step
    <2> QED BY <1>1, LogNext
<1>3. Spec => [][Step]_vars
    <2> HIDE DEF Step
    <2> QED BY <1>2, LogAlways, PTL DEF Spec
<1> QED BY <1>3 DEF HistoryIsKept
=============================================================================
