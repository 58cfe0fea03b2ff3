------------------------- MODULE RequestPathProofs -------------------------
(***************************************************************************)
(* What is decided about one request, for every value of the constants.    *)
(*                                                                         *)
(* The parts share no state, so each has an invariant of its own: the      *)
(* request under way (Access), the last turns (CacheTtl), what the tap has *)
(* read (UsageTap) and the body that goes out (TokenSaver).                *)
(***************************************************************************)
EXTENDS RequestPath, FiniteSetTheorems, SequenceTheorems, WellFoundedInduction, TLAPS

-----------------------------------------------------------------------------
(* Sets of numbers.                                                        *)

\* A set of naturals has a least member.
LEMMA LeastOf ==
    ASSUME NEW S, S \subseteq Nat, S # {}
    PROVE  \E n \in S : \A m \in S : n <= m
  <1>1. PICK n \in S : \A m \in S : ~(<<m, n>> \in OpToRel(<, Nat))
    BY NatLessThanWellFounded, WFMin
  <1>2. \A m \in S : ~(m < n)
    BY <1>1 DEF OpToRel
  <1>3. \A m \in S : n <= m
    BY <1>2
  <1> QED
    BY <1>3

\* A bounded set of naturals has a greatest member.
LEMMA GreatestOf ==
    ASSUME NEW S, S \subseteq Nat, S # {}, NEW b \in Nat, \A n \in S : n <= b
    PROVE  /\ Max(S) \in S
           /\ \A n \in S : n <= Max(S)
  <1> DEFINE T == {b - n : n \in S}
  <1>1. T \subseteq Nat /\ T # {}
    <2>1. \A n \in S : n \in Nat /\ n <= b
      OBVIOUS
    <2>2. \A n \in S : b - n \in Nat
      BY <2>1
    <2> QED
      BY <2>2
  <1>2. PICK t \in T : \A m \in T : t <= m
    BY <1>1, LeastOf
  <1>3. PICK x \in S : t = b - x
    OBVIOUS
  <1>4. \A y \in S : x >= y
    BY <1>2, <1>3
  <1> HIDE DEF T
  <1>5. Max(S) \in S /\ \A y \in S : Max(S) >= y
    BY <1>4 DEF Max
  <1>6. \A y \in S : y <= Max(S)
    BY <1>5
  <1> QED
    BY <1>5, <1>6

LEMMA MaxIs ==
    ASSUME NEW S, S \subseteq Nat, NEW x \in S, \A y \in S : y <= x
    PROVE  Max(S) = x
  <1>1. x >= x /\ \A y \in S : x >= y
    OBVIOUS
  <1>2. Max(S) \in S /\ \A y \in S : Max(S) >= y
    BY <1>1 DEF Max
  <1>3. x \in Nat /\ Max(S) \in Nat /\ Max(S) <= x /\ Max(S) >= x
    BY <1>2
  <1> QED
    BY <1>3

-----------------------------------------------------------------------------
(* The gates.                                                              *)

\* the request under way is one of the inputs
RequestInv ==
    /\ drawn \in DOMAIN Inputs
    /\ request # None => request \in inputs.requests

\* Entries in front do not change which is the last that is not trusted.
LEMMA LastUntrustedStays ==
    ASSUME NEW long \in Lists, NEW short \in Lists, IsSuffix(short, long),
           Untrusted(short) # {}
    PROVE  /\ Untrusted(long) # {}
           /\ long[Max(Untrusted(long))] = short[Max(Untrusted(short))]
  <1> DEFINE n == Len(long)
             m == Len(short)
             top == Max(Untrusted(short))
             at == n - m + top
  <1>1. n \in Nat /\ m \in Nat /\ DOMAIN long = 1 .. n /\ DOMAIN short = 1 .. m
    BY LenProperties DEF Lists
  <1>2. m <= n /\ \A i \in 1 .. m : short[i] = long[n - m + i]
    <2> DEFINE s == Reverse(short)
               l == Reverse(long)
    <2>1. s = [i \in 1 .. m |-> short[(m - i) + 1]]
      BY DEF Reverse
    <2>2. l = [i \in 1 .. n |-> long[(n - i) + 1]]
      BY DEF Reverse
    <2>3. Len(s) = m /\ Len(l) = n
      BY <1>1, <2>1, <2>2
    <2>4. m <= n /\ SubSeq(s, 1, m) = SubSeq(l, 1, m)
      BY <2>3 DEF IsSuffix, IsPrefix
    <2> HIDE DEF s, l
    <2>5. \A i \in 1 .. m : s[i] = l[i]
      <3> TAKE i \in 1 .. m
      <3>1. SubSeq(s, 1, m)[i] = s[i] /\ SubSeq(l, 1, m)[i] = l[i]
        BY <1>1
      <3> QED
        BY <2>4, <3>1
    <2>6. \A i \in 1 .. m : short[i] = long[n - m + i]
      <3> TAKE i \in 1 .. m
      <3>1. m - i + 1 \in 1 .. m /\ m - i + 1 \in 1 .. n
        BY <1>1, <2>4
      <3>2. s[m - i + 1] = short[i]
        BY <1>1, <2>1, <3>1
      <3>3. l[m - i + 1] = long[n - m + i]
        BY <1>1, <2>2, <3>1
      <3> QED
        BY <2>5, <3>1, <3>2, <3>3
    <2> QED
      BY <2>4, <2>6
  <1>3. Untrusted(short) \subseteq Nat /\ Untrusted(long) \subseteq Nat
    BY <1>1 DEF Untrusted
  <1>4. top \in Untrusted(short) /\ \A i \in Untrusted(short) : i <= top
    <2>1. \A i \in Untrusted(short) : i <= m
      BY <1>1 DEF Untrusted
    <2> QED
      BY <1>1, <1>3, <2>1, GreatestOf
  <1>5. top \in 1 .. m
    BY <1>1, <1>4 DEF Untrusted
  <1>6. at \in Untrusted(long)
    BY <1>1, <1>2, <1>4, <1>5 DEF Untrusted
  <1>7. \A i \in Untrusted(long) : i <= at
    <2> SUFFICES ASSUME NEW i \in Untrusted(long), ~(i <= at) PROVE FALSE
      OBVIOUS
    <2>1. i \in 1 .. n /\ i - (n - m) \in 1 .. m
      BY <1>1, <1>2, <1>5 DEF Untrusted
    <2>2. short[i - (n - m)] = long[i]
      BY <1>1, <1>2, <2>1
    <2>3. i - (n - m) \in Untrusted(short)
      BY <1>1, <2>1, <2>2 DEF Untrusted
    <2> QED
      BY <1>1, <1>4, <1>5, <2>1, <2>3
  <1>8. Max(Untrusted(long)) = at
    BY <1>3, <1>6, <1>7, MaxIs
  <1> QED
    BY <1>2, <1>5, <1>6, <1>8

\* The line that is read, of whatever lines there are.
LEMMA ForwardedIsList ==
    ASSUME NEW r, r.lines \in Seq(Lists)
    PROVE  Forwarded(r) \in Lists
  <1>1. CASE r.lines = <<>>
    <2>1. <<>> \in Lists
      BY EmptySeq DEF Lists
    <2> QED
      BY <1>1, <2>1 DEF Forwarded
  <1>2. CASE r.lines # <<>>
    <2> PICK s : s = r.lines
      OBVIOUS
    <2>1. s \in Seq(Lists) /\ s # <<>>
      BY <1>2
    <2> HIDE DEF Lists
    <2>2. Head(s) \in Lists
      BY <2>1, HeadTailProperties
    <2> QED
      BY <1>2, <2>2 DEF Forwarded
  <1> QED
    BY <1>1, <1>2

\* Another self-description, the same client.
LEMMA ClientStays ==
    ASSUME NEW q, NEW r, Forwarded(q) \in Lists, Forwarded(r) \in Lists, q.peer = r.peer,
           SameCaller(q, r)
    PROVE  Client(q) = Client(r)
  <1> DEFINE long == Forwarded(q)
             short == Forwarded(r)
  <1>1. CASE r.peer \notin TRUSTED_PROXY_NETWORKS
    BY <1>1 DEF Client, resolve_client_ip
  <1>2. CASE long = short
    BY <1>2 DEF Client, resolve_client_ip
  <1>3. CASE Untrusted(short) # {} /\ IsSuffix(short, long)
    <2>1. /\ Untrusted(long) # {}
          /\ long[Max(Untrusted(long))] = short[Max(Untrusted(short))]
      BY <1>3, LastUntrustedStays
    <2> QED
      BY <1>3, <2>1 DEF Client, resolve_client_ip, Named
  <1> QED
    BY <1>1, <1>2, <1>3 DEF SameCaller

LEMMA VerdictStays ==
    ASSUME NEW r, IsRequest(r), NEW lines \in Seq(Lists), NEW label,
           SameCaller([r EXCEPT !.lines = lines, !.label = label], r)
    PROVE  Verdict([r EXCEPT !.lines = lines, !.label = label]) = Verdict(r)
  <1> DEFINE q == [r EXCEPT !.lines = lines, !.label = label]
  <1>1. /\ q.lines = lines /\ q.label = label
        /\ q.peer = r.peer /\ q.urlKey = r.urlKey /\ q.headerKey = r.headerKey /\ q.path = r.path
    BY DEF IsRequest
  <1> HIDE DEF q
  <1>2. SameCaller(q, r)
    BY DEF q
  <1>3. Client(q) = Client(r)
    <2>1. Forwarded(q) \in Lists /\ Forwarded(r) \in Lists
      BY <1>1, ForwardedIsList DEF IsRequest
    <2> QED
      BY <1>1, <1>2, <2>1, ClientStays
  <1>4. Presented(q) = Presented(r) /\ (Keyed(q) <=> Keyed(r)) /\ (KeyRefused(q) <=> KeyRefused(r))
    BY <1>1 DEF Presented, Keyed, KeyRefused
  <1>5. q.label = r.label \/ (Keyed(r) /\ q.label # None /\ r.label # None)
    BY <1>2 DEF SameCaller
  <1>6. user_label(q) = user_label(r)
    BY <1>3, <1>4, <1>5 DEF user_label
  <1>7. (IsAdmin(q) <=> IsAdmin(r)) /\ (IsStats(q) <=> IsStats(r))
    BY <1>1, <1>5 DEF IsAdmin, IsStats
  <1>8. /\ IpRefused(q) <=> IpRefused(r)
        /\ StatsRefused(q) <=> StatsRefused(r)
        /\ CapRefused(q) <=> CapRefused(r)
    BY <1>1, <1>3, <1>4, <1>6, <1>7 DEF IpRefused, StatsRefused, CapRefused
  <1>9. Verdict(q) = Verdict(r)
    BY <1>4, <1>6, <1>8 DEF Verdict
  <1> QED
    BY <1>9 DEF q

LEMMA RequestInvHolds == Spec => []RequestInv
  <1>1. Init => RequestInv
    BY DEF Init, RequestInv
  <1>2. RequestInv /\ [Next]_vars => RequestInv'
    <2> SUFFICES ASSUME RequestInv, [Next]_vars PROVE RequestInv'
      OBVIOUS
    <2> USE DEF RequestInv, inputs
    <2>1. ASSUME NEW r \in inputs.requests, Arrive(r) PROVE RequestInv'
      BY <2>1 DEF Arrive
    <2>2. ASSUME NEW body \in inputs.bodies, Prepare(body) PROVE RequestInv'
      BY <2>2 DEF Prepare
    <2>3. ASSUME NEW r \in inputs.responses, Respond(r) PROVE RequestInv'
      BY <2>3 DEF Respond
    <2>4. ASSUME NEW n \in inputs.chunks, Relay(n) PROVE RequestInv'
      BY <2>4 DEF Relay
    <2>5. ASSUME NEW session \in inputs.sessions, NEW table \in inputs.tables,
                 Finish(session, table)
          PROVE  RequestInv'
      BY <2>5 DEF Finish
    <2>6. CASE Tick
      BY <2>6 DEF Tick
    <2>7. CASE NextMonth
      BY <2>7 DEF NextMonth
    <2>8. ASSUME NEW q \in inputs.quotas, Configure(q) PROVE RequestInv'
      BY <2>8 DEF Configure
    <2>9. CASE Restart
      BY <2>9 DEF Restart
    <2>10. CASE UNCHANGED vars
      BY <2>10 DEF vars
    <2> QED
      BY <2>1, <2>2, <2>3, <2>4, <2>5, <2>6, <2>7, <2>8, <2>9, <2>10 DEF Next
  <1> QED
    BY <1>1, <1>2, PTL DEF Spec

(* Nothing a caller can say of itself changes the answer to its request or *)
(* who is charged: no entry it puts in front of the trusted proxy's in the *)
(* first line of X-Forwarded-For, no further line, no label beside a key   *)
(* (access.py, middleware.py).  It is said of a trusted proxy that writes  *)
(* into the caller's line, and of a caller that comes by none: of a proxy  *)
(* that adds a line of its own it says nothing.                            *)
THEOREM VerdictsCannotBeChosen == Spec => []VerdictsStand
  <1>1. RequestInv => VerdictsStand
    <2> SUFFICES ASSUME RequestInv, request # None,
                        NEW lines \in Header, NEW label \in Label,
                        SameCaller([request EXCEPT !.lines = lines, !.label = label], request)
                 PROVE  Verdict([request EXCEPT !.lines = lines, !.label = label])
                          = Verdict(request)
      BY DEF VerdictsStand, CallerCannotChoose
    <2>1. IsRequest(request)
      BY InputsAssumption DEF RequestInv, inputs
    <2>2. lines \in Seq(Lists)
      BY InputsAssumption
    <2> QED
      BY <2>1, <2>2, VerdictStays
  <1> QED
    BY <1>1, RequestInvHolds, PTL

-----------------------------------------------------------------------------
(* Sequences, whatever they are of.                                        *)

IsSequence(s) == s \in Seq(Range(s))

LEMMA SequenceShape ==
    ASSUME NEW s, IsSequence(s)
    PROVE  Len(s) \in Nat /\ DOMAIN s = 1 .. Len(s)
  BY LenProperties DEF IsSequence

LEMMA AppendShape ==
    ASSUME NEW s, IsSequence(s), NEW e
    PROVE  /\ IsSequence(Append(s, e))
           /\ Len(Append(s, e)) = Len(s) + 1
           /\ \A i \in 1 .. Len(s) : Append(s, e)[i] = s[i]
           /\ Append(s, e)[Len(s) + 1] = e
  <1> DEFINE S == Range(s) \cup {e}
  <1>1. s \in Seq(S) /\ e \in S
    <2>1. Range(s) \subseteq S /\ e \in S
      OBVIOUS
    <2> HIDE DEF S
    <2> QED
      BY <2>1, SeqMonotonic DEF IsSequence
  <1> HIDE DEF S
  <1>2. /\ Append(s, e) \in Seq(S)
        /\ Len(Append(s, e)) = Len(s) + 1
        /\ \A i \in 1 .. Len(s) : Append(s, e)[i] = s[i]
        /\ Append(s, e)[Len(s) + 1] = e
    BY <1>1, AppendProperties
  <1>3. IsSequence(Append(s, e))
    BY <1>2, SeqOfRange DEF IsSequence
  <1> QED
    BY <1>2, <1>3

LEMMA RemoveShape ==
    ASSUME NEW s, IsSequence(s), NEW i \in DOMAIN s
    PROVE  /\ IsSequence(RemoveAt(s, i))
           /\ Len(RemoveAt(s, i)) = Len(s) - 1
           /\ \A n \in 1 .. Len(s) - 1 :
                RemoveAt(s, i)[n] = IF n < i THEN s[n] ELSE s[n + 1]
  <1> DEFINE S == Range(s)
             front == SubSeq(s, 1, i - 1)
             back == SubSeq(s, i + 1, Len(s))
  <1>1. s \in Seq(S) /\ Len(s) \in Nat /\ i \in 1 .. Len(s) /\ \A n \in 1 .. Len(s) : s[n] \in S
    BY SequenceShape, ElementOfSeq DEF IsSequence
  <1> HIDE DEF S
  <1>2. /\ front \in Seq(S) /\ Len(front) = i - 1
        /\ \A n \in 1 .. i - 1 : front[n] = s[n]
    <2>1. \A n \in 1 .. i - 1 : s[n] \in S
      BY <1>1
    <2>2. i - 1 \in Int /\ 1 \in Int
      BY <1>1
    <2>3. /\ front \in Seq(S)
          /\ Len(front) = IF 1 <= i - 1 THEN i - 1 - 1 + 1 ELSE 0
          /\ \A n \in 1 .. i - 1 - 1 + 1 : front[n] = s[1 + n - 1]
      BY <2>1, <2>2, SubSeqProperties
    <2> QED
      BY <1>1, <2>3
  <1>3. /\ back \in Seq(S) /\ Len(back) = Len(s) - i
        /\ \A n \in 1 .. Len(s) - i : back[n] = s[i + n]
    <2>1. \A n \in i + 1 .. Len(s) : s[n] \in S
      BY <1>1
    <2>2. i + 1 \in Int /\ Len(s) \in Int
      BY <1>1
    <2>3. /\ back \in Seq(S)
          /\ Len(back) = IF i + 1 <= Len(s) THEN Len(s) - (i + 1) + 1 ELSE 0
          /\ \A n \in 1 .. Len(s) - (i + 1) + 1 : back[n] = s[i + 1 + n - 1]
      BY SMTT(30), <2>1, <2>2, SubSeqProperties
    <2> QED
      BY <1>1, <2>3
  <1> HIDE DEF front, back
  <1>4. /\ front \o back \in Seq(S)
        /\ Len(front \o back) = Len(front) + Len(back)
        /\ \A n \in 1 .. Len(front) + Len(back) :
             (front \o back)[n] = IF n <= Len(front) THEN front[n] ELSE back[n - Len(front)]
    BY <1>2, <1>3, ConcatProperties
  <1>5. PICK r : r = front \o back
    OBVIOUS
  <1>6. RemoveAt(s, i) = r
    BY <1>5 DEF RemoveAt, front, back
  <1>7. \A n \in 1 .. Len(s) - 1 : r[n] = IF n < i THEN s[n] ELSE s[n + 1]
    <2> TAKE n \in 1 .. Len(s) - 1
    <2>1. r[n] = IF n <= Len(front) THEN front[n] ELSE back[n - Len(front)]
      <3>1. n \in 1 .. Len(front) + Len(back)
        BY <1>1, <1>2, <1>3
      <3>2. \A k \in 1 .. Len(front) + Len(back) :
              (front \o back)[k] = IF k <= Len(front) THEN front[k] ELSE back[k - Len(front)]
        BY <1>4
      <3>3. \A k \in 1 .. Len(front) + Len(back) :
              r[k] = IF k <= Len(front) THEN front[k] ELSE back[k - Len(front)]
        BY <1>5, <3>2, Zenon
      <3> QED
        BY <3>1, <3>3, Zenon
    <2>2. CASE n < i
      <3>1. n \in 1 .. i - 1
        BY <1>1, <2>2
      <3>2. n <= Len(front)
        BY <1>1, <1>2, <3>1
      <3> QED
        BY <1>2, <2>1, <2>2, <3>1, <3>2
    <2>3. CASE ~(n < i)
      <3>1. n - (i - 1) \in 1 .. Len(s) - i /\ i + (n - (i - 1)) = n + 1
        BY <1>1, <2>3
      <3>2. ~(n <= Len(front)) /\ n - Len(front) = n - (i - 1)
        BY <1>1, <1>2, <2>3
      <3> QED
        BY <1>3, <2>1, <2>3, <3>1, <3>2
    <2> QED
      BY <2>2, <2>3
  <1>8. Len(r) = Len(s) - 1
    BY SMTT(30), <1>1, <1>2, <1>3, <1>4, <1>5
  <1>9. IsSequence(r)
    BY <1>4, <1>5, SeqOfRange DEF IsSequence
  <1> QED
    BY <1>6, <1>7, <1>8, <1>9

LEMMA TailShape ==
    ASSUME NEW s, IsSequence(s), Len(s) > 0
    PROVE  /\ IsSequence(Tail(s))
           /\ Len(Tail(s)) = Len(s) - 1
           /\ \A n \in 1 .. Len(s) - 1 : Tail(s)[n] = s[n + 1]
  <1>1. s # <<>>
    BY EmptySeq
  <1>2. /\ Tail(s) \in Seq(Range(s))
        /\ Len(Tail(s)) = Len(s) - 1
        /\ \A n \in 1 .. Len(Tail(s)) : Tail(s)[n] = s[n + 1]
    BY <1>1, HeadTailProperties DEF IsSequence
  <1>3. IsSequence(Tail(s))
    BY <1>2, SeqOfRange DEF IsSequence
  <1> QED
    BY <1>2, <1>3

-----------------------------------------------------------------------------
(* The last turns.                                                         *)

\* the pairs that have an entry after the i-th
After(s, i) == {s[n].key : n \in i + 1 .. Len(s)}

\* the i-th is the last entry of its pair
Latest(s, i) == s[i].key \notin After(s, i)

Distinct(s) == \A i, n \in DOMAIN s : s[i].key = s[n].key => i = n

\* Entry i of the map is the last turn of its pair, and the pairs that have
\* had turns since are the ones behind it.
Placed(m, h, i) ==
    \E j \in DOMAIN h : h[j] = m[i] /\ Latest(h, j) /\ After(h, j) = After(m, i)

\* A pair whose last turn is j is in the map, or others have pushed it out.
Remembered(m, h, j) ==
    \/ \E i \in DOMAIN m : m[i].key = h[j].key
    \/ Cardinality(After(h, j)) >= _MAX_TRACKED

\* The map m holds what it should of the history h.
Tracks(m, h) ==
    /\ IsSequence(m) /\ IsSequence(h)
    /\ Len(m) <= _MAX_TRACKED
    /\ Distinct(m)
    /\ \A i \in DOMAIN m : Placed(m, h, i)
    /\ \A j \in DOMAIN h : Latest(h, j) => Remembered(m, h, j)

LEMMA ImageIsFinite ==
    ASSUME NEW f, IsFiniteSet(DOMAIN f)
    PROVE  IsFiniteSet({f[x] : x \in DOMAIN f})
  <1> DEFINE S == DOMAIN f
             T == {f[x] : x \in DOMAIN f}
             g == [x \in S |-> f[x]]
  <1>1. g \in Surjection(S, T)
    BY DEF Surjection
  <1> QED
    BY <1>1, FS_Surjection

LEMMA InjectiveImage ==
    ASSUME NEW f, IsFiniteSet(DOMAIN f), \A x, y \in DOMAIN f : f[x] = f[y] => x = y
    PROVE  Cardinality({f[x] : x \in DOMAIN f}) = Cardinality(DOMAIN f)
  <1> DEFINE S == DOMAIN f
             T == {f[x] : x \in DOMAIN f}
             g == [x \in S |-> f[x]]
  <1>1. g \in Surjection(S, T)
    BY DEF Surjection
  <1>2. g \in Injection(S, T)
    BY DEF Injection, IsInjective
  <1> QED
    BY <1>1, <1>2, FS_Surjection

LEMMA AfterIsFinite ==
    ASSUME NEW s, IsSequence(s), NEW i \in Nat
    PROVE  IsFiniteSet(After(s, i)) /\ Cardinality(After(s, i)) \in Nat
  <1> DEFINE f == [n \in i + 1 .. Len(s) |-> s[n].key]
  <1>1. IsFiniteSet(DOMAIN f)
    BY SequenceShape, FS_Interval
  <1>2. After(s, i) = {f[n] : n \in DOMAIN f}
    BY DEF After
  <1> HIDE DEF f
  <1>3. IsFiniteSet(After(s, i))
    BY <1>1, <1>2, ImageIsFinite
  <1> QED
    BY <1>3, FS_CardinalityType

\* A pair is behind an entry once.
LEMMA AfterCounts ==
    ASSUME NEW s, IsSequence(s), Distinct(s), NEW i \in DOMAIN s
    PROVE  Cardinality(After(s, i)) = Len(s) - i
  <1> DEFINE S == i + 1 .. Len(s)
             f == [n \in S |-> s[n].key]
  <1>1. i \in 1 .. Len(s) /\ Len(s) \in Nat /\ DOMAIN s = 1 .. Len(s)
    BY SequenceShape
  <1>2. IsFiniteSet(DOMAIN f) /\ Cardinality(DOMAIN f) = Len(s) - i
    <2>1. i + 1 \in Int /\ Len(s) \in Int
      BY <1>1
    <2>2. /\ IsFiniteSet(S)
          /\ Cardinality(S) = IF i + 1 > Len(s) THEN 0 ELSE Len(s) - (i + 1) + 1
      BY <2>1, FS_Interval
    <2> QED
      BY <1>1, <2>2
  <1>3. After(s, i) = {f[n] : n \in DOMAIN f}
    BY DEF After
  <1>4. \A n, m \in DOMAIN f : f[n] = f[m] => n = m
    BY <1>1 DEF Distinct
  <1> HIDE DEF f
  <1> QED
    BY <1>2, <1>3, <1>4, InjectiveImage

LEMMA AppendAfter ==
    ASSUME NEW s, IsSequence(s), NEW e, NEW i \in 1 .. Len(s)
    PROVE  /\ Append(s, e)[i] = s[i]
           /\ After(Append(s, e), i) = After(s, i) \cup {e.key}
  <1> DEFINE v == Append(s, e)
  <1>1. /\ Len(s) \in Nat /\ Len(v) = Len(s) + 1 /\ v[Len(s) + 1] = e
        /\ \A n \in 1 .. Len(s) : v[n] = s[n]
    BY AppendShape, SequenceShape
  <1> HIDE DEF v
  <1>2. After(v, i) \subseteq After(s, i) \cup {e.key}
    <2> SUFFICES ASSUME NEW n \in i + 1 .. Len(v) PROVE v[n].key \in After(s, i) \cup {e.key}
      BY DEF After
    <2>1. n = Len(s) + 1 \/ n \in i + 1 .. Len(s)
      BY <1>1
    <2>2. CASE n \in i + 1 .. Len(s)
      BY <1>1, <2>2 DEF After
    <2> QED
      BY <1>1, <2>1, <2>2
  <1>3. After(s, i) \subseteq After(v, i)
    <2> SUFFICES ASSUME NEW n \in i + 1 .. Len(s) PROVE s[n].key \in After(v, i)
      BY DEF After
    <2>1. n \in i + 1 .. Len(v) /\ v[n] = s[n]
      BY <1>1
    <2> QED
      BY <2>1 DEF After
  <1>4. e.key \in After(v, i)
    <2>1. Len(s) + 1 \in i + 1 .. Len(v)
      BY <1>1
    <2> QED
      BY <1>1, <2>1 DEF After
  <1>5. v[i] = s[i]
    BY <1>1
  <1> QED
    BY <1>2, <1>3, <1>4, <1>5 DEF v

LEMMA AppendDistinct ==
    ASSUME NEW s, IsSequence(s), Distinct(s), NEW e, \A i \in DOMAIN s : s[i].key # e.key
    PROVE  Distinct(Append(s, e))
  <1> DEFINE v == Append(s, e)
  <1>1. /\ Len(s) \in Nat /\ DOMAIN s = 1 .. Len(s) /\ DOMAIN v = 1 .. Len(s) + 1
        /\ v[Len(s) + 1] = e
        /\ \A n \in 1 .. Len(s) : v[n] = s[n]
    BY AppendShape, SequenceShape
  <1> HIDE DEF v
  <1> SUFFICES ASSUME NEW i \in DOMAIN v, NEW n \in DOMAIN v, v[i].key = v[n].key
               PROVE  i = n
    BY DEF Distinct, v
  <1>2. (i \in DOMAIN s \/ i = Len(s) + 1) /\ (n \in DOMAIN s \/ n = Len(s) + 1)
    BY <1>1
  <1>3. CASE i \in DOMAIN s /\ n \in DOMAIN s
    BY <1>1, <1>3 DEF Distinct
  <1> QED
    BY <1>1, <1>2, <1>3

\* Where what is left of m has come from.
Comes(w, m, i, key) ==
    \E p \in DOMAIN m : /\ w[i] = m[p] /\ m[p].key # key
                        /\ After(w, i) = After(m, p) \ {key}

LEMMA WithoutShape ==
    ASSUME IsSequence(_last_turn), Distinct(_last_turn), NEW key
    PROVE  /\ IsSequence(Without(key)) /\ Distinct(Without(key))
           /\ Len(Without(key)) <= Len(_last_turn)
           /\ \A i \in DOMAIN Without(key) : Comes(Without(key), _last_turn, i, key)
           /\ \A p \in DOMAIN _last_turn : _last_turn[p].key # key =>
                \E i \in DOMAIN Without(key) : Without(key)[i] = _last_turn[p]
  <1> PICK m : m = _last_turn
    OBVIOUS
  <1> PICK w : w = Without(key)
    OBVIOUS
  <1>1. IsSequence(m) /\ Distinct(m) /\ Len(m) \in Nat /\ DOMAIN m = 1 .. Len(m)
    BY SequenceShape
  <1> SUFFICES /\ IsSequence(w) /\ Distinct(w)
               /\ Len(w) <= Len(m)
               /\ \A i \in DOMAIN w : Comes(w, m, i, key)
               /\ \A p \in DOMAIN m : m[p].key # key => \E i \in DOMAIN w : w[i] = m[p]
    OBVIOUS
  <1>2. CASE Places(key) = {}
    <2>1. w = m
      BY <1>2 DEF Without
    <2>2. \A i \in DOMAIN m : m[i].key # key
      BY <1>2 DEF Places
    <2>3. \A i \in DOMAIN m : Comes(m, m, i, key)
      <3> SUFFICES ASSUME NEW i \in DOMAIN m PROVE key \notin After(m, i)
        BY <2>2 DEF Comes
      <3> QED
        BY <1>1, <2>2 DEF After
    <2> QED
      BY <1>1, <2>1, <2>3
  <1>3. CASE Places(key) # {}
    <2> DEFINE x == CHOOSE i \in Places(key) : TRUE
    <2>1. x \in Places(key)
      BY <1>3
    <2> HIDE DEF x
    <2>2. x \in 1 .. Len(m) /\ m[x].key = key
      BY <1>1, <2>1 DEF Places
    <2>3. w = RemoveAt(m, x)
      BY <1>3 DEF Without, x
    <2>4. /\ IsSequence(w) /\ Len(w) = Len(m) - 1 /\ DOMAIN w = 1 .. Len(m) - 1
          /\ \A n \in 1 .. Len(m) - 1 : w[n] = IF n < x THEN m[n] ELSE m[n + 1]
      <3>1. PICK r : r = RemoveAt(m, x)
        OBVIOUS
      <3>2. /\ IsSequence(r) /\ Len(r) = Len(m) - 1
            /\ \A n \in 1 .. Len(m) - 1 : r[n] = IF n < x THEN m[n] ELSE m[n + 1]
        BY <1>1, <2>2, <3>1, RemoveShape
      <3>3. DOMAIN r = 1 .. Len(m) - 1
        BY <3>2, SequenceShape
      <3> QED
        BY <2>3, <3>1, <3>2, <3>3
    <2>5. \A p \in DOMAIN m : m[p].key = key => p = x
      BY <1>1, <2>2 DEF Distinct
    <2>6. \A p \in DOMAIN m : m[p].key # key => \E i \in DOMAIN w : w[i] = m[p]
      <3> SUFFICES ASSUME NEW p \in DOMAIN m, m[p].key # key
                   PROVE  \E i \in DOMAIN w : w[i] = m[p]
        OBVIOUS
      <3>1. p # x
        BY <2>2
      <3>2. CASE p < x
        <4>1. p \in 1 .. Len(m) - 1
          BY <1>1, <2>2, <3>2
        <4> QED
          BY <2>4, <3>2, <4>1
      <3>3. CASE p > x
        <4>1. p - 1 \in 1 .. Len(m) - 1 /\ ~(p - 1 < x) /\ p - 1 + 1 = p
          BY <1>1, <2>2, <3>3
        <4>2. w[p - 1] = m[p]
          BY <2>4, <4>1
        <4> QED
          BY <2>4, <4>1, <4>2
      <3> QED
        BY <1>1, <2>2, <3>1, <3>2, <3>3
    <2> DEFINE at == [n \in 1 .. Len(m) - 1 |-> IF n < x THEN n ELSE n + 1]
    <2>7. \A n \in DOMAIN w :
             /\ at[n] \in DOMAIN m /\ at[n] # x /\ w[n] = m[at[n]]
             /\ \A o \in DOMAIN w : (n < o <=> at[n] < at[o])
      BY <1>1, <2>2, <2>4
    <2>8. \A p \in DOMAIN m : p # x => \E n \in DOMAIN w : at[n] = p
      <3> SUFFICES ASSUME NEW p \in DOMAIN m, p # x PROVE \E n \in DOMAIN w : at[n] = p
        OBVIOUS
      <3>1. CASE p < x
        <4>1. p \in 1 .. Len(m) - 1 /\ at[p] = p
          BY <1>1, <2>2, <3>1
        <4> QED
          BY <2>4, <4>1
      <3>2. CASE p > x
        <4>1. p - 1 \in 1 .. Len(m) - 1 /\ at[p - 1] = p
          BY <1>1, <2>2, <3>2
        <4> QED
          BY <2>4, <4>1
      <3> QED
        BY <1>1, <2>2, <3>1, <3>2
    <2> HIDE DEF at
    <2>9. \A i \in DOMAIN w : Comes(w, m, i, key)
      <3> SUFFICES ASSUME NEW i \in DOMAIN w PROVE After(w, i) = After(m, at[i]) \ {key}
        BY <2>5, <2>7 DEF Comes
      <3>1. After(w, i) \subseteq After(m, at[i]) \ {key}
        <4> SUFFICES ASSUME NEW n \in i + 1 .. Len(w)
                     PROVE  w[n].key \in After(m, at[i]) \ {key}
          BY DEF After
        <4>1. n \in DOMAIN w /\ i < n
          BY <1>1, <2>4
        <4>2. at[n] \in DOMAIN m /\ at[i] \in DOMAIN m /\ at[n] # x /\ w[n] = m[at[n]] /\ at[i] < at[n]
          BY <2>7, <4>1
        <4>3. at[n] \in at[i] + 1 .. Len(m)
          BY <1>1, <4>2
        <4>4. m[at[n]].key \in After(m, at[i])
          BY <4>3 DEF After
        <4> QED
          BY <2>5, <4>2, <4>4
      <3>2. After(m, at[i]) \ {key} \subseteq After(w, i)
        <4> SUFFICES ASSUME NEW p \in at[i] + 1 .. Len(m), m[p].key # key
                     PROVE  m[p].key \in After(w, i)
          BY DEF After
        <4>1. at[i] \in DOMAIN m
          BY <2>7
        <4>2. p \in DOMAIN m /\ p # x /\ at[i] < p
          BY <1>1, <2>2, <4>1
        <4>3. PICK n \in DOMAIN w : at[n] = p
          BY <2>8, <4>2
        <4>4. i < n /\ w[n] = m[p]
          BY <2>7, <4>2, <4>3
        <4>5. n \in i + 1 .. Len(w)
          BY <1>1, <2>4, <4>4
        <4> QED
          BY <4>4, <4>5 DEF After
      <3> QED
        BY <3>1, <3>2
    <2>10. Distinct(w)
      <3> SUFFICES ASSUME NEW i \in DOMAIN w, NEW n \in DOMAIN w, w[i].key = w[n].key
                   PROVE  i = n
        BY DEF Distinct
      <3>1. at[i] = at[n]
        BY <1>1, <2>7 DEF Distinct
      <3>2. ~(i < n) /\ ~(n < i)
        <4>1. at[i] \in 1 .. Len(m)
          BY <1>1, <2>7
        <4> QED
          BY <1>1, <2>7, <3>1, <4>1
      <3> QED
        BY <1>1, <2>4, <3>2
    <2> QED
      BY <1>1, <2>4, <2>6, <2>9, <2>10
  <1> QED
    BY <1>2, <1>3

LEMMA LatestIsOne ==
    ASSUME NEW h, IsSequence(h), NEW i \in DOMAIN h, NEW j \in DOMAIN h,
           h[i].key = h[j].key, Latest(h, i), Latest(h, j)
    PROVE  i = j
  <1>1. Len(h) \in Nat /\ DOMAIN h = 1 .. Len(h)
    BY SequenceShape
  <1>2. \A n, m \in DOMAIN h : n < m => h[m].key \in After(h, n)
    <2> SUFFICES ASSUME NEW n \in DOMAIN h, NEW m \in DOMAIN h, n < m
                 PROVE  h[m].key \in After(h, n)
      OBVIOUS
    <2>1. m \in n + 1 .. Len(h)
      BY <1>1
    <2> QED
      BY <2>1 DEF After
  <1>3. ~(i < j) /\ ~(j < i)
    BY <1>2 DEF Latest
  <1> QED
    BY <1>1, <1>3

\* What Tracks says, but for the bound.
Holds(m, h) ==
    /\ IsSequence(m) /\ IsSequence(h) /\ Distinct(m)
    /\ \A i \in DOMAIN m : Placed(m, h, i)
    /\ \A j \in DOMAIN h : Latest(h, j) => Remembered(m, h, j)

\* A turn moves its pair to the end of the map.
LEMMA MovedHolds ==
    ASSUME Tracks(_last_turn, turns), NEW turn
    PROVE  /\ Holds(Moved(turn), Append(turns, turn))
           /\ Len(Moved(turn)) > 0
           /\ Len(Moved(turn)) <= _MAX_TRACKED + 1
  <1> PICK m : m = _last_turn
    OBVIOUS
  <1> PICK h : h = turns
    OBVIOUS
  <1> PICK w : w = Without(turn.key)
    OBVIOUS
  <1> DEFINE v == Append(w, turn)
             g == Append(h, turn)
  <1>0. _MAX_TRACKED \in Nat
    BY CacheTtlAssumption
  <1>1. /\ IsSequence(m) /\ IsSequence(h) /\ Len(m) \in Nat /\ Len(h) \in Nat
        /\ DOMAIN h = 1 .. Len(h)
        /\ Len(m) <= _MAX_TRACKED
        /\ Distinct(m)
    BY SequenceShape DEF Tracks
  <1>2. /\ IsSequence(w) /\ Distinct(w)
        /\ Len(w) <= Len(m)
        /\ \A i \in DOMAIN w : Comes(w, m, i, turn.key)
        /\ \A p \in DOMAIN m : m[p].key # turn.key => \E i \in DOMAIN w : w[i] = m[p]
    BY WithoutShape DEF Tracks
  <1>3. Len(w) \in Nat /\ DOMAIN w = 1 .. Len(w)
    BY <1>2, SequenceShape
  <1>4. /\ IsSequence(v) /\ Len(v) = Len(w) + 1 /\ DOMAIN v = 1 .. Len(w) + 1
        /\ v[Len(w) + 1] = turn
    BY <1>2, AppendShape, SequenceShape
  <1>5. /\ IsSequence(g) /\ Len(g) = Len(h) + 1 /\ DOMAIN g = 1 .. Len(h) + 1
        /\ g[Len(h) + 1] = turn
    BY <1>1, AppendShape, SequenceShape
  <1>6. \A i \in 1 .. Len(w) : v[i] = w[i] /\ After(v, i) = After(w, i) \cup {turn.key}
    BY <1>2, AppendAfter
  <1>7. \A j \in 1 .. Len(h) : g[j] = h[j] /\ After(g, j) = After(h, j) \cup {turn.key}
    BY <1>1, AppendAfter
  <1>8. Distinct(v)
    <2>1. \A i \in DOMAIN w : w[i].key # turn.key
      BY <1>2 DEF Comes
    <2> QED
      BY <1>2, <2>1, AppendDistinct
  <1>9. v = Moved(turn)
    BY DEF Moved
  <1> HIDE DEF v, g
  <1>10. After(v, Len(v)) = {} /\ After(g, Len(g)) = {}
    <2>1. Len(v) + 1 .. Len(v) = {} /\ Len(g) + 1 .. Len(g) = {}
      BY <1>1, <1>3, <1>4, <1>5
    <2> QED
      BY <2>1 DEF After
  <1>11. \A i \in DOMAIN v : Placed(v, g, i)
    <2> SUFFICES ASSUME NEW i \in DOMAIN v PROVE Placed(v, g, i)
      OBVIOUS
    <2>1. CASE i = Len(w) + 1
      <3>1. Len(h) + 1 \in DOMAIN g
        BY <1>1, <1>5
      <3>2. /\ g[Len(h) + 1] = v[i]
            /\ After(g, Len(h) + 1) = After(v, i) /\ Latest(g, Len(h) + 1)
        BY <1>4, <1>5, <1>10, <2>1 DEF Latest
      <3> QED
        BY <3>1, <3>2 DEF Placed
    <2>2. CASE i \in 1 .. Len(w)
      <3>1. PICK p \in DOMAIN m : /\ w[i] = m[p] /\ m[p].key # turn.key
                                  /\ After(w, i) = After(m, p) \ {turn.key}
        BY <1>2, <1>3, <2>2 DEF Comes
      <3>2. PICK j \in DOMAIN h : h[j] = m[p] /\ Latest(h, j) /\ After(h, j) = After(m, p)
        BY DEF Tracks, Placed
      <3>3. j \in 1 .. Len(h) /\ j \in DOMAIN g
        BY <1>1, <1>5
      <3>4. g[j] = v[i] /\ After(g, j) = After(v, i)
        <4>1. g[j] = v[i]
          BY <1>6, <1>7, <2>2, <3>1, <3>2, <3>3
        <4>2. After(g, j) = After(m, p) \cup {turn.key}
          BY <1>7, <3>2, <3>3
        <4>3. After(v, i) = (After(m, p) \ {turn.key}) \cup {turn.key}
          BY <1>6, <2>2, <3>1
        <4>4. (After(m, p) \ {turn.key}) \cup {turn.key} = After(m, p) \cup {turn.key}
          OBVIOUS
        <4> QED
          BY <4>1, <4>2, <4>3, <4>4
      <3>5. Latest(g, j)
        BY <1>7, <3>1, <3>2, <3>3 DEF Latest
      <3> QED
        BY <3>3, <3>4, <3>5 DEF Placed
    <2> QED
      BY <1>3, <1>4, <2>1, <2>2
  <1>12. \A j \in DOMAIN g : Latest(g, j) => Remembered(v, g, j)
    <2> SUFFICES ASSUME NEW j \in DOMAIN g, Latest(g, j) PROVE Remembered(v, g, j)
      OBVIOUS
    <2>1. CASE j = Len(h) + 1
      <3>1. Len(w) + 1 \in DOMAIN v
        BY <1>3, <1>4
      <3> QED
        BY <1>4, <1>5, <2>1, <3>1 DEF Remembered
    <2>2. CASE j \in 1 .. Len(h)
      <3>1. h[j].key # turn.key /\ Latest(h, j)
        BY <1>7, <2>2 DEF Latest
      <3>2. Remembered(m, h, j)
        BY <1>1, <2>2, <3>1 DEF Tracks
      <3>3. CASE \E p \in DOMAIN m : m[p].key = h[j].key
        <4>1. PICK p \in DOMAIN m : m[p].key = h[j].key
          BY <3>3
        <4>2. PICK i \in DOMAIN w : w[i] = m[p]
          BY <1>2, <3>1, <4>1
        <4>3. i \in DOMAIN v /\ v[i].key = g[j].key
          BY <1>3, <1>4, <1>6, <1>7, <2>2, <4>1, <4>2
        <4> QED
          BY <4>3 DEF Remembered
      <3>4. CASE Cardinality(After(h, j)) >= _MAX_TRACKED
        <4>1. /\ IsFiniteSet(After(g, j)) /\ Cardinality(After(g, j)) \in Nat
              /\ Cardinality(After(h, j)) \in Nat
          BY <1>1, <1>5, <2>2, AfterIsFinite
        <4>2. Cardinality(After(h, j)) <= Cardinality(After(g, j))
          BY <1>7, <2>2, <4>1, FS_Subset
        <4>3. Cardinality(After(g, j)) >= _MAX_TRACKED
          BY <1>0, <3>4, <4>1, <4>2
        <4> QED
          BY <4>3 DEF Remembered
      <3> QED
        BY <3>2, <3>3, <3>4 DEF Remembered
    <2> QED
      BY <1>1, <1>5, <2>1, <2>2
  <1>13. Holds(v, g)
    BY <1>4, <1>5, <1>8, <1>11, <1>12 DEF Holds
  <1>14. Len(v) > 0 /\ Len(v) <= _MAX_TRACKED + 1
    BY <1>0, <1>1, <1>2, <1>3, <1>4
  <1> QED
    BY <1>9, <1>13, <1>14 DEF g

\* The map gives up its first pair when it is too long.
Trimmed(v) == IF Len(v) > _MAX_TRACKED THEN Tail(v) ELSE v

LEMMA TrimmedTracks ==
    ASSUME NEW v, NEW h, Holds(v, h), Len(v) > 0, Len(v) <= _MAX_TRACKED + 1
    PROVE  Tracks(Trimmed(v), h)
  <1>0. _MAX_TRACKED \in Nat \ {0}
    BY CacheTtlAssumption
  <1>1. /\ IsSequence(v) /\ Len(v) \in Nat /\ DOMAIN v = 1 .. Len(v) /\ Distinct(v)
        /\ IsSequence(h) /\ DOMAIN h = 1 .. Len(h) /\ Len(h) \in Nat
    BY SequenceShape DEF Holds
  <1>2. CASE ~(Len(v) > _MAX_TRACKED)
    <2>1. Len(v) <= _MAX_TRACKED
      BY <1>0, <1>1, <1>2
    <2> QED
      BY <1>2, <2>1 DEF Trimmed, Tracks, Holds
  <1>3. CASE Len(v) > _MAX_TRACKED
    <2> DEFINE t == Tail(v)
    <2>1. /\ IsSequence(t) /\ Len(t) = Len(v) - 1 /\ DOMAIN t = 1 .. Len(v) - 1
          /\ \A n \in 1 .. Len(v) - 1 : t[n] = v[n + 1]
      BY <1>1, TailShape, SequenceShape
    <2>2. Trimmed(v) = t
      BY <1>3 DEF Trimmed
    <2> HIDE DEF t
    <2>3. Len(t) = _MAX_TRACKED
      <3>1. Len(v) = _MAX_TRACKED + 1
        <4>1. PICK n : n = Len(v)
          OBVIOUS
        <4>2. PICK k : k = _MAX_TRACKED
          OBVIOUS
        <4>3. n \in Nat /\ k \in Nat /\ n > k /\ n <= k + 1
          BY <1>0, <1>1, <1>3, <4>1, <4>2
        <4>4. n = k + 1
          BY <4>3
        <4> QED
          BY <4>1, <4>2, <4>4
      <3> QED
        BY <1>0, <2>1, <3>1
    <2>4. \A n \in 1 .. Len(t) : After(t, n) = After(v, n + 1)
      <3> SUFFICES ASSUME NEW n \in 1 .. Len(t) PROVE After(t, n) = After(v, n + 1)
        OBVIOUS
      <3>1. ASSUME NEW o \in n + 1 .. Len(t) PROVE t[o].key \in After(v, n + 1)
        <4>1. o + 1 \in n + 1 + 1 .. Len(v) /\ t[o] = v[o + 1]
          BY <1>1, <2>1
        <4> QED
          BY <4>1 DEF After
      <3>2. ASSUME NEW o \in n + 1 + 1 .. Len(v) PROVE v[o].key \in After(t, n)
        <4>1. o - 1 \in n + 1 .. Len(t) /\ o - 1 \in 1 .. Len(v) - 1 /\ o - 1 + 1 = o
          BY <1>1, <2>1
        <4>2. t[o - 1] = v[o]
          BY <2>1, <4>1
        <4> QED
          BY <4>1, <4>2 DEF After
      <3> QED
        BY <3>1, <3>2 DEF After
    <2>5. Distinct(t)
      <3> SUFFICES ASSUME NEW i \in DOMAIN t, NEW n \in DOMAIN t, t[i].key = t[n].key
                   PROVE  i = n
        BY DEF Distinct
      <3>1. i + 1 \in DOMAIN v /\ n + 1 \in DOMAIN v /\ t[i] = v[i + 1] /\ t[n] = v[n + 1]
        BY <1>1, <2>1
      <3>2. i + 1 = n + 1
        BY <1>1, <3>1 DEF Distinct
      <3> QED
        BY <1>1, <2>1, <3>2
    <2>6. \A i \in DOMAIN t : Placed(t, h, i)
      <3> SUFFICES ASSUME NEW i \in DOMAIN t PROVE Placed(t, h, i)
        OBVIOUS
      <3>1. i + 1 \in DOMAIN v /\ t[i] = v[i + 1] /\ After(t, i) = After(v, i + 1)
        BY <1>1, <2>1, <2>4
      <3>2. Placed(v, h, i + 1)
        BY <3>1 DEF Holds
      <3> QED
        BY <3>1, <3>2 DEF Placed
    <2>7. \A j \in DOMAIN h : Latest(h, j) => Remembered(t, h, j)
      <3> SUFFICES ASSUME NEW j \in DOMAIN h, Latest(h, j) PROVE Remembered(t, h, j)
        OBVIOUS
      <3>1. CASE Cardinality(After(h, j)) >= _MAX_TRACKED
        BY <3>1 DEF Remembered
      <3>2. CASE \E i \in DOMAIN v : v[i].key = h[j].key
        <4>1. PICK i \in DOMAIN v : v[i].key = h[j].key
          BY <3>2
        <4>2. CASE i = 1
          <5>1. PICK n \in DOMAIN h : h[n] = v[1] /\ Latest(h, n) /\ After(h, n) = After(v, 1)
            BY <4>2 DEF Holds, Placed
          <5>2. n = j
            BY <1>1, <4>1, <4>2, <5>1, LatestIsOne
          <5>3. Cardinality(After(v, 1)) = Len(v) - 1
            BY <1>1, <4>2, AfterCounts
          <5>4. Cardinality(After(h, j)) = _MAX_TRACKED
            BY <2>1, <2>3, <5>1, <5>2, <5>3
          <5> QED
            BY <1>0, <5>4 DEF Remembered
        <4>3. CASE i # 1
          <5>1. i - 1 \in DOMAIN t /\ i - 1 + 1 = i
            BY <1>1, <2>1, <4>3
          <5>2. t[i - 1] = v[i]
            BY <2>1, <5>1
          <5> QED
            BY <4>1, <5>1, <5>2 DEF Remembered
        <4> QED
          BY <4>2, <4>3
      <3>3. Remembered(v, h, j)
        BY DEF Holds
      <3> QED
        BY <3>1, <3>2, <3>3 DEF Remembered
    <2>8. Len(t) <= _MAX_TRACKED
      BY <1>0, <2>3
    <2> QED
      BY <1>1, <2>1, <2>2, <2>5, <2>6, <2>7, <2>8 DEF Tracks
  <1> QED
    BY <1>2, <1>3

-----------------------------------------------------------------------------
(* The pauses.                                                             *)

\* j is the turn before i of the same pair in h, with too few pairs between to
\* push it out
Precedes(h, j, i) ==
    /\ j \in 1 .. i - 1
    /\ h[j].key = h[i].key
    /\ \A k \in j + 1 .. i - 1 : h[k].key # h[i].key
    /\ Cardinality({h[k].key : k \in j + 1 .. i - 1}) < _MAX_TRACKED

Paused(h, i, p) == \E j \in 1 .. i - 1 : Precedes(h, j, i) /\ PauseOf(h[i].at - h[j].at) = p

\* of the turns after the n-th
PausedSo(h, n, p) == {i \in n + 1 .. Len(h) : Paused(h, i, p)}

\* beside the pauses l, g has those since the n-th turn
PausesCounted(h, n, g, l) == \A p \in Pause : g[p] = l[p] + Cardinality(PausedSo(h, n, p))

LEMMA PausesAreCounted == PausesRight <=> PausesCounted(turns, since, gaps, loaded)
  <1>1. ASSUME NEW p, NEW i \in since + 1 .. Len(turns)
        PROVE  (\E j \in Before(i) : /\ Cardinality(Between(j, i)) < _MAX_TRACKED
                                     /\ PauseOf(turns[i].at - turns[j].at) = p)
               <=> Paused(turns, i, p)
    BY DEF Before, Between, Paused, Precedes
  <1>2. ASSUME NEW p
        PROVE  {i \in since + 1 .. Len(turns) :
                  \E j \in Before(i) : /\ Cardinality(Between(j, i)) < _MAX_TRACKED
                                       /\ PauseOf(turns[i].at - turns[j].at) = p}
               = PausedSo(turns, since, p)
    BY <1>1 DEF PausedSo
  <1> QED
    BY <1>2 DEF PausesRight, PausesCounted

\* Earlier turns keep their pauses.
LEMMA PausedEarlier ==
    ASSUME NEW h, IsSequence(h), NEW turn, NEW i \in 1 .. Len(h), NEW p
    PROVE  Paused(Append(h, turn), i, p) <=> Paused(h, i, p)
  <1> PICK g : g = Append(h, turn)
    OBVIOUS
  <1>1. Len(h) \in Nat /\ \A k \in 1 .. Len(h) : g[k] = h[k]
    BY AppendShape, SequenceShape
  <1>2. ASSUME NEW j \in 1 .. i - 1 PROVE Precedes(g, j, i) <=> Precedes(h, j, i)
    <2>1. g[i] = h[i] /\ g[j] = h[j] /\ \A k \in j + 1 .. i - 1 : g[k] = h[k]
      BY <1>1
    <2>2. {g[k].key : k \in j + 1 .. i - 1} = {h[k].key : k \in j + 1 .. i - 1}
      BY <2>1
    <2> QED
      BY <2>1, <2>2 DEF Precedes
  <1>3. \A j \in 1 .. i - 1 : g[j] = h[j] /\ g[i] = h[i]
    BY <1>1
  <1> QED
    BY <1>2, <1>3 DEF Paused

\* The new turn has the pause that the map says, if it says one.
LEMMA PausedNow ==
    ASSUME Tracks(_last_turn, turns), NEW key, NEW at, NEW p
    PROVE  Paused(Append(turns, [key |-> key, at |-> at]), Len(turns) + 1, p)
             <=> \E i \in Places(key) : PauseOf(at - _last_turn[i].at) = p
  <1> PICK m : m = _last_turn
    OBVIOUS
  <1> PICK h : h = turns
    OBVIOUS
  <1> PICK turn : turn = [key |-> key, at |-> at]
    OBVIOUS
  <1> PICK g : g = Append(h, turn)
    OBVIOUS
  <1>0. turn.key = key /\ turn.at = at /\ _MAX_TRACKED \in Nat
    BY CacheTtlAssumption
  <1>1. /\ IsSequence(m) /\ Len(m) \in Nat /\ DOMAIN m = 1 .. Len(m) /\ Distinct(m)
        /\ IsSequence(h) /\ Len(h) \in Nat /\ DOMAIN h = 1 .. Len(h)
        /\ Len(m) <= _MAX_TRACKED
    BY SequenceShape DEF Tracks
  <1>2. /\ g[Len(h) + 1] = turn
        /\ \A k \in 1 .. Len(h) : g[k] = h[k]
    BY <1>1, AppendShape
  <1>3. ASSUME NEW j \in DOMAIN h
        PROVE  Precedes(g, j, Len(h) + 1)
                 <=> /\ h[j].key = key /\ Latest(h, j)
                     /\ Cardinality(After(h, j)) < _MAX_TRACKED
    <2>1. /\ j \in 1 .. Len(h) + 1 - 1
          /\ j + 1 .. Len(h) + 1 - 1 = j + 1 .. Len(h)
          /\ \A k \in j + 1 .. Len(h) : g[k] = h[k]
          /\ g[j] = h[j]
      BY <1>1, <1>2
    <2>2. {g[k].key : k \in j + 1 .. Len(h)} = After(h, j)
      BY <2>1 DEF After
    <2>3. (\A k \in j + 1 .. Len(h) : g[k].key # key) <=> key \notin After(h, j)
      BY <2>1 DEF After
    <2>4. \A k \in j + 1 .. Len(h) + 1 - 1 : k \in j + 1 .. Len(h)
      BY <2>1
    <2>5. g[Len(h) + 1].key = key
      BY <1>0, <1>2
    <2>6. {g[k].key : k \in j + 1 .. Len(h) + 1 - 1} = After(h, j)
      BY <2>1, <2>2
    <2>7. (\A k \in j + 1 .. Len(h) + 1 - 1 : g[k].key # g[Len(h) + 1].key)
            <=> key \notin After(h, j)
      BY <2>1, <2>3, <2>5
    <2>8. Precedes(g, j, Len(h) + 1)
            <=> /\ h[j].key = key /\ key \notin After(h, j)
                /\ Cardinality(After(h, j)) < _MAX_TRACKED
      <3> DEFINE n == Len(h) + 1
                 between == {g[k].key : k \in j + 1 .. n - 1}
                 others == \A k \in j + 1 .. n - 1 : g[k].key # g[n].key
      <3>1. Precedes(g, j, n)
              <=> /\ j \in 1 .. n - 1
                  /\ g[j].key = g[n].key
                  /\ others
                  /\ Cardinality(between) < _MAX_TRACKED
        BY DEF Precedes
      <3>2. between = After(h, j) /\ (others <=> key \notin After(h, j)) /\ j \in 1 .. n - 1
        BY <2>1, <2>6, <2>7
      <3>3. g[j].key = h[j].key /\ g[n].key = key
        BY <2>1, <2>5
      <3> HIDE DEF n, between, others
      <3>4. Precedes(g, j, n)
              <=> /\ h[j].key = key /\ key \notin After(h, j)
                  /\ Cardinality(After(h, j)) < _MAX_TRACKED
        BY <3>1, <3>2, <3>3
      <3> QED
        BY <3>4 DEF n
    <2> QED
      BY <2>8 DEF Latest
  <1>4. ASSUME NEW i \in DOMAIN m, m[i].key = key
        PROVE  \E j \in DOMAIN h : Precedes(g, j, Len(h) + 1) /\ h[j] = m[i]
    <2>1. PICK j \in DOMAIN h : h[j] = m[i] /\ Latest(h, j) /\ After(h, j) = After(m, i)
      BY DEF Tracks, Placed
    <2>2. Cardinality(After(m, i)) = Len(m) - i
      BY <1>1, AfterCounts
    <2>3. Cardinality(After(h, j)) < _MAX_TRACKED
      BY <1>0, <1>1, <2>1, <2>2
    <2> QED
      BY <1>3, <1>4, <2>1, <2>3
  <1>5. ASSUME NEW j \in DOMAIN h, Precedes(g, j, Len(h) + 1)
        PROVE  \E i \in DOMAIN m : m[i].key = key /\ h[j] = m[i]
    <2>1. /\ h[j].key = key /\ Latest(h, j)
          /\ Cardinality(After(h, j)) < _MAX_TRACKED
      BY <1>3, <1>5
    <2>2. ~(Cardinality(After(h, j)) >= _MAX_TRACKED)
      <3>1. Cardinality(After(h, j)) \in Nat
        BY <1>1, AfterIsFinite
      <3> QED
        BY <1>0, <2>1, <3>1
    <2>3. PICK i \in DOMAIN m : m[i].key = h[j].key
      BY <2>1, <2>2 DEF Tracks, Remembered
    <2>4. PICK n \in DOMAIN h : h[n] = m[i] /\ Latest(h, n)
      BY DEF Tracks, Placed
    <2>5. n = j
      BY <1>1, <2>1, <2>3, <2>4, LatestIsOne
    <2> QED
      BY <2>1, <2>3, <2>4, <2>5
  <1>6. Paused(g, Len(h) + 1, p)
          <=> \E j \in DOMAIN h : Precedes(g, j, Len(h) + 1) /\ PauseOf(at - h[j].at) = p
    <2>1. 1 .. Len(h) + 1 - 1 = DOMAIN h
      BY <1>1
    <2>2. \A j \in DOMAIN h : g[j] = h[j] /\ g[Len(h) + 1].at = at
      BY <1>0, <1>1, <1>2
    <2> QED
      BY <2>1, <2>2 DEF Paused
  <1>7. (\E i \in Places(key) : PauseOf(at - m[i].at) = p)
          <=> \E i \in DOMAIN m : m[i].key = key /\ PauseOf(at - m[i].at) = p
    BY DEF Places
  <1>8. (\E j \in DOMAIN h : Precedes(g, j, Len(h) + 1) /\ PauseOf(at - h[j].at) = p)
          <=> \E i \in DOMAIN m : m[i].key = key /\ PauseOf(at - m[i].at) = p
    BY <1>4, <1>5
  <1>9. Paused(g, Len(h) + 1, p) <=> \E i \in Places(key) : PauseOf(at - m[i].at) = p
    BY <1>6, <1>7, <1>8
  <1> QED
    BY <1>9

LEMMA AtMostOne ==
    ASSUME NEW S, \A x, y \in S : x = y
    PROVE  Cardinality(S) = IF S = {} THEN 0 ELSE 1
  <1>1. CASE S = {}
    BY <1>1, FS_EmptySet
  <1>2. CASE S # {}
    <2>1. PICK x : S = {x}
      BY <1>2
    <2> QED
      BY <1>2, <2>1, FS_Singleton
  <1> QED
    BY <1>1, <1>2

\* One turn more, one pause more where there is one.
LEMMA PauseAdded ==
    ASSUME Tracks(_last_turn, turns), NEW n \in 0 .. Len(turns), NEW key, NEW at, NEW p
    PROVE  /\ Cardinality(PausedSo(turns, n, p)) \in Nat
           /\ Cardinality({i \in Places(key) : PauseOf(at - _last_turn[i].at) = p}) \in Nat
           /\ Cardinality(PausedSo(Append(turns, [key |-> key, at |-> at]), n, p))
                = Cardinality(PausedSo(turns, n, p))
                  + Cardinality({i \in Places(key) : PauseOf(at - _last_turn[i].at) = p})
  <1> PICK h : h = turns
    OBVIOUS
  <1> PICK g : g = Append(h, [key |-> key, at |-> at])
    OBVIOUS
  <1> DEFINE now_ == {i \in Places(key) : PauseOf(at - _last_turn[i].at) = p}
  <1>1. /\ IsSequence(h) /\ Len(h) \in Nat /\ DOMAIN h = 1 .. Len(h)
        /\ Distinct(_last_turn) /\ n \in 0 .. Len(h)
    BY SequenceShape DEF Tracks
  <1>2. Len(g) = Len(h) + 1
    BY <1>1, AppendShape, SequenceShape
  <1>3. \A i \in 1 .. Len(h) : Paused(g, i, p) <=> Paused(h, i, p)
    BY <1>1, PausedEarlier
  <1>4. Paused(g, Len(h) + 1, p) <=> now_ # {}
    BY PausedNow
  <1>5. Cardinality(now_) = IF now_ = {} THEN 0 ELSE 1
    <2>1. \A x, y \in now_ : x = y
      BY <1>1 DEF Places, Distinct
    <2> HIDE DEF now_
    <2> QED
      BY <2>1, AtMostOne
  <1>6. Cardinality(now_) \in Nat
    BY <1>5
  <1> HIDE DEF now_
  <1>7. IsFiniteSet(PausedSo(h, n, p)) /\ Cardinality(PausedSo(h, n, p)) \in Nat
    <2>1. IsFiniteSet(n + 1 .. Len(h)) /\ PausedSo(h, n, p) \subseteq n + 1 .. Len(h)
      BY <1>1, FS_Interval DEF PausedSo
    <2> QED
      BY <2>1, FS_Subset, FS_CardinalityType
  <1>8. Len(h) + 1 \notin PausedSo(h, n, p)
    BY <1>1 DEF PausedSo
  <1>9. n + 1 .. Len(g) = (n + 1 .. Len(h)) \cup {Len(h) + 1} /\ n + 1 .. Len(h) \subseteq 1 .. Len(h)
    BY <1>1, <1>2
  <1>10. CASE now_ = {}
    <2>1. PausedSo(g, n, p) = PausedSo(h, n, p)
      BY <1>3, <1>4, <1>9, <1>10 DEF PausedSo
    <2>2. Cardinality(PausedSo(g, n, p)) = Cardinality(PausedSo(h, n, p)) + Cardinality(now_)
      BY <1>5, <1>7, <1>10, <2>1
    <2> QED
      BY <1>6, <1>7, <2>2 DEF now_
  <1>11. CASE now_ # {}
    <2>1. PausedSo(g, n, p) = PausedSo(h, n, p) \cup {Len(h) + 1}
      BY <1>3, <1>4, <1>9, <1>11 DEF PausedSo
    <2>2. Cardinality(PausedSo(g, n, p)) = Cardinality(PausedSo(h, n, p)) + 1
      BY <1>7, <1>8, <2>1, FS_AddElement
    <2>3. Cardinality(PausedSo(g, n, p)) = Cardinality(PausedSo(h, n, p)) + Cardinality(now_)
      BY <1>5, <1>11, <2>2
    <2> QED
      BY <1>6, <1>7, <2>3 DEF now_
  <1> QED
    BY <1>10, <1>11

\* After the last turn there is no pause.
LEMMA NoPauseYet ==
    ASSUME NEW h, IsSequence(h), NEW p
    PROVE  Cardinality(PausedSo(h, Len(h), p)) = 0
  <1>1. Len(h) \in Nat
    BY SequenceShape
  <1>2. PausedSo(h, Len(h), p) = {}
    BY <1>1 DEF PausedSo
  <1> QED
    BY <1>2, FS_EmptySet

PauseCounts == [Pause -> Nat]

FileHasCounts(file) == file # NoFile => file.gaps \in PauseCounts

\* The map tracks the turns and the pauses are those of the history.
TurnsInv ==
    /\ Tracks(_last_turn, turns)
    /\ since \in 0 .. Len(turns)
    /\ loaded \in PauseCounts /\ gaps \in PauseCounts
    /\ FileHasCounts(stored)
    /\ PausesCounted(turns, since, gaps, loaded)

LEMMA NoGapsCount == NoGaps \in PauseCounts /\ \A p \in Pause : NoGaps[p] = 0
  BY DEF NoGaps, PauseCounts

\* A turn is recorded on top of the pauses g, of which l were there n turns ago.
LEMMA TurnRecorded ==
    ASSUME Tracks(_last_turn, turns), NEW n \in 0 .. Len(turns),
           NEW l \in PauseCounts, NEW g \in PauseCounts, PausesCounted(turns, n, g, l),
           NEW session, NEW model, record_cache_ttl_usage(session, model, g)
    PROVE  /\ Tracks(_last_turn, turns)'
           /\ n \in 0 .. Len(turns')
           /\ gaps' \in PauseCounts
           /\ PausesCounted(turns', n, gaps', l)
  <1>1. CASE session = NoSession
    <2>1. UNCHANGED <<_last_turn, turns>> /\ gaps' = g
      BY <1>1 DEF record_cache_ttl_usage
    <2> QED
      BY <2>1
  <1>2. CASE session # NoSession
    <2> PICK key : key = <<session, model>>
      OBVIOUS
    <2> PICK turn : turn = [key |-> key, at |-> now]
      OBVIOUS
    <2>1. /\ turn.key = key
          /\ _last_turn' = Trimmed(Moved(turn))
          /\ gaps' = [p \in Pause |->
                        g[p] + Cardinality({i \in Places(key) :
                                              PauseOf(now - _last_turn[i].at) = p})]
          /\ turns' = Append(turns, turn)
      BY <1>2 DEF record_cache_ttl_usage, Trimmed
    <2>2. Tracks(Trimmed(Moved(turn)), Append(turns, turn))
      BY MovedHolds, TrimmedTracks
    <2>3. Tracks(_last_turn, turns)'
      <3>1. _last_turn' = Trimmed(Moved(turn)) /\ turns' = Append(turns, turn)
        BY <2>1
      <3>2. Tracks(_last_turn', turns')
        BY <2>2, <3>1
      <3> QED
        BY <3>2
    <2>4. ASSUME NEW p \in Pause
          PROVE  /\ gaps'[p] \in Nat
                 /\ gaps'[p] = l[p] + Cardinality(PausedSo(Append(turns, turn), n, p))
      <3> PICK x : x = Cardinality({i \in Places(key) : PauseOf(now - _last_turn[i].at) = p})
        OBVIOUS
      <3>1. g[p] = l[p] + Cardinality(PausedSo(turns, n, p))
        BY DEF PausesCounted
      <3>2. /\ Cardinality(PausedSo(turns, n, p)) \in Nat /\ x \in Nat
            /\ Cardinality(PausedSo(Append(turns, turn), n, p))
                 = Cardinality(PausedSo(turns, n, p)) + x
        BY PauseAdded
      <3>3. gaps'[p] = g[p] + x
        BY <2>1
      <3>4. l[p] \in Nat /\ g[p] \in Nat
        BY DEF PauseCounts
      <3> QED
        BY <3>1, <3>2, <3>3, <3>4
    <2>5. PausesCounted(turns', n, gaps', l)
      BY <2>1, <2>4 DEF PausesCounted
    <2>6. gaps' \in PauseCounts
      BY <2>1, <2>4 DEF PauseCounts
    <2>7. n \in 0 .. Len(turns')
      <3>1. IsSequence(turns) /\ Len(turns) \in Nat
        BY SequenceShape DEF Tracks
      <3>2. Len(turns') = Len(turns) + 1
        BY <2>1, <3>1, AppendShape
      <3> QED
        BY <3>1, <3>2
    <2> QED
      BY <2>3, <2>5, <2>6, <2>7
  <1> QED
    BY <1>1, <1>2

LEMMA UsageRecorded ==
    ASSUME TurnsInv, NEW session, NEW model, _record_usage(session, model)
    PROVE  TurnsInv'
  <1>1. CASE ~quota.tracking
    <2>1. UNCHANGED <<_last_turn, turns, since, loaded, gaps, stored>>
      BY <1>1 DEF _record_usage, countVars, turnVars
    <2> QED
      BY <2>1 DEF TurnsInv
  <1>2. CASE quota.tracking
    <2> PICK clears : clears = Clears(period_month, month)
      OBVIOUS
    <2> PICK g : g = IF clears THEN NoGaps ELSE gaps
      OBVIOUS
    <2>1. /\ record_cache_ttl_usage(session, model, g)
          /\ since' = (IF clears THEN Len(turns) ELSE since)
          /\ loaded' = (IF clears THEN NoGaps ELSE loaded)
      BY <1>2 DEF _record_usage
    <2>2. \/ stored' = stored
          \/ stored' = File(period_month', gaps', counted')
          \/ stored' = Cleared(period_month)
      BY <1>2 DEF _record_usage
    <2>3. /\ since' \in 0 .. Len(turns)
          /\ loaded' \in PauseCounts /\ g \in PauseCounts
          /\ PausesCounted(turns, since', g, loaded')
      <3>1. CASE clears
        <4>1. since' = Len(turns) /\ loaded' = NoGaps /\ g = NoGaps
          BY <2>1, <3>1
        <4>2. IsSequence(turns) /\ Len(turns) \in Nat
          BY SequenceShape DEF TurnsInv, Tracks
        <4>3. PausesCounted(turns, Len(turns), NoGaps, NoGaps)
          BY <4>2, NoPauseYet, NoGapsCount DEF PausesCounted
        <4> QED
          BY <4>1, <4>2, <4>3, NoGapsCount
      <3>2. CASE ~clears
        <4>1. since' = since /\ loaded' = loaded /\ g = gaps
          BY <2>1, <3>2
        <4> QED
          BY <4>1 DEF TurnsInv
      <3> QED
        BY <3>1, <3>2
    <2>4. /\ Tracks(_last_turn, turns)'
          /\ since' \in 0 .. Len(turns')
          /\ gaps' \in PauseCounts
          /\ PausesCounted(turns', since', gaps', loaded')
      <3>1. Tracks(_last_turn, turns)
        BY DEF TurnsInv
      <3> PICK n \in 0 .. Len(turns) : n = since'
        BY <2>3
      <3> PICK l \in PauseCounts : l = loaded'
        BY <2>3
      <3>2. /\ Tracks(_last_turn, turns)'
            /\ n \in 0 .. Len(turns')
            /\ gaps' \in PauseCounts
            /\ PausesCounted(turns', n, gaps', l)
        BY <2>1, <2>3, <3>1, TurnRecorded
      <3> QED
        BY <3>2
    <2>5. FileHasCounts(stored')
      <3>1. File(period_month', gaps', counted').gaps = gaps'
        BY DEF File
      <3>2. Cleared(period_month).gaps = NoGaps
        BY DEF Cleared, File
      <3> QED
        BY <2>2, <2>4, <3>1, <3>2, NoGapsCount DEF FileHasCounts, TurnsInv
    <2> QED
      BY <2>3, <2>4, <2>5 DEF TurnsInv
  <1> QED
    BY <1>1, <1>2

\* A process begins with no turns and the pauses l.
LEMMA NoTurnsYet ==
    ASSUME NEW l \in PauseCounts
    PROVE  Tracks(<<>>, <<>>) /\ 0 \in 0 .. Len(<<>>) /\ PausesCounted(<<>>, 0, l, l)
  <1>1. IsSequence(<<>>) /\ Len(<<>>) = 0 /\ DOMAIN <<>> = {}
    <2>1. <<>> \in Seq({}) /\ Len(<<>>) = 0
      BY EmptySeq
    <2> QED
      BY <2>1, SeqOfRange, LenProperties DEF IsSequence
  <1>2. Tracks(<<>>, <<>>)
    BY <1>1, CacheTtlAssumption DEF Tracks, Distinct
  <1>3. \A p \in Pause : l[p] \in Nat /\ Cardinality(PausedSo(<<>>, 0, p)) = 0
    BY <1>1, NoPauseYet DEF PauseCounts
  <1>4. PausesCounted(<<>>, 0, l, l)
    BY <1>3 DEF PausesCounted
  <1> QED
    BY <1>1, <1>2, <1>4

LEMMA Restarted ==
    ASSUME TurnsInv, NEW m, Reload(m)
    PROVE  TurnsInv'
  <1>1. PICK file \in {stored} \cup (IF quota.tracking THEN {File(period_month, gaps, counted)}
                                     ELSE {}) :
          LET reads  == quota.tracking /\ file # NoFile
              clears == reads /\ Clears(file.period_month, m)
          IN  /\ gaps' = IF reads /\ ~clears THEN file.gaps ELSE NoGaps
              /\ stored' \in {file} \cup IF clears THEN {Cleared(file.period_month)} ELSE {}
              /\ _last_turn' = <<>>
              /\ turns' = <<>> /\ since' = 0 /\ loaded' = gaps'
    BY DEF Reload
  <1>2. FileHasCounts(file)
    <2>1. File(period_month, gaps, counted).gaps = gaps
      BY DEF File
    <2>2. file = stored \/ file = File(period_month, gaps, counted)
      BY <1>1
    <2> QED
      BY <2>1, <2>2 DEF FileHasCounts, TurnsInv
  <1>3. gaps' \in PauseCounts
    BY <1>1, <1>2, NoGapsCount DEF FileHasCounts
  <1>4. FileHasCounts(stored')
    <2>1. Cleared(file.period_month).gaps = NoGaps
      BY DEF Cleared, File
    <2>2. stored' = file \/ stored' = Cleared(file.period_month)
      BY <1>1
    <2> QED
      BY <1>2, <2>1, <2>2, NoGapsCount DEF FileHasCounts
  <1>5. _last_turn' = <<>> /\ turns' = <<>> /\ since' = 0 /\ loaded' = gaps'
    BY <1>1
  <1> PICK l \in PauseCounts : l = gaps'
    BY <1>3
  <1>6. Tracks(<<>>, <<>>) /\ 0 \in 0 .. Len(<<>>) /\ PausesCounted(<<>>, 0, l, l)
    BY NoTurnsYet
  <1>7. Tracks(_last_turn, turns)'
    BY <1>5, <1>6
  <1>8. since' \in 0 .. Len(turns') /\ PausesCounted(turns', since', gaps', loaded')
    BY <1>5, <1>6
  <1> QED
    BY <1>3, <1>4, <1>5, <1>7, <1>8 DEF TurnsInv

LEMMA TurnsInvHolds == Spec => []TurnsInv
  <1>1. Init => TurnsInv
    <2> SUFFICES ASSUME Init PROVE TurnsInv
      OBVIOUS
    <2>1. /\ _last_turn = <<>> /\ turns = <<>> /\ since = 0
          /\ gaps = NoGaps /\ loaded = NoGaps /\ stored = NoFile
      BY DEF Init, TtlInit
    <2>2. Tracks(<<>>, <<>>) /\ 0 \in 0 .. Len(<<>>) /\ PausesCounted(<<>>, 0, NoGaps, NoGaps)
      BY NoTurnsYet, NoGapsCount
    <2> QED
      BY <2>1, <2>2, NoGapsCount DEF TurnsInv, FileHasCounts
  <1>2. TurnsInv /\ UNCHANGED <<turnVars, gaps, stored>> => TurnsInv'
    BY DEF TurnsInv, turnVars
  <1>3. TurnsInv /\ [Next]_vars => TurnsInv'
    <2> SUFFICES ASSUME TurnsInv, [Next]_vars PROVE TurnsInv'
      OBVIOUS
    <2>1. ASSUME NEW r \in inputs.requests, Arrive(r) PROVE TurnsInv'
      BY <1>2, <2>1 DEF Arrive, ttlVars, countVars
    <2>2. ASSUME NEW body \in inputs.bodies, Prepare(body) PROVE TurnsInv'
      BY <1>2, <2>2 DEF Prepare
    <2>3. ASSUME NEW r \in inputs.responses, Respond(r) PROVE TurnsInv'
      BY <1>2, <2>3 DEF Respond, ttlVars, countVars
    <2>4. ASSUME NEW n \in inputs.chunks, Relay(n) PROVE TurnsInv'
      BY <1>2, <2>4 DEF Relay, ttlVars, countVars
    <2>5. ASSUME NEW session \in inputs.sessions, NEW table \in inputs.tables,
                 Finish(session, table)
          PROVE  TurnsInv'
      <3>1. \/ UNCHANGED <<turnVars, gaps, stored>>
            \/ _record_usage(session, _normalize_model_key(table, finalize.model))
        BY <2>5 DEF Finish, countVars
      <3> QED
        BY <1>2, <3>1, UsageRecorded
    <2>6. CASE Tick
      BY <1>2, <2>6 DEF Tick, countVars
    <2>7. CASE NextMonth
      BY <1>2, <2>7 DEF NextMonth, countVars
    <2>8. ASSUME NEW q \in inputs.quotas, Configure(q) PROVE TurnsInv'
      BY <1>2, <2>8 DEF Configure, countVars
    <2>9. CASE Restart
      BY <2>9, Restarted DEF Restart
    <2>10. CASE UNCHANGED vars
      BY <1>2, <2>10 DEF vars, ttlVars, countVars
    <2> QED
      BY <2>1, <2>2, <2>3, <2>4, <2>5, <2>6, <2>7, <2>8, <2>9, <2>10 DEF Next
  <1> QED
    BY <1>1, <1>3, PTL DEF Spec

(* Beside what the process began with, each turn since the last reset is   *)
(* counted with the pause since the previous one of its session and model, *)
(* unless as many other pairs as are kept have had turns since then,       *)
(* through resets, restarts and edits of the settings                      *)
(* (quota/cache_ttl.py, quota/persist.py).                                 *)
THEOREM PausesAreRight == Spec => []PausesRight
  <1>1. TurnsInv => PausesRight
    BY PausesAreCounted DEF TurnsInv
  <1> QED
    BY <1>1, TurnsInvHolds, PTL

-----------------------------------------------------------------------------
(* Folds.  The tap's two, of lengths and of events, differ in their step;  *)
(* a chain has the values of either along a sequence.                      *)

Step(kind, x, e) == IF kind = "length" THEN x + e.len ELSE _absorb_event(x, e)

Chain(c, kind, base, s, n) ==
    /\ DOMAIN c = 0 .. n
    /\ c[0] = base
    /\ \A k \in 1 .. n : c[k] = Step(kind, c[k - 1], s[k])

\* what MapThenFoldSet chooses
Iterates(g, kind, base, s, n) ==
    g = [T \in SUBSET (1 .. n) |->
            IF T = {} THEN base ELSE Step(kind, g[T \ {Max(T)}], s[Max(T)])]

LEMMA TopOf ==
    ASSUME NEW n \in Nat, NEW T \in SUBSET (1 .. n), T # {}
    PROVE  /\ Max(T) \in T
           /\ n > 0
           /\ T \ {Max(T)} \in SUBSET (1 .. n - 1)
  <1>1. T \subseteq Nat /\ \A k \in T : k <= n
    OBVIOUS
  <1>2. Max(T) \in T /\ \A k \in T : k <= Max(T)
    BY <1>1, GreatestOf
  <1>3. PICK x : x = Max(T)
    OBVIOUS
  <1>4. x \in T /\ x \in 1 .. n /\ \A k \in T : k \in 1 .. n /\ k <= x
    BY <1>2, <1>3
  <1>5. n > 0
    BY <1>4
  <1>6. ASSUME NEW k \in T, k # x PROVE k \in 1 .. n - 1
    <2>1. k \in 1 .. n /\ x \in 1 .. n /\ k <= x /\ k # x
      BY <1>4, <1>6
    <2> QED
      BY <2>1
  <1>7. T \ {x} \in SUBSET (1 .. n - 1)
    BY <1>6
  <1> QED
    BY <1>3, <1>4, <1>5, <1>7

LEMMA IteratesExist ==
    ASSUME NEW kind, NEW base, NEW s, NEW n \in Nat
    PROVE  \E g : Iterates(g, kind, base, s, n)
  <1> DEFINE Bad == {m \in Nat : ~\E g : Iterates(g, kind, base, s, m)}
  <1> SUFFICES ASSUME Bad # {} PROVE FALSE
    OBVIOUS
  <1>1. PICK m \in Bad : \A k \in Bad : m <= k
    <2>1. Bad \subseteq Nat
      OBVIOUS
    <2> HIDE DEF Bad
    <2> QED
      BY <2>1, LeastOf
  <1>2. m \in Nat /\ ~\E g : Iterates(g, kind, base, s, m)
    OBVIOUS
  <1>3. CASE m = 0
    <2> DEFINE g == [T \in SUBSET (1 .. 0) |-> base]
    <2>1. \A T \in SUBSET (1 .. 0) : T = {}
      OBVIOUS
    <2>2. Iterates(g, kind, base, s, 0)
      BY <2>1 DEF Iterates
    <2> QED
      BY <1>2, <1>3, <2>2
  <1>4. CASE m # 0
    <2>1. m - 1 \in Nat /\ m - 1 \notin Bad
      <3> HIDE DEF Bad
      <3>1. m - 1 \in Nat /\ ~(m <= m - 1)
        BY <1>2, <1>4
      <3> QED
        BY <1>1, <3>1
    <2>2. PICK g : Iterates(g, kind, base, s, m - 1)
      BY <2>1
    <2> DEFINE Value(f, T) == IF T = {} THEN base ELSE Step(kind, f[T \ {Max(T)}], s[Max(T)])
               h == [T \in SUBSET (1 .. m) |-> Value(g, T)]
    <2>3. \A T \in SUBSET (1 .. m - 1) : T \in SUBSET (1 .. m) /\ g[T] = Value(g, T)
      <3>1. g = [T \in SUBSET (1 .. m - 1) |-> Value(g, T)]
        BY <2>2 DEF Iterates
      <3>2. 1 .. m - 1 \subseteq 1 .. m
        BY <1>2
      <3> HIDE DEF Value
      <3> QED
        BY <3>1, <3>2
    <2>4. \A T \in SUBSET (1 .. m - 1) : h[T] = g[T]
      <3> HIDE DEF Value
      <3> QED
        BY <2>3
    <2>5. \A T \in SUBSET (1 .. m) : Value(h, T) = Value(g, T)
      <3> SUFFICES ASSUME NEW T \in SUBSET (1 .. m), T # {}
                   PROVE  h[T \ {Max(T)}] = g[T \ {Max(T)}]
        OBVIOUS
      <3>1. T \ {Max(T)} \in SUBSET (1 .. m - 1)
        BY <1>2, TopOf
      <3> HIDE DEF h
      <3> QED
        BY <2>4, <3>1
    <2>6. h = [T \in SUBSET (1 .. m) |-> Value(h, T)]
      <3> HIDE DEF Value
      <3> QED
        BY <2>5
    <2>7. Iterates(h, kind, base, s, m)
      <3> HIDE DEF h
      <3> QED
        BY <2>6 DEF Iterates
    <2> QED
      BY <1>2, <2>7
  <1> QED
    BY <1>3, <1>4

\* The values of an iteration at the initial segments are a chain.
LEMMA IteratesChain ==
    ASSUME NEW kind, NEW base, NEW s, NEW n \in Nat, NEW g, Iterates(g, kind, base, s, n)
    PROVE  Chain([k \in 0 .. n |-> g[1 .. k]], kind, base, s, n)
  <1> DEFINE c == [k \in 0 .. n |-> g[1 .. k]]
  <1>1. \A T \in SUBSET (1 .. n) :
          g[T] = IF T = {} THEN base ELSE Step(kind, g[T \ {Max(T)}], s[Max(T)])
    <2> DEFINE Value(T) == IF T = {} THEN base ELSE Step(kind, g[T \ {Max(T)}], s[Max(T)])
    <2>1. g = [T \in SUBSET (1 .. n) |-> Value(T)]
      BY DEF Iterates
    <2> HIDE DEF Value
    <2>2. \A T \in SUBSET (1 .. n) : g[T] = Value(T)
      BY <2>1
    <2> QED
      BY <2>2 DEF Value
  <1>2. c[0] = base
    <2>1. 1 .. 0 = {} /\ 0 \in 0 .. n
      OBVIOUS
    <2> QED
      BY <1>1, <2>1
  <1>3. ASSUME NEW k \in 1 .. n PROVE c[k] = Step(kind, c[k - 1], s[k])
    <2>1. /\ 1 .. k \subseteq Nat /\ 1 .. k \in SUBSET (1 .. n) /\ 1 .. k # {}
          /\ k \in 1 .. k /\ \A i \in 1 .. k : i <= k
          /\ (1 .. k) \ {k} = 1 .. k - 1
          /\ k \in 0 .. n /\ k - 1 \in 0 .. n
      <3>1. k \in Nat /\ k >= 1 /\ k <= n
        OBVIOUS
      <3>2. \A i \in 1 .. k : i \in Nat /\ i \in 1 .. n /\ i <= k
        BY <3>1
      <3>3. k \in 1 .. k /\ k \in 0 .. n /\ k - 1 \in 0 .. n
        BY <3>1
      <3>4. \A i : (i \in 1 .. k /\ i # k) <=> i \in 1 .. k - 1
        BY <3>1
      <3> QED
        BY <3>2, <3>3, <3>4
    <2>2. Max(1 .. k) = k
      BY <2>1, MaxIs
    <2>3. g[1 .. k] = Step(kind, g[1 .. k - 1], s[k])
      BY <1>1, <2>1, <2>2
    <2> QED
      BY <2>1, <2>3
  <1> HIDE DEF c
  <1>4. DOMAIN c = 0 .. n
    BY DEF c
  <1>5. Chain(c, kind, base, s, n)
    BY <1>2, <1>3, <1>4 DEF Chain
  <1> QED
    BY <1>5 DEF c

LEMMA ChainExists ==
    ASSUME NEW kind, NEW base, NEW s, NEW n \in Nat
    PROVE  \E c : Chain(c, kind, base, s, n)
  BY IteratesExist, IteratesChain

\* Two chains of the same values agree as far as both go.
LEMMA ChainsAgree ==
    ASSUME NEW kind, NEW base, NEW s, NEW t, NEW n \in Nat, NEW m \in 0 .. n,
           \A k \in 1 .. m : s[k] = t[k],
           NEW c, Chain(c, kind, base, s, n), NEW d, Chain(d, kind, base, t, m)
    PROVE  \A k \in 0 .. m : c[k] = d[k]
  <1> DEFINE Bad == {k \in 0 .. m : c[k] # d[k]}
  <1> SUFFICES ASSUME Bad # {} PROVE FALSE
    OBVIOUS
  <1>1. PICK k \in Bad : \A j \in Bad : k <= j
    <2>1. Bad \subseteq Nat
      OBVIOUS
    <2> HIDE DEF Bad
    <2> QED
      BY <2>1, LeastOf
  <1>2. k \in 0 .. m /\ c[k] # d[k]
    OBVIOUS
  <1>3. k # 0
    BY <1>2 DEF Chain
  <1>4. k \in 1 .. m /\ k \in 1 .. n /\ k - 1 \in 0 .. m /\ ~(k <= k - 1)
    BY <1>2, <1>3
  <1>5. c[k - 1] = d[k - 1]
    <2>1. k - 1 \notin Bad
      <3> HIDE DEF Bad
      <3> QED
        BY <1>1, <1>4
    <2> QED
      BY <1>4, <2>1
  <1>6. c[k] = Step(kind, c[k - 1], s[k]) /\ d[k] = Step(kind, d[k - 1], t[k])
    BY <1>4 DEF Chain
  <1>7. s[k] = t[k]
    BY <1>4
  <1> QED
    BY <1>2, <1>5, <1>6, <1>7

-----------------------------------------------------------------------------
(* The two folds are the ends of their chains.                             *)

Lengths(s) ==
    CHOOSE g : g = [T \in SUBSET DOMAIN s |->
                       IF T = {} THEN 0 ELSE g[T \ {Max(T)}] + s[Max(T)].len]

LEMMA LengthsUnfold ==
    ASSUME NEW s
    PROVE  FoldLeft(LAMBDA n, line : n + line.len, 0, s) = Lengths(s)[DOMAIN s]
  BY DEF FoldLeft, MapThenFoldSet, Lengths

Absorbs(read, s) ==
    CHOOSE g : g = [T \in SUBSET DOMAIN s |->
                       IF T = {} THEN read ELSE _absorb_event(g[T \ {Max(T)}], s[Max(T)])]

LEMMA AbsorbsUnfold ==
    ASSUME NEW read, NEW s
    PROVE  Absorbed(read, s) = Absorbs(read, s)[DOMAIN s]
  BY DEF Absorbed, FoldLeft, MapThenFoldSet, Absorbs

LEMMA LengthsIterate ==
    ASSUME NEW s, NEW n \in Nat, DOMAIN s = 1 .. n
    PROVE  Iterates(Lengths(s), "length", 0, s, n)
  <1>1. PICK g : Iterates(g, "length", 0, s, n)
    BY IteratesExist
  <1>2. g = [T \in SUBSET DOMAIN s |->
               IF T = {} THEN 0 ELSE g[T \ {Max(T)}] + s[Max(T)].len]
    BY <1>1 DEF Iterates, Step
  <1>3. Lengths(s) = [T \in SUBSET DOMAIN s |->
               IF T = {} THEN 0 ELSE Lengths(s)[T \ {Max(T)}] + s[Max(T)].len]
    BY <1>2 DEF Lengths
  <1> QED
    BY <1>3 DEF Iterates, Step

LEMMA AbsorbsIterate ==
    ASSUME NEW read, NEW s, NEW n \in Nat, DOMAIN s = 1 .. n
    PROVE  Iterates(Absorbs(read, s), "event", read, s, n)
  <1>1. PICK g : Iterates(g, "event", read, s, n)
    BY IteratesExist
  <1>2. g = [T \in SUBSET DOMAIN s |->
               IF T = {} THEN read ELSE _absorb_event(g[T \ {Max(T)}], s[Max(T)])]
    BY <1>1 DEF Iterates, Step
  <1>3. Absorbs(read, s) = [T \in SUBSET DOMAIN s |->
               IF T = {} THEN read
               ELSE _absorb_event(Absorbs(read, s)[T \ {Max(T)}], s[Max(T)])]
    BY <1>2 DEF Absorbs
  <1> QED
    BY <1>3 DEF Iterates, Step

LEMMA AbsorbedIsChain ==
    ASSUME NEW read, NEW s, NEW n \in Nat, DOMAIN s = 1 .. n,
           NEW c, Chain(c, "event", read, s, n)
    PROVE  Absorbed(read, s) = c[n]
  <1> DEFINE g == Absorbs(read, s)
             d == [k \in 0 .. n |-> g[1 .. k]]
  <1>1. Chain(d, "event", read, s, n)
    BY AbsorbsIterate, IteratesChain
  <1>2. d[n] = g[DOMAIN s]
    OBVIOUS
  <1> HIDE DEF d
  <1>3. c[n] = d[n]
    BY <1>1, ChainsAgree
  <1> QED
    BY <1>2, <1>3, AbsorbsUnfold

LEMMA LengthIsChain ==
    ASSUME NEW s, NEW n \in Nat, DOMAIN s = 1 .. n,
           NEW c, Chain(c, "length", 0, s, n)
    PROVE  FoldLeft(LAMBDA m, line : m + line.len, 0, s) = c[n]
  <1> DEFINE g == Lengths(s)
             d == [k \in 0 .. n |-> g[1 .. k]]
  <1>1. Chain(d, "length", 0, s, n)
    BY LengthsIterate, IteratesChain
  <1>2. d[n] = g[DOMAIN s]
    OBVIOUS
  <1> HIDE DEF d
  <1>3. c[n] = d[n]
    BY <1>1, ChainsAgree
  <1>4. d[n] = Lengths(s)[DOMAIN s]
    BY <1>2
  <1> QED
    BY <1>3, <1>4 DEF FoldLeft, MapThenFoldSet, Lengths

-----------------------------------------------------------------------------
(* Lines and their ends.                                                   *)

IsLines(lines) ==
    /\ DOMAIN lines = 1 .. Len(lines) /\ Len(lines) \in Nat
    /\ \A i \in DOMAIN lines : lines[i].len \in Nat \ {0}

LEMMA LengthsAreNat ==
    ASSUME NEW lines, IsLines(lines),
           NEW e, Chain(e, "length", 0, lines, Len(lines))
    PROVE  \A k \in 0 .. Len(lines) : e[k] \in Nat
  <1> DEFINE Bad == {k \in 0 .. Len(lines) : e[k] \notin Nat}
  <1>0. Len(lines) \in Nat
    BY DEF IsLines
  <1> SUFFICES ASSUME Bad # {} PROVE FALSE
    OBVIOUS
  <1>1. PICK k \in Bad : \A j \in Bad : k <= j
    <2>1. Bad \subseteq Nat
      BY <1>0
    <2> HIDE DEF Bad
    <2> QED
      BY <2>1, LeastOf
  <1>2. k \in 0 .. Len(lines) /\ e[k] \notin Nat
    OBVIOUS
  <1>3. k # 0
    BY <1>2 DEF Chain
  <1>4. k \in 1 .. Len(lines) /\ k - 1 \in 0 .. Len(lines) /\ ~(k <= k - 1)
    BY <1>0, <1>2, <1>3
  <1>5. e[k - 1] \in Nat
    <2>1. k - 1 \notin Bad
      <3> HIDE DEF Bad
      <3> QED
        BY <1>1, <1>4
    <2> QED
      BY <1>4, <2>1
  <1>6. e[k] = e[k - 1] + lines[k].len
    BY <1>4 DEF Chain, Step
  <1>7. lines[k].len \in Nat
    BY <1>4 DEF IsLines
  <1> QED
    BY <1>2, <1>5, <1>6, <1>7

LEMMA LengthsGrow ==
    ASSUME NEW lines, IsLines(lines),
           NEW e, Chain(e, "length", 0, lines, Len(lines)),
           NEW i \in 0 .. Len(lines), NEW k \in 0 .. Len(lines), i < k
    PROVE  e[i] < e[k]
  <1> DEFINE Bad == {j \in 0 .. Len(lines) : i < j /\ ~(e[i] < e[j])}
  <1>0. Len(lines) \in Nat /\ \A j \in 0 .. Len(lines) : e[j] \in Nat
    BY LengthsAreNat DEF IsLines
  <1> SUFFICES ASSUME Bad # {} PROVE FALSE
    OBVIOUS
  <1>1. PICK m \in Bad : \A j \in Bad : m <= j
    <2>1. Bad \subseteq Nat
      BY <1>0
    <2> HIDE DEF Bad
    <2> QED
      BY <2>1, LeastOf
  <1>2. m \in 0 .. Len(lines) /\ i < m /\ ~(e[i] < e[m])
    OBVIOUS
  <1>3. m \in 1 .. Len(lines) /\ m - 1 \in 0 .. Len(lines) /\ ~(m <= m - 1)
    BY <1>0, <1>2
  <1>4. e[i] <= e[m - 1]
    <2>1. m - 1 \notin Bad
      <3> HIDE DEF Bad
      <3> QED
        BY <1>1, <1>3
    <2>2. CASE i < m - 1
      BY <1>0, <1>3, <2>1, <2>2
    <2>3. CASE i = m - 1
      BY <1>0, <2>3
    <2> QED
      BY <1>0, <1>2, <2>2, <2>3
  <1>5. e[m] = e[m - 1] + lines[m].len /\ lines[m].len \in Nat \ {0}
    BY <1>3 DEF Chain, Step, IsLines
  <1>6. e[i] \in Nat /\ e[m] \in Nat /\ e[m - 1] \in Nat
    BY <1>0, <1>3
  <1>7. e[m - 1] < e[m]
    BY <1>5, <1>6
  <1> QED
    BY <1>2, <1>4, <1>6, <1>7

\* The ends of lines start at nothing, are numbers, and grow.
LEMMA Ends ==
    ASSUME NEW lines, IsLines(lines)
    PROVE  /\ EndOf(lines, 0) = 0
           /\ \A i \in 0 .. Len(lines) : EndOf(lines, i) \in Nat
           /\ \A i, k \in 0 .. Len(lines) : i < k => EndOf(lines, i) < EndOf(lines, k)
           /\ \A i \in 1 .. Len(lines) : EndOf(lines, i) = EndOf(lines, i - 1) + lines[i].len
  <1> DEFINE L == Len(lines)
  <1>0. L \in Nat
    BY DEF IsLines
  <1>1. PICK e : Chain(e, "length", 0, lines, L)
    BY <1>0, ChainExists
  <1>2. ASSUME NEW i \in 0 .. L PROVE EndOf(lines, i) = e[i]
    <2> DEFINE s == SubSeq(lines, 1, i)
    <2>1. \A k \in 1 .. i : lines[k] \in Range(lines)
      BY <1>0 DEF IsLines, Range
    <2>2. i \in Nat /\ i <= L
      BY <1>0
    <2>3. /\ s \in Seq(Range(lines))
          /\ Len(s) = IF 1 <= i THEN i - 1 + 1 ELSE 0
          /\ \A k \in 1 .. i - 1 + 1 : s[k] = lines[1 + k - 1]
      BY <2>1, <2>2, SubSeqProperties
    <2>4. Len(s) = i /\ \A k \in 1 .. i : s[k] = lines[k]
      BY <2>2, <2>3
    <2>5. DOMAIN s = 1 .. i
      BY <2>3, <2>4, LenProperties
    <2> HIDE DEF s
    <2>6. PICK d : Chain(d, "length", 0, s, i)
      BY <2>2, ChainExists
    <2>7. FoldLeft(LAMBDA m, line : m + line.len, 0, s) = d[i]
      BY <2>2, <2>5, <2>6, LengthIsChain
    <2>8. \A k \in 1 .. i : lines[k] = s[k]
      BY <2>4
    <2>9. \A k \in 0 .. i : e[k] = d[k]
      BY <1>0, <1>1, <2>6, <2>8, ChainsAgree
    <2>10. e[i] = d[i]
      BY <2>2, <2>9
    <2>11. EndOf(lines, i) = FoldLeft(LAMBDA m, line : m + line.len, 0, s)
      BY DEF EndOf, s
    <2> QED
      BY <2>7, <2>10, <2>11
  <1>3. e[0] = 0 /\ 0 \in 0 .. L
    BY <1>0, <1>1 DEF Chain
  <1>4. \A i \in 0 .. L : e[i] \in Nat
    BY <1>1, LengthsAreNat
  <1>5. \A i, k \in 0 .. L : i < k => e[i] < e[k]
    BY <1>1, LengthsGrow
  <1>6. \A i \in 1 .. L : i \in 0 .. L /\ i - 1 \in 0 .. L /\ e[i] = e[i - 1] + lines[i].len
    BY <1>0, <1>1 DEF Chain, Step
  <1> QED
    BY <1>2, <1>3, <1>4, <1>5, <1>6

\* The lines that are whole in n bytes are the first ones, as many as fit.
LEMMA WholeIs ==
    ASSUME NEW lines, IsLines(lines), NEW n \in Nat
    PROVE  /\ WholeLines(lines, n) \in 0 .. Len(lines)
           /\ EndOf(lines, WholeLines(lines, n)) <= n
           /\ WholeLines(lines, n) < Len(lines) => n < EndOf(lines, WholeLines(lines, n) + 1)
  <1> DEFINE L == Len(lines)
             S == {i \in 0 .. L : i < L => n < EndOf(lines, i + 1)}
  <1>0. L \in Nat /\ DOMAIN lines = 1 .. L
    BY DEF IsLines
  <1>1. /\ EndOf(lines, 0) = 0
        /\ \A i \in 0 .. L : EndOf(lines, i) \in Nat
        /\ \A i, k \in 0 .. L : i < k => EndOf(lines, i) < EndOf(lines, k)
    BY Ends
  <1>2. S \subseteq Nat /\ L \in S
    BY <1>0
  <1>3. PICK w \in S : \A i \in S : w <= i
    <2> HIDE DEF S
    <2> QED
      BY <1>2, LeastOf
  <1>4. w \in 0 .. L /\ (w < L => n < EndOf(lines, w + 1))
    OBVIOUS
  <1>5. ASSUME NEW i \in 1 .. w PROVE EndOf(lines, i) <= n
    <2>1. i - 1 \in 0 .. L /\ i - 1 < L /\ ~(w <= i - 1) /\ i \in 0 .. L /\ i - 1 + 1 = i
      BY <1>0, <1>4
    <2>2. i - 1 \notin S
      <3> HIDE DEF S
      <3> QED
        BY <1>3, <2>1
    <2>3. ~(n < EndOf(lines, i))
      BY <2>1, <2>2
    <2> QED
      BY <1>1, <2>1, <2>3
  <1>6. ASSUME NEW i \in 1 .. L, i > w PROVE ~(EndOf(lines, i) <= n)
    <2>1. w < L /\ w + 1 \in 0 .. L /\ i \in 0 .. L /\ (w + 1 = i \/ w + 1 < i)
      BY <1>0, <1>4, <1>6
    <2>2. n < EndOf(lines, w + 1)
      BY <1>4, <2>1
    <2>3. EndOf(lines, w + 1) <= EndOf(lines, i)
      BY <1>1, <2>1
    <2> QED
      BY <1>1, <2>1, <2>2, <2>3
  <1>7. {i \in DOMAIN lines : EndOf(lines, i) <= n} = 1 .. w
    <2>1. \A i \in 1 .. w : i \in 1 .. L
      BY <1>0, <1>4
    <2>2. \A i \in 1 .. L : i \in 1 .. w \/ i > w
      BY <1>0, <1>4
    <2> QED
      BY <1>0, <1>5, <1>6, <2>1, <2>2
  <1>8. Cardinality(1 .. w) = w
    BY <1>0, <1>4, FS_Interval
  <1>9. WholeLines(lines, n) = w
    BY <1>7, <1>8 DEF WholeLines
  <1>10. EndOf(lines, w) <= n
    <2>1. CASE w = 0
      BY <1>1, <2>1
    <2>2. CASE w # 0
      <3>1. w \in 1 .. w
        BY <1>0, <1>4, <2>2
      <3> QED
        BY <1>5, <3>1
    <2> QED
      BY <2>1, <2>2
  <1> QED
    BY <1>4, <1>9, <1>10

\* The lines that begin before the end of line k are the first k.
LEMMA BegunIs ==
    ASSUME NEW lines, IsLines(lines), NEW k \in 0 .. Len(lines)
    PROVE  Begun(lines, EndOf(lines, k)) = k
  <1> DEFINE L == Len(lines)
  <1>0. L \in Nat /\ DOMAIN lines = 1 .. L
    BY DEF IsLines
  <1>1. /\ \A i \in 0 .. L : EndOf(lines, i) \in Nat
        /\ \A i, j \in 0 .. L : i < j => EndOf(lines, i) < EndOf(lines, j)
    BY Ends
  <1>2. ASSUME NEW i \in 1 .. L PROVE (EndOf(lines, i - 1) < EndOf(lines, k)) <=> i \in 1 .. k
    <2>1. i - 1 \in 0 .. L /\ k \in 0 .. L
      BY <1>0
    <2>2. CASE i - 1 < k
      BY <1>0, <1>1, <2>1, <2>2
    <2>3. CASE i - 1 = k
      BY <1>0, <1>1, <2>1, <2>3
    <2>4. CASE k < i - 1
      <3>1. EndOf(lines, k) < EndOf(lines, i - 1)
        BY <1>1, <2>1, <2>4
      <3> QED
        BY <1>0, <1>1, <2>1, <2>4, <3>1
    <2> QED
      BY <1>0, <2>1, <2>2, <2>3, <2>4
  <1>3. \A i \in 1 .. k : i \in 1 .. L
    BY <1>0
  <1>4. {i \in DOMAIN lines : EndOf(lines, i - 1) < EndOf(lines, k)} = 1 .. k
    BY <1>0, <1>2, <1>3
  <1>5. Cardinality(1 .. k) = k
    BY <1>0, FS_Interval
  <1> QED
    BY <1>4, <1>5 DEF Begun

-----------------------------------------------------------------------------
(* The reading of events one by one.                                       *)

\* The last place of a set that has grown by the last place of all, or has not.
LEMMA LastStep ==
    ASSUME NEW k \in Nat \ {0}, NEW S \in SUBSET (1 .. k), NEW T, T = S \ {k}
    PROVE  /\ k \in S => Max(S) = k
           /\ k \notin S => S = T
           /\ T # {} => Max(T) \in T
  <1>1. ASSUME k \in S PROVE Max(S) = k
    <2>1. S \subseteq Nat /\ \A i \in S : i <= k
      OBVIOUS
    <2> QED
      BY <1>1, <2>1, MaxIs
  <1>2. T \in SUBSET (1 .. k)
    OBVIOUS
  <1>3. T # {} => Max(T) \in T
    BY <1>2, TopOf
  <1> QED
    BY <1>1, <1>3

Telling(s, field) ==
    {i \in DOMAIN s : (IF field = "model" THEN s[i].model ELSE s[i].stop) # Nothing}

Using(s, x) == {i \in DOMAIN s : x \in DOMAIN s[i].usage}

Used(s) == UNION {DOMAIN s[i].usage : i \in DOMAIN s}

Calls(s) == {s[i].tool : i \in DOMAIN s} \ {Nothing}

Calling(s, x) == {i \in DOMAIN s : s[i].tool = x}

LEMMA ReadingUnfolds ==
    ASSUME NEW s
    PROVE  Reading(s) =
             [usage |-> [x \in Used(s) |->
                            IF Using(s, x) = {} THEN 0 ELSE s[Max(Using(s, x))].usage[x]],
              model |-> IF Telling(s, "model") = {} THEN Nothing
                        ELSE s[Max(Telling(s, "model"))].model,
              stop  |-> IF Telling(s, "stop") = {} THEN Nothing
                        ELSE s[Max(Telling(s, "stop"))].stop,
              tools |-> [x \in Calls(s) |-> Cardinality(Calling(s, x))]]
  BY DEF Reading, LastSaid, Used, Using, Telling, Calls, Calling

LEMMA NothingToRead ==
    ASSUME NEW s, DOMAIN s = {}
    PROVE  Reading(s) = NothingRead
  <1>1. Used(s) = {} /\ Calls(s) = {}
    BY DEF Used, Calls
  <1>2. Telling(s, "model") = {} /\ Telling(s, "stop") = {}
    BY DEF Telling
  <1>3. [x \in Used(s) |-> IF Using(s, x) = {} THEN 0 ELSE s[Max(Using(s, x))].usage[x]]
          = [x \in {} |-> 0]
    BY <1>1
  <1>4. [x \in Calls(s) |-> Cardinality(Calling(s, x))] = [x \in {} |-> 0]
    BY <1>1
  <1> QED
    BY <1>2, <1>3, <1>4, ReadingUnfolds DEF NothingRead

\* One more event.
LEMMA ReadingStep ==
    ASSUME NEW k \in Nat \ {0},
           NEW s, DOMAIN s = 1 .. k, NEW t, DOMAIN t = 1 .. k - 1,
           \A i \in 1 .. k - 1 : t[i] = s[i]
    PROVE  Reading(s) = _absorb_event(Reading(t), s[k])
  <1>1. 1 .. k = (1 .. k - 1) \cup {k} /\ k \notin 1 .. k - 1
    OBVIOUS
  <1>0. \A S, T : S \in SUBSET (1 .. k) /\ T = S \ {k} =>
          (k \in S => Max(S) = k) /\ (k \notin S => S = T) /\ (T # {} => Max(T) \in T)
    BY LastStep
  <1> DEFINE uses(r, x) == IF Using(r, x) = {} THEN 0 ELSE r[Max(Using(r, x))].usage[x]
  <1>2. Reading(s).model = IF s[k].model = Nothing THEN Reading(t).model ELSE s[k].model
    <2> DEFINE S == Telling(s, "model")
               T == Telling(t, "model")
    <2>1. S \in SUBSET (1 .. k) /\ T = S \ {k} /\ (k \in S <=> s[k].model # Nothing)
      BY <1>1 DEF Telling
    <2>2. \A i \in T : t[i].model = s[i].model
      BY <1>1 DEF Telling
    <2>3. /\ Reading(s).model = IF S = {} THEN Nothing ELSE s[Max(S)].model
          /\ Reading(t).model = IF T = {} THEN Nothing ELSE t[Max(T)].model
      BY ReadingUnfolds
    <2> HIDE DEF S, T
    <2>4. (k \in S => Max(S) = k) /\ (k \notin S => S = T) /\ (T # {} => Max(T) \in T)
      BY <1>0, <2>1
    <2> QED
      BY <2>1, <2>2, <2>3, <2>4
  <1>3. Reading(s).stop = IF s[k].stop = Nothing THEN Reading(t).stop ELSE s[k].stop
    <2> DEFINE S == Telling(s, "stop")
               T == Telling(t, "stop")
    <2>1. S \in SUBSET (1 .. k) /\ T = S \ {k} /\ (k \in S <=> s[k].stop # Nothing)
      BY <1>1 DEF Telling
    <2>2. \A i \in T : t[i].stop = s[i].stop
      BY <1>1 DEF Telling
    <2>3. /\ Reading(s).stop = IF S = {} THEN Nothing ELSE s[Max(S)].stop
          /\ Reading(t).stop = IF T = {} THEN Nothing ELSE t[Max(T)].stop
      BY ReadingUnfolds
    <2> HIDE DEF S, T
    <2>4. (k \in S => Max(S) = k) /\ (k \notin S => S = T) /\ (T # {} => Max(T) \in T)
      BY <1>0, <2>1
    <2> QED
      BY <2>1, <2>2, <2>3, <2>4
  <1>4. Reading(s).usage = Updated(Reading(t).usage, s[k].usage)
    <2>1. Used(s) = Used(t) \cup DOMAIN s[k].usage
      BY <1>1 DEF Used
    <2>2. /\ Reading(s).usage = [x \in Used(s) |-> uses(s, x)]
          /\ Reading(t).usage = [x \in Used(t) |-> uses(t, x)]
      BY ReadingUnfolds
    <2>3. ASSUME NEW x \in Used(s)
          PROVE  uses(s, x) = IF x \in DOMAIN s[k].usage THEN s[k].usage[x] ELSE uses(t, x)
      <3> DEFINE S == Using(s, x)
                 T == Using(t, x)
      <3>1. S \in SUBSET (1 .. k) /\ T = S \ {k} /\ (k \in S <=> x \in DOMAIN s[k].usage)
        BY <1>1 DEF Using
      <3>2. \A i \in T : t[i].usage[x] = s[i].usage[x]
        BY <1>1 DEF Using
      <3>3. /\ uses(s, x) = IF S = {} THEN 0 ELSE s[Max(S)].usage[x]
            /\ uses(t, x) = IF T = {} THEN 0 ELSE t[Max(T)].usage[x]
        OBVIOUS
      <3> HIDE DEF S, T, uses
      <3>4. (k \in S => Max(S) = k) /\ (k \notin S => S = T) /\ (T # {} => Max(T) \in T)
        BY <1>0, <3>1
      <3> QED
        BY <3>1, <3>2, <3>3, <3>4
    <2> HIDE DEF uses
    <2>4. \A x \in Used(t) : Reading(t).usage[x] = uses(t, x)
      BY <2>2
    <2>5. DOMAIN Reading(t).usage = Used(t)
      BY <2>2
    <2>6. [x \in Used(s) |-> uses(s, x)]
            = [x \in Used(t) \cup DOMAIN s[k].usage |->
                  IF x \in DOMAIN s[k].usage THEN s[k].usage[x] ELSE Reading(t).usage[x]]
      BY <2>1, <2>3, <2>4
    <2> QED
      BY <2>2, <2>5, <2>6 DEF Updated
  <1>5. Reading(s).tools = Counted(Reading(t).tools, s[k].tool)
    <2> DEFINE n(r, x) == Cardinality(Calling(r, x))
    <2>1. /\ Reading(s).tools = [x \in Calls(s) |-> n(s, x)]
          /\ Reading(t).tools = [x \in Calls(t) |-> n(t, x)]
      BY ReadingUnfolds
    <2>2. ASSUME NEW x
          PROVE  /\ x # s[k].tool => n(s, x) = n(t, x)
                 /\ x = s[k].tool => n(s, x) = n(t, x) + 1
                 /\ n(t, x) \in Nat
                 /\ Calling(t, x) = {} => n(t, x) = 0
      <3>1. Calling(s, x) = IF x = s[k].tool THEN Calling(t, x) \cup {k} ELSE Calling(t, x)
        BY <1>1 DEF Calling
      <3>2. k \notin Calling(t, x) /\ Calling(t, x) \subseteq 1 .. k - 1
        BY <1>1 DEF Calling
      <3>3. IsFiniteSet(Calling(t, x))
        <4>1. IsFiniteSet(1 .. k - 1)
          BY FS_Interval
        <4> QED
          BY <3>2, <4>1, FS_Subset
      <3>4. Cardinality(Calling(t, x)) \in Nat
        BY <3>3, FS_CardinalityType
      <3>5. Cardinality(Calling(t, x) \cup {k}) = Cardinality(Calling(t, x)) + 1
        BY <3>2, <3>3, FS_AddElement
      <3>6. Calling(t, x) = {} => Cardinality(Calling(t, x)) = 0
        BY FS_EmptySet
      <3> QED
        BY <3>1, <3>4, <3>5, <3>6
    <2>3. Calls(s) = IF s[k].tool = Nothing THEN Calls(t) ELSE Calls(t) \cup {s[k].tool}
      BY <1>1 DEF Calls
    <2>4. \A x : x \notin Calls(t) /\ x # Nothing => Calling(t, x) = {}
      BY DEF Calls, Calling
    <2> HIDE DEF n
    <2>5. DOMAIN Reading(t).tools = Calls(t) /\ \A x \in Calls(t) : Reading(t).tools[x] = n(t, x)
      BY <2>1
    <2>6. CASE s[k].tool = Nothing
      <3>1. \A x \in Calls(t) : x # s[k].tool
        BY <2>6 DEF Calls
      <3>2. [x \in Calls(s) |-> n(s, x)] = [x \in Calls(t) |-> n(t, x)]
        BY <2>2, <2>3, <2>6, <3>1
      <3> QED
        BY <2>1, <2>6, <3>2 DEF Counted
    <2>7. CASE s[k].tool # Nothing
      <3> DEFINE c == s[k].tool
                 f == Reading(t).tools
                 count(y) == (IF y \in DOMAIN f THEN f[y] ELSE 0) + IF y = c THEN 1 ELSE 0
      <3>1. ASSUME NEW y \in Calls(t) \cup {c} PROVE n(s, y) = count(y)
        <4>1. (IF y \in DOMAIN f THEN f[y] ELSE 0) = n(t, y)
          <5>1. CASE y \in Calls(t)
            BY <2>5, <5>1
          <5>2. CASE y \notin Calls(t)
            <6>1. n(t, y) = 0
              BY <2>2, <2>4, <2>7, <3>1, <5>2
            <6> QED
              BY <2>5, <5>2, <6>1
          <5> QED
            BY <5>1, <5>2
        <4>2. CASE y = c
          BY <2>2, <4>1, <4>2
        <4>3. CASE y # c
          BY <2>2, <4>1, <4>3
        <4> QED
          BY <4>2, <4>3
      <3>2. Calls(s) = Calls(t) \cup {c}
        BY <2>3, <2>7
      <3>3. Counted(f, c) = [y \in DOMAIN f \cup {c} |-> count(y)]
        BY <2>7 DEF Counted
      <3> HIDE DEF count
      <3>4. [x \in Calls(s) |-> n(s, x)] = [y \in DOMAIN f \cup {c} |-> count(y)]
        BY <2>5, <3>1, <3>2
      <3> QED
        BY <2>1, <3>3, <3>4
    <2> QED
      BY <2>6, <2>7
  <1>6. Reading(s) = [usage |-> Reading(s).usage, model |-> Reading(s).model,
                      stop |-> Reading(s).stop, tools |-> Reading(s).tools]
    BY ReadingUnfolds
  <1> QED
    BY <1>2, <1>3, <1>4, <1>5, <1>6 DEF _absorb_event

\* What is read of some lines goes on from what was read of the lines before.
LEMMA ReadingGoesOn ==
    ASSUME NEW lines, IsLines(lines), NEW k \in 0 .. Len(lines), NEW m \in 0 .. k
    PROVE  Absorbed(Reading(Events(lines, 0, m)), Events(lines, m, k))
             = Reading(Events(lines, 0, k))
  <1>0. k \in Nat /\ m \in Nat /\ k - m \in Nat
    BY DEF IsLines
  <1> DEFINE s == Events(lines, m, k)
             upTo(j) == Events(lines, 0, m + j)
             d == [j \in 0 .. k - m |-> Reading(upTo(j))]
  <1>1. DOMAIN s = 1 .. k - m /\ \A j \in 1 .. k - m : s[j] = lines[m + j].event
    BY DEF Events
  <1>2. ASSUME NEW j \in Nat
        PROVE  DOMAIN upTo(j) = 1 .. m + j /\ \A i \in 1 .. m + j : upTo(j)[i] = lines[i].event
    <2>1. m + j - 0 = m + j /\ \A i \in 1 .. m + j : 0 + i = i
      BY <1>0
    <2>2. upTo(j) = [i \in 1 .. m + j - 0 |-> lines[0 + i].event]
      BY DEF Events
    <2>3. upTo(j) = [i \in 1 .. m + j |-> lines[0 + i].event]
      BY <2>1, <2>2
    <2> HIDE DEF upTo
    <2> QED
      BY <2>1, <2>3
  <1> HIDE DEF s, upTo
  <1>3. ASSUME NEW j \in 1 .. k - m
        PROVE  Reading(upTo(j)) = _absorb_event(Reading(upTo(j - 1)), s[j])
    <2>1. /\ j \in Nat /\ j - 1 \in Nat /\ m + j \in Nat \ {0} /\ m + (j - 1) = m + j - 1
          /\ m + j \in 1 .. m + j
          /\ \A i \in 1 .. m + j - 1 : i \in 1 .. m + j
      BY <1>0
    <2>2. DOMAIN upTo(j) = 1 .. m + j /\ \A i \in 1 .. m + j : upTo(j)[i] = lines[i].event
      BY <1>2, <2>1
    <2>3. /\ DOMAIN upTo(j - 1) = 1 .. m + j - 1
          /\ \A i \in 1 .. m + j - 1 : upTo(j - 1)[i] = lines[i].event
      BY <1>2, <2>1
    <2>4. \A i \in 1 .. m + j - 1 : upTo(j - 1)[i] = upTo(j)[i]
      BY <2>1, <2>2, <2>3
    <2>5. upTo(j)[m + j] = s[j]
      BY <1>1, <2>1, <2>2
    <2>6. Reading(upTo(j)) = _absorb_event(Reading(upTo(j - 1)), upTo(j)[m + j])
      BY <2>1, <2>2, <2>3, <2>4, ReadingStep
    <2> QED
      BY <2>5, <2>6
  <1>4. d[0] = Reading(upTo(0)) /\ d[k - m] = Reading(upTo(k - m)) /\ DOMAIN d = 0 .. k - m
    BY <1>0
  <1>5. \A j \in 1 .. k - m : d[j] = Step("event", d[j - 1], s[j])
    <2>1. \A j \in 1 .. k - m : j \in 0 .. k - m /\ j - 1 \in 0 .. k - m
      BY <1>0
    <2> QED
      BY <1>3, <2>1 DEF Step
  <1> HIDE DEF d
  <1>6. Chain(d, "event", Reading(upTo(0)), s, k - m)
    BY <1>4, <1>5 DEF Chain
  <1>7. Absorbed(Reading(upTo(0)), s) = d[k - m]
    BY <1>0, <1>1, <1>6, AbsorbedIsChain
  <1>8. upTo(0) = Events(lines, 0, m) /\ upTo(k - m) = Events(lines, 0, k)
    <2>1. m + 0 = m /\ m + (k - m) = k
      BY <1>0
    <2> QED
      BY <2>1 DEF upTo
  <1> QED
    BY <1>4, <1>7, <1>8 DEF s

LEMMA NothingBefore ==
    ASSUME NEW lines
    PROVE  Reading(Events(lines, 0, 0)) = NothingRead
  <1>1. DOMAIN Events(lines, 0, 0) = {}
    BY DEF Events
  <1> QED
    BY <1>1, NothingToRead

\* More bytes have no fewer whole lines.
LEMMA WholeGrows ==
    ASSUME NEW lines, IsLines(lines), NEW n \in Nat, NEW m \in Nat, n <= m
    PROVE  WholeLines(lines, n) \in 0 .. WholeLines(lines, m)
  <1>1. PICK v : v = WholeLines(lines, n)
    OBVIOUS
  <1>2. PICK w : w = WholeLines(lines, m)
    OBVIOUS
  <1>3. v \in 0 .. Len(lines) /\ EndOf(lines, v) <= n
    BY <1>1, WholeIs
  <1>4. w \in 0 .. Len(lines) /\ (w < Len(lines) => m < EndOf(lines, w + 1))
    BY <1>2, WholeIs
  <1>5. Len(lines) \in Nat
    BY DEF IsLines
  <1>6. ASSUME w < v PROVE FALSE
    <2>1. w < Len(lines) /\ w + 1 \in 0 .. Len(lines) /\ (w + 1 < v \/ w + 1 = v)
      BY <1>3, <1>4, <1>5, <1>6
    <2>2. m < EndOf(lines, w + 1)
      BY <1>4, <2>1
    <2>3. EndOf(lines, v) \in Nat /\ EndOf(lines, w + 1) \in Nat
      BY <1>3, <2>1, Ends
    <2>4. EndOf(lines, w + 1) <= EndOf(lines, v)
      BY <1>3, <2>1, <2>3, Ends
    <2> QED
      BY <1>3, <2>2, <2>3, <2>4
  <1>7. v \in 0 .. w
    BY <1>3, <1>4, <1>5, <1>6
  <1> QED
    BY <1>1, <1>2, <1>7

\* A finite set of numbers has a largest, unless it is empty.
LEMMA FiniteIsBounded ==
    ASSUME NEW S \in SUBSET Nat, IsFiniteSet(S)
    PROVE  \E b \in Nat : \A x \in S : x <= b
  <1> DEFINE Bad == {n \in Nat : \E T \in SUBSET Nat : /\ IsFiniteSet(T) /\ Cardinality(T) = n
                                                      /\ ~\E b \in Nat : \A x \in T : x <= b}
  <1> SUFFICES ASSUME Bad # {} PROVE FALSE
    BY FS_CardinalityType
  <1>1. PICK n \in Bad : \A k \in Bad : n <= k
    <2>1. Bad \subseteq Nat
      OBVIOUS
    <2> HIDE DEF Bad
    <2> QED
      BY <2>1, LeastOf
  <1>2. PICK T \in SUBSET Nat : /\ IsFiniteSet(T) /\ Cardinality(T) = n
                                /\ ~\E b \in Nat : \A x \in T : x <= b
    OBVIOUS
  <1>3. PICK x \in T : TRUE
    <2>1. T # {}
      BY <1>2
    <2> QED
      BY <2>1
  <1>4. n \in Nat
    OBVIOUS
  <1>5. IsFiniteSet(T \ {x}) /\ Cardinality(T \ {x}) = n - 1
    BY <1>2, <1>3, FS_RemoveElement
  <1>6. n - 1 \in Nat /\ ~(n <= n - 1)
    <2>1. Cardinality(T \ {x}) \in Nat
      BY <1>5, FS_CardinalityType
    <2>2. n - 1 \in Nat
      BY <1>5, <2>1
    <2> QED
      BY <1>4, <2>2
  <1>7. PICK b \in Nat : \A y \in T \ {x} : y <= b
    <2>1. n - 1 \notin Bad
      <3> HIDE DEF Bad
      <3> QED
        BY <1>1, <1>6
    <2>2. T \ {x} \in SUBSET Nat
      OBVIOUS
    <2> QED
      BY <1>5, <1>6, <2>1, <2>2
  <1>8. x \in Nat
    OBVIOUS
  <1>9. \A y \in T : y \in Nat /\ (y = x \/ y <= b)
    BY <1>7
  <1>10. \E c \in Nat : \A y \in T : y <= c
    <2>1. CASE x <= b
      BY <1>7, <1>9, <2>1
    <2>2. CASE b <= x
      BY <1>7, <1>8, <1>9, <2>2
    <2> QED
      BY <1>7, <1>8, <2>1, <2>2
  <1> QED
    BY <1>2, <1>10

LEMMA NoneIsLarger ==
    ASSUME NEW S \in SUBSET Nat, IsFiniteSet(S), NEW n \in S
    PROVE  Max(S) \in Nat /\ n <= Max(S)
  <1>1. PICK b \in Nat : \A x \in S : x <= b
    BY FiniteIsBounded
  <1> QED
    BY <1>1, GreatestOf

-----------------------------------------------------------------------------
(* The tap.                                                                *)

\* Without an overflow everything relayed has been read up to the last whole
\* line; after one, what came before it, and a line and a chunk were too long.
Tapped(r, b, f, a, over, k, largest) ==
    /\ IsResponse(r)
    /\ f \in 0 .. LengthOf(r)
    /\ k \in Nat
    /\ IF over THEN k < f ELSE k = f
    /\ IF r.type = "sse"
       THEN /\ a = Reading(Events(r.lines, 0, WholeLines(r.lines, k)))
            /\ ~over => b = Unfinished(r.lines, f)
            /\ over => \E n \in {r.tail} \cup {line.len : line \in Range(r.lines)} :
                           n + largest > USAGE_TAP_MAX_BUFFER
       ELSE a = NothingRead

TapInv ==
    /\ drawn \in DOMAIN Inputs
    /\ Tapped(response, buffered, fed, absorbed, overflow, kept, Max(inputs.chunks))

LEMMA ResponseShape ==
    ASSUME NEW r, IsResponse(r)
    PROVE  IsLines(r.lines) /\ r.tail \in Nat /\ LengthOf(r) \in Nat
           /\ LengthOf(r) = EndOf(r.lines, Len(r.lines)) + r.tail
  <1>1. IsLines(r.lines) /\ r.tail \in Nat
    BY DEF IsResponse, IsLines
  <1>2. Len(r.lines) \in 0 .. Len(r.lines)
    BY <1>1 DEF IsLines
  <1>3. EndOf(r.lines, Len(r.lines)) \in Nat
    BY <1>1, <1>2, Ends
  <1> QED
    BY <1>1, <1>3 DEF LengthOf

\* A response that begins has not been read.
LEMMA BegunTapped ==
    ASSUME NEW r, IsResponse(r), NEW largest
    PROVE  Tapped(r, 0, 0, NothingRead, FALSE, 0, largest)
  <1>1. IsLines(r.lines) /\ LengthOf(r) \in Nat
    BY ResponseShape
  <1>2. PICK w : w = WholeLines(r.lines, 0)
    OBVIOUS
  <1>3. w \in 0 .. Len(r.lines) /\ EndOf(r.lines, w) <= 0
    BY <1>1, <1>2, WholeIs
  <1>4. w = 0
    <2>1. Len(r.lines) \in Nat /\ 0 \in 0 .. Len(r.lines)
      BY <1>1 DEF IsLines
    <2>2. EndOf(r.lines, 0) = 0 /\ EndOf(r.lines, w) \in Nat
      BY <1>1, <1>3, Ends
    <2>3. 0 < w => EndOf(r.lines, 0) < EndOf(r.lines, w)
      BY <1>1, <1>3, <2>1, Ends
    <2>4. w \in Nat
      BY <1>3, <2>1
    <2>5. ~(0 < w)
      BY <1>3, <2>2, <2>3
    <2> QED
      BY <2>4, <2>5
  <1>5. Reading(Events(r.lines, 0, WholeLines(r.lines, 0))) = NothingRead
    BY <1>2, <1>4, NothingBefore
  <1>6. Unfinished(r.lines, 0) = 0
    <2>1. EndOf(r.lines, 0) = 0
      BY <1>1, Ends
    <2> QED
      BY <1>2, <1>4, <2>1 DEF Unfinished
  <1> QED
    BY <1>1, <1>5, <1>6 DEF Tapped

\* What is left in the buffer is less than a line, or no more than the tail.
LEMMA UnfinishedIsPart ==
    ASSUME NEW r, IsResponse(r), NEW f \in 0 .. LengthOf(r)
    PROVE  /\ Unfinished(r.lines, f) \in Nat
           /\ \E n \in {r.tail} \cup {line.len : line \in Range(r.lines)} :
                  n \in Nat /\ Unfinished(r.lines, f) <= n
  <1> DEFINE lines == r.lines
  <1>1. /\ IsLines(lines) /\ r.tail \in Nat /\ LengthOf(r) \in Nat
        /\ LengthOf(r) = EndOf(lines, Len(lines)) + r.tail
    BY ResponseShape
  <1>2. PICK w : w = WholeLines(lines, f)
    OBVIOUS
  <1>3. f \in Nat /\ f <= LengthOf(r)
    BY <1>1
  <1>4. /\ w \in 0 .. Len(lines) /\ EndOf(lines, w) <= f
        /\ w < Len(lines) => f < EndOf(lines, w + 1)
    BY <1>1, <1>2, <1>3, WholeIs
  <1>5. Len(lines) \in Nat /\ DOMAIN lines = 1 .. Len(lines)
    BY <1>1 DEF IsLines
  <1>6. EndOf(lines, w) \in Nat
    BY <1>1, <1>4, Ends
  <1>7. PICK e \in Nat : e = EndOf(lines, w)
    BY <1>6
  <1>8. Unfinished(lines, f) = f - e
    BY <1>2, <1>7 DEF Unfinished
  <1>9. f - e \in Nat
    BY <1>3, <1>4, <1>7
  <1>10. CASE w < Len(lines)
    <2>1. w \in Nat /\ w + 1 \in 1 .. Len(lines)
      BY <1>4, <1>5, <1>10
    <2>2. EndOf(lines, w + 1) = EndOf(lines, w) + lines[w + 1].len
      <3>1. PICK i : i = w + 1
        OBVIOUS
      <3>2. i \in 1 .. Len(lines) /\ i - 1 = w
        BY <2>1, <3>1
      <3>3. EndOf(lines, i) = EndOf(lines, i - 1) + lines[i].len
        BY <1>1, <3>2, Ends
      <3> QED
        BY <3>1, <3>2, <3>3
    <2>3. lines[w + 1].len \in Nat /\ lines[w + 1] \in Range(lines)
      BY <1>1, <1>5, <2>1 DEF IsLines, Range
    <2>4. PICK n \in Nat : n = lines[w + 1].len
      BY <2>3
    <2>5. f < e + n
      BY <1>4, <1>7, <1>10, <2>2, <2>4
    <2>6. f - e <= n
      BY <1>3, <2>5
    <2>7. n \in {line.len : line \in Range(lines)}
      BY <2>3, <2>4
    <2> QED
      BY <1>8, <1>9, <2>6, <2>7
  <1>11. CASE w = Len(lines)
    <2>1. PICK n \in Nat : n = r.tail
      BY <1>1
    <2>2. f <= e + n
      BY <1>1, <1>3, <1>7, <1>11, <2>1
    <2>3. f - e <= n
      BY <1>3, <2>2
    <2> QED
      BY <1>8, <1>9, <2>1, <2>3
  <1> QED
    BY <1>4, <1>5, <1>10, <1>11

\* A chunk.
LEMMA FedTapped ==
    ASSUME TapInv, NEW n \in inputs.chunks, feed(n)
    PROVE  Tapped(response, buffered', fed', absorbed', overflow', kept', Max(inputs.chunks))
  <1> DEFINE lines == response.lines
             largest == Max(inputs.chunks)
             L == LengthOf(response)
             lengths == {response.tail} \cup {line.len : line \in Range(lines)}
  <1>1. /\ IsResponse(response) /\ fed \in 0 .. L /\ kept \in Nat
        /\ IF overflow THEN kept < fed ELSE kept = fed
    BY DEF TapInv, Tapped
  <1>2. IsLines(lines) /\ L \in Nat
    BY <1>1, ResponseShape
  <1>3. n \in Nat /\ largest \in Nat /\ n <= largest
    <2>1. inputs.chunks \in SUBSET Nat /\ IsFiniteSet(inputs.chunks)
      BY InputsAssumption DEF TapInv, inputs
    <2> QED
      BY <2>1, NoneIsLarger
  <1>4. n >= 1 /\ n <= L - fed /\ fed' = fed + n
    <2>1. n \in 1 .. L - fed /\ fed' = fed + n
      BY DEF feed
    <2>2. L - fed \in Int
      BY <1>1, <1>2
    <2> QED
      BY <2>1, <2>2
  <1>5. fed \in Nat /\ fed' \in 0 .. L /\ fed < fed' /\ fed' \in Nat
    BY <1>1, <1>2, <1>3, <1>4
  <1>6. /\ overflow' = (overflow \/ buffered + n > USAGE_TAP_MAX_BUFFER)
        /\ kept' = IF overflow' THEN kept ELSE fed'
    BY DEF feed
  <1>7. kept' \in Nat /\ IF overflow' THEN kept' < fed' ELSE kept' = fed'
    BY <1>1, <1>5, <1>6
  <1>8. CASE response.type # "sse"
    <2>1. absorbed = NothingRead
      BY <1>8 DEF TapInv, Tapped
    <2>2. absorbed' = absorbed
      BY <1>8 DEF feed
    <2> QED
      BY <1>1, <1>5, <1>7, <1>8, <2>1, <2>2 DEF Tapped
  <1>9. CASE response.type = "sse"
    <2>1. /\ absorbed = Reading(Events(lines, 0, WholeLines(lines, kept)))
          /\ ~overflow => buffered = Unfinished(lines, fed)
          /\ overflow => \E m \in lengths : m + largest > USAGE_TAP_MAX_BUFFER
      BY <1>9 DEF TapInv, Tapped
    <2>2. CASE overflow'
      <3>1. absorbed' = absorbed /\ kept' = kept
        BY <2>2 DEF feed
      <3>2. \E m \in lengths : m + largest > USAGE_TAP_MAX_BUFFER
        <4>1. CASE overflow
          BY <2>1, <4>1
        <4>2. CASE ~overflow
          <5>1. Unfinished(lines, fed) + n > USAGE_TAP_MAX_BUFFER
            BY <1>6, <2>1, <2>2, <4>2
          <5>2. PICK m \in lengths : m \in Nat /\ Unfinished(lines, fed) <= m
            BY <1>1, UnfinishedIsPart
          <5>3. PICK u \in Nat : u = Unfinished(lines, fed)
            BY <1>1, UnfinishedIsPart
          <5>4. u + n > USAGE_TAP_MAX_BUFFER /\ u <= m
            BY <5>1, <5>2, <5>3
          <5>5. m + largest > USAGE_TAP_MAX_BUFFER
            BY <1>3, <5>2, <5>4, BufferAssumption
          <5> QED
            BY <5>5
        <4> QED
          BY <4>1, <4>2
      <3> QED
        BY <1>1, <1>5, <1>7, <1>9, <2>1, <2>2, <3>1, <3>2 DEF Tapped
    <2>3. CASE ~overflow'
      <3>1. ~overflow /\ kept = fed /\ kept' = fed'
        BY <1>1, <1>6, <2>3
      <3>2. PICK w : w = WholeLines(lines, fed)
        OBVIOUS
      <3>3. PICK v : v = WholeLines(lines, fed')
        OBVIOUS
      <3>4. v \in 0 .. Len(lines) /\ w \in 0 .. Len(lines) /\ w \in 0 .. v
        <4> HIDE DEF lines
        <4>1. PICK before, after : before = fed /\ after = fed'
          OBVIOUS
        <4>2. before \in Nat /\ after \in Nat /\ before <= after
          BY <1>5, <4>1
        <4>3. WholeLines(lines, before) \in 0 .. Len(lines)
          BY <1>2, <4>2, WholeIs
        <4>4. WholeLines(lines, after) \in 0 .. Len(lines)
          BY <1>2, <4>2, WholeIs
        <4>5. WholeLines(lines, before) \in 0 .. WholeLines(lines, after)
          BY <1>2, <4>2, WholeGrows
        <4> QED
          BY <3>2, <3>3, <4>1, <4>3, <4>4, <4>5
      <3>5. fed - buffered = EndOf(lines, w)
        <4>1. buffered = fed - EndOf(lines, w)
          BY <2>1, <3>1, <3>2 DEF Unfinished
        <4>2. EndOf(lines, w) \in Nat
          BY <1>2, <3>4, Ends
        <4> QED
          BY <1>5, <4>1, <4>2
      <3>6. Begun(lines, fed - buffered) = w
        BY <1>2, <3>4, <3>5, BegunIs
      <3>7. absorbed' = Absorbed(absorbed, Events(lines, Begun(lines, fed - buffered), v))
        BY <1>9, <2>3, <3>3 DEF feed
      <3>8. absorbed = Reading(Events(lines, 0, w))
        BY <2>1, <3>1, <3>2
      <3>9. absorbed' = Reading(Events(lines, 0, v))
        BY <1>2, <3>4, <3>6, <3>7, <3>8, ReadingGoesOn
      <3>10. buffered' = Unfinished(lines, fed')
        BY <1>9, <2>3 DEF feed
      <3> QED
        BY <1>1, <1>5, <1>7, <1>9, <2>3, <3>1, <3>3, <3>9, <3>10 DEF Tapped
    <2> QED
      BY <2>2, <2>3
  <1> QED
    BY <1>8, <1>9

LEMMA TapInvHolds == Spec => []TapInv
  <1>1. Init => TapInv
    <2> SUFFICES ASSUME Init PROVE TapInv
      OBVIOUS
    <2>1. IsResponse(NoResponse)
      BY DEF IsResponse, NoResponse
    <2>2. Tapped(NoResponse, 0, 0, NothingRead, FALSE, 0, Max(inputs.chunks))
      BY <2>1, BegunTapped
    <2>3. /\ response = NoResponse /\ fed = 0 /\ buffered = 0 /\ absorbed = NothingRead
          /\ overflow = FALSE /\ kept = 0 /\ drawn \in DOMAIN Inputs
      BY DEF Init, TapInit
    <2> QED
      BY <2>2, <2>3 DEF TapInv
  <1>2. TapInv /\ [Next]_vars => TapInv'
    <2> SUFFICES ASSUME TapInv, [Next]_vars PROVE TapInv'
      OBVIOUS
    <2>1. CASE \E r \in inputs.responses : Respond(r)
      <3>1. PICK r \in inputs.responses : Respond(r)
        BY <2>1
      <3>2. drawn \in DOMAIN Inputs /\ drawn' = drawn
        BY <3>1 DEF TapInv, Respond
      <3>3. IsResponse(r)
        BY <3>2, InputsAssumption DEF inputs
      <3>4. Tapped(r, 0, 0, NothingRead, FALSE, 0, Max(inputs.chunks))
        BY <3>3, BegunTapped
      <3>5. /\ response' = r /\ fed' = 0 /\ buffered' = 0 /\ absorbed' = NothingRead
            /\ overflow' = FALSE /\ kept' = 0
        BY <3>1 DEF Respond, BeginResponse
      <3> QED
        BY <3>2, <3>4, <3>5 DEF TapInv, inputs
    <2>2. CASE \E n \in inputs.chunks : Relay(n)
      <3>1. PICK n \in inputs.chunks : Relay(n)
        BY <2>2
      <3>2. drawn \in DOMAIN Inputs /\ drawn' = drawn
        BY <3>1 DEF TapInv, Relay
      <3>3. feed(n) /\ response' = response
        BY <3>1 DEF Relay, feed
      <3>4. Tapped(response, buffered', fed', absorbed', overflow', kept', Max(inputs.chunks))
        BY <3>3, FedTapped
      <3> QED
        BY <3>2, <3>3, <3>4 DEF TapInv, inputs
    <2>3. CASE UNCHANGED <<tapVars, drawn>>
      BY <2>3 DEF TapInv, Tapped, tapVars, inputs
    <2>4. ASSUME NEW r \in inputs.requests, Arrive(r) PROVE UNCHANGED <<tapVars, drawn>>
      BY <2>4 DEF Arrive, tapVars
    <2>5. ASSUME NEW body \in inputs.bodies, Prepare(body) PROVE UNCHANGED <<tapVars, drawn>>
      BY <2>5 DEF Prepare, tapVars
    <2>6. ASSUME NEW session \in inputs.sessions, NEW table \in inputs.tables,
                 Finish(session, table)
          PROVE  UNCHANGED <<tapVars, drawn>>
      BY <2>6 DEF Finish, tapVars
    <2>7. Tick => UNCHANGED <<tapVars, drawn>>
      BY DEF Tick, tapVars
    <2>8. NextMonth => UNCHANGED <<tapVars, drawn>>
      BY DEF NextMonth, tapVars
    <2>9. ASSUME NEW q \in inputs.quotas, Configure(q) PROVE UNCHANGED <<tapVars, drawn>>
      BY <2>9 DEF Configure, tapVars
    <2>10. Restart => UNCHANGED <<tapVars, drawn>>
      BY DEF Restart, tapVars
    <2>11. UNCHANGED vars => UNCHANGED <<tapVars, drawn>>
      BY DEF vars, tapVars
    <2> QED
      BY <2>1, <2>2, <2>3, <2>4, <2>5, <2>6, <2>7, <2>8, <2>9, <2>10, <2>11 DEF Next
  <1> QED
    BY <1>1, <1>2, PTL DEF Spec

(* However a response is cut into chunks and wherever the relay stops, the *)
(* tap has read every whole line, or the whole body, that came before an   *)
(* overflow, each once and in order, and the buffer overflows only for a   *)
(* line and a chunk longer than it together (quota/tap.py).                *)
THEOREM TapReadsWhatFits == Spec => []TapReads
  <1>1. TapInv => TapReads
    <2> SUFFICES ASSUME TapInv PROVE ReadsWhatFits(Max(inputs.chunks))
      BY DEF TapReads
    <2> DEFINE lines == response.lines
               whole == IF kept = LengthOf(response) THEN Len(lines) ELSE 0
    <2>1. /\ IsResponse(response) /\ fed \in 0 .. LengthOf(response) /\ kept \in Nat
          /\ IF overflow THEN kept < fed ELSE kept = fed
      BY DEF TapInv, Tapped
    <2>2. CASE response.type = "sse"
      BY <2>2 DEF TapInv, Tapped, ReadsWhatFits, finalize
    <2>3. CASE response.type = "json"
      <3>1. absorbed = NothingRead
        BY <2>3 DEF TapInv, Tapped
      <3>2. IsLines(lines) /\ LengthOf(response) \in Nat
        BY <2>1, ResponseShape
      <3>3. Reading(Events(lines, 0, 0)) = NothingRead
        BY NothingBefore
      <3>4. CASE ~overflow /\ fed = LengthOf(response)
        <4>1. finalize = Absorbed(NothingRead, Events(lines, 0, Len(lines)))
          BY <2>3, <3>1, <3>4 DEF finalize
        <4>2. Len(lines) \in 0 .. Len(lines) /\ 0 \in 0 .. Len(lines)
          BY <3>2 DEF IsLines
        <4>3. finalize = Reading(Events(lines, 0, Len(lines)))
          BY <3>2, <3>3, <4>1, <4>2, ReadingGoesOn
        <4>4. kept = LengthOf(response)
          BY <2>1, <3>4
        <4> QED
          BY <2>3, <4>3, <4>4 DEF ReadsWhatFits
      <3>5. CASE ~(~overflow /\ fed = LengthOf(response))
        <4>1. finalize = Reading(Events(lines, 0, 0))
          BY <3>1, <3>3, <3>5 DEF finalize
        <4>2. kept # LengthOf(response)
          BY <2>1, <3>2, <3>5
        <4> QED
          BY <2>3, <4>1, <4>2 DEF ReadsWhatFits
      <3> QED
        BY <3>4, <3>5
    <2>4. CASE response.type # "sse" /\ response.type # "json"
      BY <2>4 DEF TapInv, Tapped, ReadsWhatFits, finalize
    <2> QED
      BY <2>2, <2>3, <2>4
  <1> QED
    BY <1>1, TapInvHolds, PTL

-----------------------------------------------------------------------------
(* The places of a body.                                                   *)

LEMMA StringIsNoList == String \notin Seq(Mark)
  <1> SUFFICES ASSUME String \in Seq(Mark) PROVE FALSE
    OBVIOUS
  <1>1. String[1] = "text" /\ Len(String) = 1
    BY DEF String
  <1>2. String[1] \in Mark
    BY <1>1
  <1> QED
    BY <1>1, <1>2 DEF Mark

LEMMA BodyParts ==
    ASSUME NEW body, IsBody(body)
    PROVE  /\ DOMAIN body = {"tools", "system", "messages"}
           /\ body.tools \in Seq(Mark)
           /\ SystemMarks(body) \in Seq(Mark)
           /\ body.messages \in Seq(Seq(Block))
           /\ body.system # String => body.system = SystemMarks(body)
           /\ body.system \in Seq(Mark) => body.system # String
  <1>1. <<>> \in Seq(Mark)
    OBVIOUS
  <1>2. String \notin Seq(Mark)
    BY StringIsNoList
  <1> QED
    BY <1>1, <1>2 DEF IsBody, SystemMarks

LEMMA PlaceParts ==
    ASSUME NEW messages, NEW p \in MessagePlaces(messages)
    PROVE  /\ p = <<3, p[2], p[3], p[4]>>
           /\ p[1] = 3
           /\ p[2] \in DOMAIN messages
           /\ p[3] \in DOMAIN messages[p[2]]
           /\ p[4] \in {0} \cup DOMAIN messages[p[2]][p[3]].texts
  <1>1. PICK m, b, t : /\ m \in DOMAIN messages /\ b \in DOMAIN messages[m]
                       /\ t \in {0} \cup DOMAIN messages[m][b].texts
                       /\ p = <<3, m, b, t>>
    BY DEF MessagePlaces
  <1> QED
    BY <1>1

LEMMA MessagePlace ==
    ASSUME NEW messages, NEW m, NEW b, NEW t,
           m \in DOMAIN messages, b \in DOMAIN messages[m],
           t \in {0} \cup DOMAIN messages[m][b].texts
    PROVE  <<3, m, b, t>> \in MessagePlaces(messages)
  <1> DEFINE inBlock(i, j) == {<<3, i, j, k>> : k \in {0} \cup DOMAIN messages[i][j].texts}
             inMessage(i) == UNION {inBlock(i, j) : j \in DOMAIN messages[i]}
  <1>1. <<3, m, b, t>> \in inBlock(m, b)
    OBVIOUS
  <1>2. <<3, m, b, t>> \in inMessage(m)
    <2> HIDE DEF inBlock
    <2> QED
      BY <1>1
  <1>3. <<3, m, b, t>> \in UNION {inMessage(i) : i \in DOMAIN messages}
    <2> HIDE DEF inMessage
    <2> QED
      BY <1>2
  <1> QED
    BY <1>3 DEF MessagePlaces

\* Messages of one shape have the same places.
LEMMA SamePlaces ==
    ASSUME NEW f, NEW g, DOMAIN f = DOMAIN g,
           \A m \in DOMAIN f : DOMAIN f[m] = DOMAIN g[m],
           \A m \in DOMAIN f : \A b \in DOMAIN f[m] : DOMAIN f[m][b].texts = DOMAIN g[m][b].texts
    PROVE  MessagePlaces(f) = MessagePlaces(g)
  <1>1. ASSUME NEW p \in MessagePlaces(f) PROVE p \in MessagePlaces(g)
    <2>1. /\ p = <<3, p[2], p[3], p[4]>> /\ p[2] \in DOMAIN f /\ p[3] \in DOMAIN f[p[2]]
          /\ p[4] \in {0} \cup DOMAIN f[p[2]][p[3]].texts
      BY PlaceParts
    <2>2. /\ p[2] \in DOMAIN g /\ p[3] \in DOMAIN g[p[2]]
          /\ p[4] \in {0} \cup DOMAIN g[p[2]][p[3]].texts
      BY <2>1
    <2> QED
      BY <2>1, <2>2, MessagePlace
  <1>2. ASSUME NEW p \in MessagePlaces(g) PROVE p \in MessagePlaces(f)
    <2>1. /\ p = <<3, p[2], p[3], p[4]>> /\ p[2] \in DOMAIN g /\ p[3] \in DOMAIN g[p[2]]
          /\ p[4] \in {0} \cup DOMAIN g[p[2]][p[3]].texts
      BY PlaceParts
    <2>2. /\ p[2] \in DOMAIN f /\ p[3] \in DOMAIN f[p[2]]
          /\ p[4] \in {0} \cup DOMAIN f[p[2]][p[3]].texts
      BY <2>1
    <2> QED
      BY <2>1, <2>2, MessagePlace
  <1> QED
    BY <1>1, <1>2

\* A place is in one of the three parts, and its mark is what is there.
LEMMA PlaceIs ==
    ASSUME NEW body
    PROVE  /\ DOMAIN Marks(body) = MarkPlaces(body)
           /\ \A p \in MarkPlaces(body) : p[1] \in {1, 2, 3}
           /\ \A p : p \in MarkPlaces(body) /\ p[1] = 1 <=>
                       \E i \in DOMAIN body.tools : p = <<1, i, 0, 0>>
           /\ \A p : p \in MarkPlaces(body) /\ p[1] = 2 <=>
                       \E i \in DOMAIN SystemMarks(body) : p = <<2, i, 0, 0>>
           /\ \A p : p \in MarkPlaces(body) /\ p[1] = 3 <=> p \in MessagePlaces(body.messages)
           /\ \A i \in DOMAIN body.tools : Marks(body)[<<1, i, 0, 0>>] = body.tools[i]
           /\ \A i \in DOMAIN SystemMarks(body) :
                Marks(body)[<<2, i, 0, 0>>] = SystemMarks(body)[i]
           /\ \A p \in MessagePlaces(body.messages) :
                Marks(body)[p] = BlockMark(body.messages[p[2]][p[3]], p[4])
  <1>1. \A p \in MessagePlaces(body.messages) : p[1] = 3
    BY PlaceParts
  <1>2. DOMAIN Marks(body) = MarkPlaces(body)
    BY DEF Marks
  <1>3. \A p \in MarkPlaces(body) : p[1] \in {1, 2, 3}
    BY <1>1 DEF MarkPlaces
  <1>4. \A p : p \in MarkPlaces(body) /\ p[1] = 1 <=>
                 \E i \in DOMAIN body.tools : p = <<1, i, 0, 0>>
    BY <1>1 DEF MarkPlaces
  <1>5. \A p : p \in MarkPlaces(body) /\ p[1] = 2 <=>
                 \E i \in DOMAIN SystemMarks(body) : p = <<2, i, 0, 0>>
    BY <1>1 DEF MarkPlaces
  <1>6. \A p : p \in MarkPlaces(body) /\ p[1] = 3 <=> p \in MessagePlaces(body.messages)
    BY <1>1 DEF MarkPlaces
  <1>7. \A i \in DOMAIN body.tools : Marks(body)[<<1, i, 0, 0>>] = body.tools[i]
    <2> SUFFICES ASSUME NEW i \in DOMAIN body.tools
                 PROVE  Marks(body)[<<1, i, 0, 0>>] = body.tools[i]
      OBVIOUS
    <2>1. PICK p : p = <<1, i, 0, 0>>
      OBVIOUS
    <2>2. p \in MarkPlaces(body) /\ p[1] = 1 /\ p[2] = i
      BY <2>1 DEF MarkPlaces
    <2> QED
      BY <2>1, <2>2 DEF Marks
  <1>8. \A i \in DOMAIN SystemMarks(body) : Marks(body)[<<2, i, 0, 0>>] = SystemMarks(body)[i]
    <2> SUFFICES ASSUME NEW i \in DOMAIN SystemMarks(body)
                 PROVE  Marks(body)[<<2, i, 0, 0>>] = SystemMarks(body)[i]
      OBVIOUS
    <2>1. PICK p : p = <<2, i, 0, 0>>
      OBVIOUS
    <2>2. p \in MarkPlaces(body) /\ p[1] = 2 /\ p[2] = i
      BY <2>1 DEF MarkPlaces
    <2> QED
      BY <2>1, <2>2 DEF Marks
  <1>9. \A p \in MessagePlaces(body.messages) :
          Marks(body)[p] = BlockMark(body.messages[p[2]][p[3]], p[4])
    BY <1>1, <1>6 DEF Marks
  <1> QED
    BY <1>2, <1>3, <1>4, <1>5, <1>6, <1>7, <1>8, <1>9

LEMMA UnionIsFinite ==
    ASSUME NEW f, IsFiniteSet(DOMAIN f), \A x \in DOMAIN f : IsFiniteSet(f[x])
    PROVE  IsFiniteSet(UNION {f[x] : x \in DOMAIN f})
  <1>1. IsFiniteSet({f[x] : x \in DOMAIN f})
    BY ImageIsFinite
  <1> QED
    BY <1>1, FS_UNION

LEMMA SequenceDomain ==
    ASSUME NEW S, NEW s \in Seq(S)
    PROVE  /\ Len(s) \in Nat /\ DOMAIN s = 1 .. Len(s) /\ IsFiniteSet(DOMAIN s)
           /\ \A i \in DOMAIN s : s[i] \in S
  <1>1. Len(s) \in Nat /\ DOMAIN s = 1 .. Len(s) /\ \A i \in DOMAIN s : s[i] \in S
    BY ElementOfSeq, LenProperties
  <1> QED
    BY <1>1, FS_Interval

LEMMA PlacesAreFinite ==
    ASSUME NEW body, IsBody(body)
    PROVE  IsFiniteSet(MarkPlaces(body))
  <1> DEFINE ms == body.messages
             inBlock(m, b) == {<<3, m, b, t>> : t \in {0} \cup DOMAIN ms[m][b].texts}
             inMessage(m) == UNION {inBlock(m, b) : b \in DOMAIN ms[m]}
  <1>1. ms \in Seq(Seq(Block)) /\ body.tools \in Seq(Mark) /\ SystemMarks(body) \in Seq(Mark)
    BY BodyParts
  <1>2. ASSUME NEW m, NEW b, m \in DOMAIN ms, b \in DOMAIN ms[m]
        PROVE  IsFiniteSet(inBlock(m, b))
    <2>1. ms[m] \in Seq(Block)
      BY <1>1, <1>2, SequenceDomain
    <2>2. ms[m][b] \in Block
      BY <1>2, <2>1, SequenceDomain
    <2>3. ms[m][b].texts \in Seq([mark : Mark, length : Nat])
      BY <2>2 DEF Block
    <2>4. IsFiniteSet(DOMAIN ms[m][b].texts)
      BY <2>3, SequenceDomain
    <2>5. IsFiniteSet({0} \cup DOMAIN ms[m][b].texts)
      BY <2>4, FS_Singleton, FS_Union
    <2> DEFINE f == [t \in {0} \cup DOMAIN ms[m][b].texts |-> <<3, m, b, t>>]
    <2>6. IsFiniteSet({f[t] : t \in DOMAIN f})
      <3>1. IsFiniteSet(DOMAIN f)
        BY <2>5
      <3> HIDE DEF f
      <3> QED
        BY <3>1, ImageIsFinite
    <2>7. {f[t] : t \in DOMAIN f} = inBlock(m, b)
      OBVIOUS
    <2> QED
      BY <2>6, <2>7
  <1>3. ASSUME NEW m \in DOMAIN ms PROVE IsFiniteSet(inMessage(m))
    <2>1. ms[m] \in Seq(Block)
      BY <1>1, SequenceDomain
    <2>2. IsFiniteSet(DOMAIN ms[m])
      BY <2>1, SequenceDomain
    <2> DEFINE f == [b \in DOMAIN ms[m] |-> inBlock(m, b)]
    <2>3. \A b \in DOMAIN f : IsFiniteSet(f[b])
      BY <1>2
    <2>4. IsFiniteSet(UNION {f[b] : b \in DOMAIN f})
      <3>1. IsFiniteSet(DOMAIN f)
        BY <2>2
      <3> HIDE DEF f
      <3> QED
        BY <2>3, <3>1, UnionIsFinite
    <2> HIDE DEF inBlock
    <2>5. {f[b] : b \in DOMAIN f} = {inBlock(m, b) : b \in DOMAIN ms[m]}
      OBVIOUS
    <2> QED
      BY <2>4, <2>5
  <1>4. IsFiniteSet(MessagePlaces(ms))
    <2> DEFINE f == [m \in DOMAIN ms |-> inMessage(m)]
    <2>1. IsFiniteSet(DOMAIN f)
      BY <1>1, SequenceDomain
    <2> HIDE DEF inMessage
    <2>2. \A m \in DOMAIN f : IsFiniteSet(f[m])
      BY <1>3
    <2>3. {f[m] : m \in DOMAIN f} = {inMessage(m) : m \in DOMAIN ms}
      OBVIOUS
    <2> HIDE DEF f
    <2>4. IsFiniteSet(UNION {f[m] : m \in DOMAIN f})
      BY <2>1, <2>2, UnionIsFinite
    <2> QED
      BY <2>3, <2>4 DEF MessagePlaces, inMessage
  <1>5. ASSUME NEW k, NEW s \in Seq(Mark) PROVE IsFiniteSet({<<k, i, 0, 0>> : i \in DOMAIN s})
    <2> DEFINE f == [i \in DOMAIN s |-> <<k, i, 0, 0>>]
    <2>1. IsFiniteSet(DOMAIN f)
      BY SequenceDomain
    <2>2. {f[i] : i \in DOMAIN f} = {<<k, i, 0, 0>> : i \in DOMAIN s}
      OBVIOUS
    <2> HIDE DEF f
    <2>3. IsFiniteSet({f[i] : i \in DOMAIN f})
      BY <2>1, ImageIsFinite
    <2> QED
      BY <2>2, <2>3
  <1>6. /\ IsFiniteSet({<<1, i, 0, 0>> : i \in DOMAIN body.tools})
        /\ IsFiniteSet({<<2, i, 0, 0>> : i \in DOMAIN SystemMarks(body)})
    BY <1>1, <1>5
  <1> HIDE DEF ms
  <1> QED
    BY <1>4, <1>6, FS_Union DEF MarkPlaces, ms

-----------------------------------------------------------------------------
(* What is raised and added.                                               *)

RaisedAt(marks, i, closed) ==
    IF marks[i] = "5m" \/ (closed /\ i = Len(marks)) THEN "1h" ELSE marks[i]

OpenEnd(marks) == marks # <<>> /\ marks[Len(marks)] = "no"

LEMMA RaisedShape ==
    ASSUME NEW marks \in Seq(Mark)
    PROVE  /\ Raised(marks) \in Seq(Mark) /\ DOMAIN Raised(marks) = DOMAIN marks
           /\ \A i \in DOMAIN marks : Raised(marks)[i] = RaisedAt(marks, i, FALSE)
           /\ Open(Raised(marks)) <=> OpenEnd(marks)
  <1> DEFINE n == Len(marks)
             r == Raised(marks)
  <1>1. n \in Nat /\ DOMAIN marks = 1 .. n /\ \A i \in 1 .. n : marks[i] \in Mark
    BY SequenceDomain
  <1>2. /\ DOMAIN r = 1 .. n
        /\ \A i \in 1 .. n : r[i] = IF marks[i] = "5m" THEN "1h" ELSE marks[i]
    BY <1>1 DEF Raised
  <1>3. \A i \in 1 .. n : r[i] \in Mark
    BY <1>1, <1>2 DEF Mark
  <1>4. r \in Seq(Mark)
    <2>1. r = [i \in 1 .. n |-> r[i]]
      BY <1>1 DEF Raised
    <2> HIDE DEF r, n
    <2> QED
      BY <1>1, <1>3, <2>1
  <1>5. Len(r) = n
    BY <1>1, <1>2, <1>4, SequenceDomain
  <1>6. /\ marks = <<>> <=> n = 0
        /\ r = <<>> <=> n = 0
    <2>1. marks = <<>> <=> n = 0
      BY EmptySeq
    <2>2. r = <<>> <=> Len(r) = 0
      <3> HIDE DEF r
      <3> QED
        BY <1>4, EmptySeq
    <2> QED
      BY <1>5, <2>1, <2>2
  <1>7. n # 0 => (r[n] = "no" <=> marks[n] = "no")
    <2>1. n # 0 => n \in 1 .. n
      BY <1>1
    <2> HIDE DEF r, n
    <2> QED
      BY <1>2, <2>1
  <1>8. Open(r) <=> OpenEnd(marks)
    <2> HIDE DEF r
    <2> QED
      BY <1>5, <1>6, <1>7 DEF Open, OpenEnd, Last
  <1>9. \A i \in DOMAIN marks : r[i] = RaisedAt(marks, i, FALSE)
    <2> HIDE DEF r
    <2> QED
      BY <1>1, <1>2 DEF RaisedAt
  <1> QED
    BY <1>1, <1>2, <1>4, <1>8, <1>9

LEMMA ClosedShape ==
    ASSUME NEW marks \in Seq(Mark), OpenEnd(marks)
    PROVE  /\ Closed(Raised(marks)) \in Seq(Mark)
           /\ DOMAIN Closed(Raised(marks)) = DOMAIN marks
           /\ \A i \in DOMAIN marks : Closed(Raised(marks))[i] = RaisedAt(marks, i, TRUE)
  <1> DEFINE n == Len(marks)
             c == Closed(Raised(marks))
  <1>1. n \in Nat /\ DOMAIN marks = 1 .. n /\ \A i \in 1 .. n : marks[i] \in Mark
    BY SequenceDomain
  <1>2. PICK r \in Seq(Mark) : r = Raised(marks)
    BY RaisedShape
  <1>3. DOMAIN r = 1 .. n /\ \A i \in 1 .. n : r[i] = RaisedAt(marks, i, FALSE)
    BY <1>1, <1>2, RaisedShape
  <1>4. Len(r) = n
    BY <1>1, <1>3, SequenceDomain
  <1>5. c = [r EXCEPT ![n] = "1h"]
    BY <1>2, <1>4 DEF Closed
  <1>6. /\ DOMAIN c = 1 .. n
        /\ \A i \in 1 .. n : c[i] = IF i = n THEN "1h" ELSE r[i]
    BY <1>3, <1>5
  <1>7. \A i \in 1 .. n : r[i] \in Mark
    BY <1>3, SequenceDomain
  <1>8. \A i \in 1 .. n : c[i] \in Mark
    BY <1>6, <1>7 DEF Mark
  <1>9. c \in Seq(Mark)
    <2>1. c = [i \in 1 .. n |-> c[i]]
      BY <1>3, <1>5, <1>6
    <2> HIDE DEF c, n
    <2> QED
      BY <1>1, <1>8, <2>1
  <1>10. \A i \in 1 .. n : c[i] = RaisedAt(marks, i, TRUE)
    BY <1>3, <1>6 DEF RaisedAt
  <1> QED
    BY <1>1, <1>6, <1>9, <1>10

Budget(b) == MAX_CACHE_BREAKPOINTS - _count_cache_breakpoints(b)

\* whether the system prompt, and whether the tools get a new breakpoint
First(b) == (b.system # String => OpenEnd(b.system)) /\ Budget(b) > 0

Second(b) == OpenEnd(b.tools) /\ Budget(b) > (IF First(b) THEN 1 ELSE 0)

LEMMA AppliedUnfolds ==
    ASSUME NEW b, IsBody(b)
    PROVE  LET a == _apply_cache_breakpoints(b)
           IN  /\ DOMAIN a.body = {"tools", "system", "messages"}
               /\ a.body.messages = b.messages
               /\ a.body.tools = IF Second(b) THEN Closed(Raised(b.tools)) ELSE Raised(b.tools)
               /\ a.body.system = IF b.system = String
                                  THEN IF First(b) THEN <<"1h">> ELSE String
                                  ELSE IF First(b) THEN Closed(Raised(b.system))
                                                   ELSE Raised(b.system)
               /\ a.modified = Cardinality({i \in DOMAIN b.tools : b.tools[i] = "5m"})
                      + Cardinality({i \in DOMAIN SystemMarks(b) : b.system[i] = "5m"})
                      + (IF First(b) THEN 1 ELSE 0) + (IF Second(b) THEN 1 ELSE 0)
  <1> DEFINE prompt == IF b.system = String THEN <<"no">> ELSE Raised(b.system)
             a == _apply_cache_breakpoints(b)
             first == Open(prompt) /\ Budget(b) > 0
             second == Open(Raised(b.tools)) /\ Budget(b) > (IF first THEN 1 ELSE 0)
             system == IF first THEN Closed(prompt)
                       ELSE IF b.system = String THEN String ELSE prompt
             tools == IF second THEN Closed(Raised(b.tools)) ELSE Raised(b.tools)
  <1>1. /\ DOMAIN b = {"tools", "system", "messages"}
        /\ b.tools \in Seq(Mark)
        /\ b.system # String => b.system \in Seq(Mark)
    BY BodyParts DEF IsBody
  <1>2. Open(prompt) <=> (b.system # String => OpenEnd(b.system))
    <2>1. CASE b.system = String
      <3>1. <<"no">> # <<>> /\ Last(<<"no">>) = "no"
        BY DEF Last
      <3> QED
        BY <2>1, <3>1 DEF Open
    <2>2. CASE b.system # String
      BY <1>1, <2>2, RaisedShape
    <2> QED
      BY <2>1, <2>2
  <1>3. Open(Raised(b.tools)) <=> OpenEnd(b.tools)
    BY <1>1, RaisedShape
  <1>4. (first <=> First(b)) /\ (second <=> Second(b))
    BY <1>2, <1>3 DEF First, Second
  <1>5. b.system = String => Closed(prompt) = <<"1h">>
    <2>1. [<<"no">> EXCEPT ![Len(<<"no">>)] = "1h"] = <<"1h">>
      OBVIOUS
    <2> QED
      BY <2>1 DEF Closed
  <1> HIDE DEF a
  <1>6. /\ a.body = [b EXCEPT !.system = system, !.tools = tools]
        /\ a.modified = Cardinality({i \in DOMAIN b.tools : b.tools[i] = "5m"})
                          + Cardinality({i \in DOMAIN SystemMarks(b) : b.system[i] = "5m"})
                          + (IF first THEN 1 ELSE 0) + (IF second THEN 1 ELSE 0)
    BY DEF a, _apply_cache_breakpoints, Budget
  <1> HIDE DEF prompt, first, second
  <1>7. /\ DOMAIN a.body = {"tools", "system", "messages"}
        /\ a.body.messages = b.messages
        /\ a.body.tools = tools
        /\ a.body.system = system
    <2> HIDE DEF system, tools
    <2> QED
      BY <1>1, <1>6
  <1>8. system = IF b.system = String
                 THEN IF First(b) THEN <<"1h">> ELSE String
                 ELSE IF First(b) THEN Closed(Raised(b.system)) ELSE Raised(b.system)
    BY <1>4, <1>5 DEF prompt
  <1>9. tools = IF Second(b) THEN Closed(Raised(b.tools)) ELSE Raised(b.tools)
    BY <1>4
  <1>10. a.modified = Cardinality({i \in DOMAIN b.tools : b.tools[i] = "5m"})
                      + Cardinality({i \in DOMAIN SystemMarks(b) : b.system[i] = "5m"})
                      + (IF First(b) THEN 1 ELSE 0) + (IF Second(b) THEN 1 ELSE 0)
    BY <1>4, <1>6
  <1> HIDE DEF system, tools
  <1> QED
    BY <1>7, <1>8, <1>9, <1>10 DEF a

LEMMA AppliedBody ==
    ASSUME NEW b, IsBody(b), NEW c, c = _apply_cache_breakpoints(b).body
    PROVE  /\ IsBody(c)
           /\ c.messages = b.messages
           /\ DOMAIN c.tools = DOMAIN b.tools
           /\ \A i \in DOMAIN b.tools : c.tools[i] = RaisedAt(b.tools, i, Second(b))
           /\ b.system # String =>
                /\ DOMAIN SystemMarks(c) = DOMAIN SystemMarks(b)
                /\ \A i \in DOMAIN SystemMarks(b) :
                     SystemMarks(c)[i] = RaisedAt(SystemMarks(b), i, First(b))
           /\ b.system = String => SystemMarks(c) = IF First(b) THEN <<"1h">> ELSE <<>>
  <1>1. /\ b.tools \in Seq(Mark)
        /\ b.system # String => b.system \in Seq(Mark) /\ SystemMarks(b) = b.system
        /\ b.messages \in Seq(Seq(Block))
    BY BodyParts DEF IsBody
  <1>2. /\ DOMAIN c = {"tools", "system", "messages"}
        /\ c.messages = b.messages
        /\ c.tools = IF Second(b) THEN Closed(Raised(b.tools)) ELSE Raised(b.tools)
        /\ c.system = IF b.system = String THEN IF First(b) THEN <<"1h">> ELSE String
                      ELSE IF First(b) THEN Closed(Raised(b.system)) ELSE Raised(b.system)
    BY AppliedUnfolds
  <1>3. /\ c.tools \in Seq(Mark) /\ DOMAIN c.tools = DOMAIN b.tools
        /\ \A i \in DOMAIN b.tools : c.tools[i] = RaisedAt(b.tools, i, Second(b))
    <2>1. CASE Second(b)
      <3>1. OpenEnd(b.tools) /\ c.tools = Closed(Raised(b.tools))
        BY <1>2, <2>1 DEF Second
      <3>2. \A i \in DOMAIN b.tools : RaisedAt(b.tools, i, TRUE) = RaisedAt(b.tools, i, Second(b))
        BY <2>1 DEF RaisedAt
      <3> QED
        BY <1>1, <3>1, <3>2, ClosedShape
    <2>2. CASE ~Second(b)
      <3>1. c.tools = Raised(b.tools)
        BY <1>2, <2>2
      <3>2. \A i \in DOMAIN b.tools : RaisedAt(b.tools, i, FALSE) = RaisedAt(b.tools, i, Second(b))
        BY <2>2 DEF RaisedAt
      <3> QED
        BY <1>1, <3>1, <3>2, RaisedShape
    <2> QED
      BY <2>1, <2>2
  <1>4. CASE b.system = String
    <2>1. <<"1h">> \in Seq(Mark)
      BY DEF Mark
    <2>2. c.system = IF First(b) THEN <<"1h">> ELSE String
      BY <1>2, <1>4
    <2>3. IsBody(c)
      BY <1>1, <1>2, <1>3, <2>1, <2>2 DEF IsBody
    <2>4. First(b) => c.system # String
      BY <2>1, <2>2, <2>3, BodyParts
    <2>5. SystemMarks(c) = IF First(b) THEN <<"1h">> ELSE <<>>
      BY <2>2, <2>4 DEF SystemMarks
    <2> QED
      BY <1>2, <1>3, <1>4, <2>3, <2>5
  <1>5. CASE b.system # String
    <2>1. /\ c.system \in Seq(Mark) /\ DOMAIN c.system = DOMAIN b.system
          /\ \A i \in DOMAIN b.system : c.system[i] = RaisedAt(b.system, i, First(b))
      <3>1. CASE First(b)
        <4>1. OpenEnd(b.system) /\ c.system = Closed(Raised(b.system))
          BY <1>2, <1>5, <3>1 DEF First
        <4>2. \A i \in DOMAIN b.system :
                RaisedAt(b.system, i, TRUE) = RaisedAt(b.system, i, First(b))
          BY <3>1 DEF RaisedAt
        <4> QED
          BY <1>1, <1>5, <4>1, <4>2, ClosedShape
      <3>2. CASE ~First(b)
        <4>1. c.system = Raised(b.system)
          BY <1>2, <1>5, <3>2
        <4>2. \A i \in DOMAIN b.system :
                RaisedAt(b.system, i, FALSE) = RaisedAt(b.system, i, First(b))
          BY <3>2 DEF RaisedAt
        <4> QED
          BY <1>1, <1>5, <4>1, <4>2, RaisedShape
      <3> QED
        BY <3>1, <3>2
    <2>2. IsBody(c)
      BY <1>1, <1>2, <1>3, <2>1 DEF IsBody
    <2>3. SystemMarks(c) = c.system
      BY <2>1, <2>2, BodyParts
    <2> QED
      BY <1>1, <1>2, <1>3, <1>5, <2>1, <2>2, <2>3
  <1> QED
    BY <1>4, <1>5

\* In tools and system prompt nothing is left at five minutes, and a mark that
\* was there stays; the messages are as they were.
LEMMA AppliedMarks ==
    ASSUME NEW b, IsBody(b), NEW c, c = _apply_cache_breakpoints(b).body
    PROVE  /\ \A p \in MarkPlaces(b) : p \in MarkPlaces(c)
           /\ \A p \in MarkPlaces(c) : p[1] # 3 => Marks(c)[p] # "5m"
           /\ \A p \in MarkPlaces(c) : p[1] = 3 => p \in MarkPlaces(b) /\ Marks(c)[p] = Marks(b)[p]
  <1>1. /\ c.messages = b.messages
        /\ DOMAIN c.tools = DOMAIN b.tools
        /\ \A i \in DOMAIN b.tools : c.tools[i] = RaisedAt(b.tools, i, Second(b))
        /\ b.system # String =>
             /\ DOMAIN SystemMarks(c) = DOMAIN SystemMarks(b)
             /\ \A i \in DOMAIN SystemMarks(b) :
                  SystemMarks(c)[i] = RaisedAt(SystemMarks(b), i, First(b))
        /\ b.system = String => SystemMarks(c) = IF First(b) THEN <<"1h">> ELSE <<>>
    BY AppliedBody
  <1>2. b.system = String => DOMAIN SystemMarks(b) = {}
    BY DEF SystemMarks
  <1>3. ASSUME NEW p \in MarkPlaces(b) PROVE p \in MarkPlaces(c)
    <2>1. CASE p[1] = 1
      <3>1. \E i \in DOMAIN c.tools : p = <<1, i, 0, 0>>
        BY <1>1, <2>1, PlaceIs
      <3> QED
        BY <3>1, PlaceIs
    <2>2. CASE p[1] = 2
      <3>1. PICK i \in DOMAIN SystemMarks(b) : p = <<2, i, 0, 0>>
        BY <2>2, PlaceIs
      <3>2. i \in DOMAIN SystemMarks(c)
        BY <1>1, <1>2
      <3> QED
        BY <3>1, <3>2, PlaceIs
    <2>3. CASE p[1] = 3
      BY <1>1, <2>3, PlaceIs
    <2> QED
      BY <2>1, <2>2, <2>3, PlaceIs
  <1>4. ASSUME NEW p \in MarkPlaces(c), p[1] # 3 PROVE Marks(c)[p] # "5m"
    <2>1. CASE p[1] = 1
      <3>1. PICK i \in DOMAIN c.tools : p = <<1, i, 0, 0>>
        BY <2>1, PlaceIs
      <3>2. Marks(c)[p] = c.tools[i]
        BY <3>1, PlaceIs
      <3> QED
        BY <1>1, <3>1, <3>2 DEF RaisedAt
    <2>2. CASE p[1] = 2
      <3>1. PICK i \in DOMAIN SystemMarks(c) : p = <<2, i, 0, 0>>
        BY <2>2, PlaceIs
      <3>2. Marks(c)[p] = SystemMarks(c)[i]
        BY <3>1, PlaceIs
      <3>3. CASE b.system = String
        BY <1>1, <3>2, <3>3
      <3>4. CASE b.system # String
        BY <1>1, <3>1, <3>2, <3>4 DEF RaisedAt
      <3> QED
        BY <3>3, <3>4
    <2> QED
      BY <1>4, <2>1, <2>2, PlaceIs
  <1>5. ASSUME NEW p \in MarkPlaces(c), p[1] = 3
        PROVE  p \in MarkPlaces(b) /\ Marks(c)[p] = Marks(b)[p]
    <2>1. p \in MessagePlaces(c.messages)
      BY <1>5, PlaceIs
    <2>2. p \in MessagePlaces(b.messages)
      BY <1>1, <2>1
    <2>3. /\ Marks(c)[p] = BlockMark(c.messages[p[2]][p[3]], p[4])
          /\ Marks(b)[p] = BlockMark(b.messages[p[2]][p[3]], p[4])
      BY <2>1, <2>2, PlaceIs
    <2>4. p \in MarkPlaces(b)
      BY <2>2, PlaceParts, PlaceIs
    <2> QED
      BY <1>1, <2>3, <2>4
  <1> QED
    BY <1>3, <1>4, <1>5

LEMMA AppliedOrdered ==
    ASSUME NEW b, IsBody(b), NEW c, c = _apply_cache_breakpoints(b).body, Ordered(b)
    PROVE  Ordered(c)
  <1>1. /\ \A p \in MarkPlaces(c) : p[1] # 3 => Marks(c)[p] # "5m"
        /\ \A p \in MarkPlaces(c) : p[1] = 3 => p \in MarkPlaces(b) /\ Marks(c)[p] = Marks(b)[p]
    BY AppliedMarks
  <1>2. /\ DOMAIN Marks(c) = MarkPlaces(c) /\ DOMAIN Marks(b) = MarkPlaces(b)
        /\ \A p \in MarkPlaces(c) : p[1] \in {1, 2, 3}
    BY PlaceIs
  <1>3. ASSUME NEW p \in MarkPlaces(c), NEW q \in MarkPlaces(c),
               Marks(c)[p] = "5m", Marks(c)[q] = "1h", Earlier(p, q)
        PROVE  FALSE
    <2>1. p[1] = 3
      BY <1>1, <1>3
    <2>2. q[1] = 3
      <3>1. PICK i \in 1 .. 4 : p[i] < q[i] /\ \A j \in 1 .. i - 1 : p[j] = q[j]
        BY <1>3 DEF Earlier
      <3>2. CASE i = 1
        <4>1. 3 < q[1] /\ q[1] \in {1, 2, 3}
          BY <1>2, <2>1, <3>1, <3>2
        <4> QED
          BY <4>1
      <3>3. CASE i # 1
        <4>1. 1 \in 1 .. i - 1
          BY <3>3
        <4> QED
          BY <2>1, <3>1, <4>1
      <3> QED
        BY <3>2, <3>3
    <2>3. /\ p \in MarkPlaces(b) /\ q \in MarkPlaces(b)
          /\ Marks(b)[p] = "5m" /\ Marks(b)[q] = "1h"
      BY <1>1, <1>3, <2>1, <2>2
    <2> QED
      BY <1>2, <1>3, <2>3 DEF Ordered
  <1> QED
    BY <1>2, <1>3 DEF Ordered

\* where a breakpoint may be added
Added(b) ==
    (IF First(b) THEN {<<2, IF b.system = String THEN 1 ELSE Len(b.system), 0, 0>>} ELSE {})
      \cup (IF Second(b) THEN {<<1, Len(b.tools), 0, 0>>} ELSE {})

LEMMA AppliedBreakpoints ==
    ASSUME NEW b, IsBody(b), NEW c, c = _apply_cache_breakpoints(b).body
    PROVE  Breakpoints(c) \subseteq Breakpoints(b) \cup Added(b)
  <1>1. /\ DOMAIN c.tools = DOMAIN b.tools
        /\ \A i \in DOMAIN b.tools : c.tools[i] = RaisedAt(b.tools, i, Second(b))
        /\ b.system # String =>
             /\ DOMAIN SystemMarks(c) = DOMAIN SystemMarks(b)
             /\ \A i \in DOMAIN SystemMarks(b) :
                  SystemMarks(c)[i] = RaisedAt(SystemMarks(b), i, First(b))
        /\ b.system = String => SystemMarks(c) = IF First(b) THEN <<"1h">> ELSE <<>>
    BY AppliedBody
  <1>2. DOMAIN Marks(c) = MarkPlaces(c) /\ DOMAIN Marks(b) = MarkPlaces(b)
    BY PlaceIs
  <1> SUFFICES ASSUME NEW p \in MarkPlaces(c), Marks(c)[p] # "no",
                      ~(p \in MarkPlaces(b) /\ Marks(b)[p] # "no")
               PROVE  p \in Added(b)
    BY <1>2 DEF Breakpoints
  <1>3. CASE p[1] = 1
    <2>1. PICK i \in DOMAIN b.tools : p = <<1, i, 0, 0>>
      BY SMTT(30), <1>1, <1>3, PlaceIs
    <2>2. i \in DOMAIN b.tools /\ i \in DOMAIN c.tools
      BY <1>1
    <2>3. p \in MarkPlaces(b)
      BY <2>1, PlaceIs
    <2>4. Marks(b)[p] = b.tools[i]
      BY <2>1, PlaceIs
    <2>5. Marks(c)[p] = c.tools[i]
      BY <2>1, <2>2, PlaceIs
    <2>6. Second(b) /\ i = Len(b.tools)
      BY <1>1, <2>3, <2>4, <2>5 DEF RaisedAt
    <2> QED
      BY <2>1, <2>6 DEF Added
  <1>4. CASE p[1] = 2
    <2>1. PICK i \in DOMAIN SystemMarks(c) : p = <<2, i, 0, 0>>
      BY <1>4, PlaceIs
    <2>2. Marks(c)[p] = SystemMarks(c)[i]
      BY <2>1, PlaceIs
    <2>3. CASE b.system = String
      <3>1. First(b) /\ i = 1
        BY <1>1, <2>1, <2>3
      <3> QED
        BY <2>1, <2>3, <3>1 DEF Added
    <2>4. CASE b.system # String
      <3>1. i \in DOMAIN SystemMarks(b) /\ SystemMarks(b) = b.system
        BY <1>1, <2>1, <2>4 DEF SystemMarks
      <3>2. p \in MarkPlaces(b) /\ Marks(b)[p] = SystemMarks(b)[i]
        BY <2>1, <3>1, PlaceIs
      <3>3. First(b) /\ i = Len(b.system)
        BY <1>1, <2>2, <2>4, <3>1, <3>2 DEF RaisedAt
      <3> QED
        BY <2>1, <2>4, <3>3 DEF Added
    <2> QED
      BY <2>3, <2>4
  <1>5. CASE p[1] = 3
    BY <1>5, AppliedMarks
  <1> QED
    BY <1>3, <1>4, <1>5, PlaceIs

LEMMA MaxOfTwo ==
    ASSUME NEW x \in Int, NEW y \in Int
    PROVE  Max({x, y}) \in Int /\ Max({x, y}) >= x /\ Max({x, y}) >= y
  <1>1. \E z \in {x, y} : \A w \in {x, y} : z >= w
    OBVIOUS
  <1>2. Max({x, y}) \in {x, y} /\ \A w \in {x, y} : Max({x, y}) >= w
    BY <1>1 DEF Max
  <1> QED
    BY <1>2

LEMMA BreakpointsAreFinite ==
    ASSUME NEW b, IsBody(b)
    PROVE  IsFiniteSet(Breakpoints(b)) /\ _count_cache_breakpoints(b) \in Nat
  <1>1. Breakpoints(b) \subseteq MarkPlaces(b)
    BY PlaceIs DEF Breakpoints
  <1> QED
    BY <1>1, PlacesAreFinite, FS_Subset, FS_CardinalityType DEF _count_cache_breakpoints

\* What is added fits in what is left of the budget.
LEMMA AddedFits ==
    ASSUME NEW b, IsBody(b)
    PROVE  /\ IsFiniteSet(Added(b))
           /\ Added(b) = {} \/ Cardinality(Added(b)) <= Budget(b)
  <1> DEFINE F == {<<2, IF b.system = String THEN 1 ELSE Len(b.system), 0, 0>>}
             S == {<<1, Len(b.tools), 0, 0>>}
  <1>1. IsFiniteSet(F) /\ Cardinality(F) = 1 /\ IsFiniteSet(S) /\ Cardinality(S) = 1
    BY FS_Singleton
  <1>2. Added(b) = (IF First(b) THEN F ELSE {}) \cup (IF Second(b) THEN S ELSE {})
    BY DEF Added
  <1>3. Budget(b) \in Int
    BY BreakpointsAreFinite, SaverAssumption DEF Budget
  <1>4. (First(b) => Budget(b) > 0) /\ (Second(b) => Budget(b) > IF First(b) THEN 1 ELSE 0)
    BY DEF First, Second
  <1> HIDE DEF F, S
  <1>5. CASE First(b) /\ Second(b)
    <2>1. Added(b) = F \cup S /\ Budget(b) > 1
      BY <1>2, <1>4, <1>5
    <2>2. /\ IsFiniteSet(F \cup S) /\ Cardinality(F \cap S) \in Nat
          /\ Cardinality(F \cup S) = Cardinality(F) + Cardinality(S) - Cardinality(F \cap S)
      BY <1>1, FS_Union, FS_Intersection, FS_CardinalityType
    <2> QED
      BY <1>1, <1>3, <2>1, <2>2
  <1>6. CASE First(b) /\ ~Second(b)
    <2>1. Added(b) = F /\ Budget(b) > 0
      BY <1>2, <1>4, <1>6
    <2> QED
      BY <1>1, <1>3, <2>1
  <1>7. CASE ~First(b) /\ Second(b)
    <2>1. Added(b) = S /\ Budget(b) > 0
      BY <1>2, <1>4, <1>7
    <2> QED
      BY <1>1, <1>3, <2>1
  <1>8. CASE ~First(b) /\ ~Second(b)
    BY <1>2, <1>8, FS_EmptySet
  <1> QED
    BY <1>5, <1>6, <1>7, <1>8

LEMMA AppliedCount ==
    ASSUME NEW b, IsBody(b), NEW c, c = _apply_cache_breakpoints(b).body
    PROVE  _count_cache_breakpoints(c)
             <= Max({MAX_CACHE_BREAKPOINTS, _count_cache_breakpoints(b)})
  <1> DEFINE n == Cardinality(Breakpoints(b))
             m == Cardinality(Breakpoints(c))
             most == Max({MAX_CACHE_BREAKPOINTS, n})
  <1>1. IsFiniteSet(Breakpoints(b)) /\ n \in Nat /\ m \in Nat
    BY BreakpointsAreFinite, AppliedBody DEF _count_cache_breakpoints
  <1>2. most \in Int /\ most >= MAX_CACHE_BREAKPOINTS /\ most >= n
    <2> HIDE DEF n
    <2>1. n \in Int /\ MAX_CACHE_BREAKPOINTS \in Int
      BY <1>1, SaverAssumption
    <2> QED
      BY <2>1, MaxOfTwo
  <1>3. Breakpoints(c) \subseteq Breakpoints(b) \cup Added(b)
    BY AppliedBreakpoints
  <1>4. /\ IsFiniteSet(Added(b))
        /\ Added(b) = {} \/ Cardinality(Added(b)) <= MAX_CACHE_BREAKPOINTS - n
    BY AddedFits DEF Budget, _count_cache_breakpoints
  <1>5. Cardinality(Added(b)) \in Nat
    BY <1>4, FS_CardinalityType
  <1>6. m <= n + Cardinality(Added(b))
    <2> DEFINE U == Breakpoints(b) \cup Added(b)
               I == Breakpoints(b) \cap Added(b)
    <2>1. IsFiniteSet(U) /\ Cardinality(U) = n + Cardinality(Added(b)) - Cardinality(I)
      BY <1>1, <1>4, FS_Union
    <2>2. Cardinality(I) \in Nat
      BY <1>1, FS_Intersection, FS_CardinalityType
    <2>3. m <= Cardinality(U)
      BY <1>3, <2>1, FS_Subset
    <2>4. Cardinality(U) \in Nat
      BY <2>1, FS_CardinalityType
    <2> HIDE DEF n, m, U, I
    <2> QED
      BY <1>1, <1>5, <2>1, <2>2, <2>3, <2>4
  <1>7. Added(b) = {} => m <= n
    <2>1. Added(b) = {} => Cardinality(Added(b)) = 0
      BY FS_EmptySet
    <2> HIDE DEF n, m
    <2> QED
      BY <1>1, <1>6, <2>1
  <1>8. m <= most
    <2> HIDE DEF n, m, most
    <2> QED
      BY <1>1, <1>2, <1>4, <1>5, <1>6, <1>7, SaverAssumption
  <1> QED
    BY <1>8 DEF _count_cache_breakpoints

\* The mark of tools or system prompt that is raised or added differs.
LEMMA FivesCounted ==
    ASSUME NEW s \in Seq(Mark)
    PROVE  /\ Cardinality({i \in DOMAIN s : s[i] = "5m"}) \in Nat
           /\ Cardinality({i \in DOMAIN s : s[i] = "5m"}) = 0 <=> \A i \in DOMAIN s : s[i] # "5m"
  <1> DEFINE S == {i \in DOMAIN s : s[i] = "5m"}
  <1>1. IsFiniteSet(S)
    BY SequenceDomain, FS_Subset
  <1>2. S = {} <=> \A i \in DOMAIN s : s[i] # "5m"
    OBVIOUS
  <1> HIDE DEF S
  <1>3. Cardinality(S) \in Nat /\ (Cardinality(S) = 0 <=> S = {})
    BY <1>1, FS_CardinalityType, FS_EmptySet
  <1> QED
    BY <1>2, <1>3 DEF S

LEMMA EndIsPlace ==
    ASSUME NEW s \in Seq(Mark), OpenEnd(s)
    PROVE  Len(s) \in DOMAIN s /\ s[Len(s)] = "no"
  <1>1. Len(s) # 0
    BY EmptySeq DEF OpenEnd
  <1> QED
    BY <1>1, SequenceDomain DEF OpenEnd

LEMMA AppliedChanges ==
    ASSUME NEW b, IsBody(b), NEW c, c = _apply_cache_breakpoints(b).body,
           NEW n, n = _apply_cache_breakpoints(b).modified
    PROVE  n \in Nat /\ (n > 0 <=> Marks(c) # Marks(b))
  <1> DEFINE fives(s) == \E i \in DOMAIN s : s[i] = "5m"
             N(s) == Cardinality({i \in DOMAIN s : s[i] = "5m"})
  <1>1. /\ DOMAIN c.tools = DOMAIN b.tools
        /\ \A i \in DOMAIN b.tools : c.tools[i] = RaisedAt(b.tools, i, Second(b))
        /\ b.system # String =>
             /\ DOMAIN SystemMarks(c) = DOMAIN SystemMarks(b)
             /\ \A i \in DOMAIN SystemMarks(b) :
                  SystemMarks(c)[i] = RaisedAt(SystemMarks(b), i, First(b))
        /\ b.system = String => SystemMarks(c) = IF First(b) THEN <<"1h">> ELSE <<>>
    BY AppliedBody
  <1>2. /\ b.tools \in Seq(Mark) /\ SystemMarks(b) \in Seq(Mark)
        /\ b.system # String => b.system = SystemMarks(b)
        /\ b.system = String => SystemMarks(b) = <<>>
    BY BodyParts DEF SystemMarks
  <1>3. n = N(b.tools) + N(SystemMarks(b)) + (IF First(b) THEN 1 ELSE 0)
              + (IF Second(b) THEN 1 ELSE 0)
    <2>1. n = N(b.tools) + Cardinality({i \in DOMAIN SystemMarks(b) : b.system[i] = "5m"})
                + (IF First(b) THEN 1 ELSE 0) + (IF Second(b) THEN 1 ELSE 0)
      BY AppliedUnfolds
    <2>2. {i \in DOMAIN SystemMarks(b) : b.system[i] = "5m"}
            = {i \in DOMAIN SystemMarks(b) : SystemMarks(b)[i] = "5m"}
      BY <1>2
    <2> QED
      BY <2>1, <2>2
  <1>4. /\ N(b.tools) \in Nat /\ N(SystemMarks(b)) \in Nat
        /\ N(b.tools) = 0 <=> ~fives(b.tools)
        /\ N(SystemMarks(b)) = 0 <=> ~fives(SystemMarks(b))
    BY <1>2, FivesCounted
  <1>5. /\ n \in Nat
        /\ n > 0 <=> fives(b.tools) \/ fives(SystemMarks(b)) \/ First(b) \/ Second(b)
    <2> HIDE DEF N, fives
    <2> QED
      BY <1>3, <1>4
  <1>6. /\ DOMAIN Marks(b) = MarkPlaces(b) /\ DOMAIN Marks(c) = MarkPlaces(c)
        /\ \A i \in DOMAIN b.tools : Marks(b)[<<1, i, 0, 0>>] = b.tools[i]
        /\ \A i \in DOMAIN c.tools : Marks(c)[<<1, i, 0, 0>>] = c.tools[i]
        /\ \A i \in DOMAIN SystemMarks(b) : Marks(b)[<<2, i, 0, 0>>] = SystemMarks(b)[i]
        /\ \A i \in DOMAIN SystemMarks(c) : Marks(c)[<<2, i, 0, 0>>] = SystemMarks(c)[i]
    BY PlaceIs
  <1>7. ASSUME fives(b.tools) PROVE Marks(c) # Marks(b)
    <2>1. PICK i \in DOMAIN b.tools : b.tools[i] = "5m"
      BY <1>7
    <2>2. c.tools[i] = "1h"
      BY <1>1, <2>1 DEF RaisedAt
    <2>3. i \in DOMAIN c.tools
      BY <1>1
    <2>4. PICK p : p = <<1, i, 0, 0>>
      OBVIOUS
    <2>5. Marks(b)[p] = "5m"
      BY <1>6, <2>1, <2>4
    <2>6. Marks(c)[p] = "1h"
      BY <1>6, <2>2, <2>3, <2>4
    <2> QED
      BY <2>5, <2>6
  <1>8. ASSUME fives(SystemMarks(b)) PROVE Marks(c) # Marks(b)
    <2>1. PICK i \in DOMAIN SystemMarks(b) : SystemMarks(b)[i] = "5m"
      BY <1>8
    <2>2. b.system # String
      BY <1>2
    <2>3. SystemMarks(c)[i] = "1h" /\ i \in DOMAIN SystemMarks(c)
      BY <1>1, <2>1, <2>2 DEF RaisedAt
    <2>4. PICK p : p = <<2, i, 0, 0>>
      OBVIOUS
    <2>5. Marks(b)[p] = "5m"
      BY <1>6, <2>1, <2>4
    <2>6. Marks(c)[p] = "1h"
      BY <1>6, <2>3, <2>4
    <2> QED
      BY <2>5, <2>6
  <1>9. ASSUME Second(b) PROVE Marks(c) # Marks(b)
    <2>1. PICK i \in DOMAIN b.tools : i = Len(b.tools) /\ b.tools[i] = "no"
      BY <1>2, <1>9, EndIsPlace DEF Second
    <2>2. c.tools[i] = "1h"
      BY <1>1, <1>9, <2>1 DEF RaisedAt
    <2>3. i \in DOMAIN c.tools
      BY <1>1
    <2>4. PICK p : p = <<1, i, 0, 0>>
      OBVIOUS
    <2>5. Marks(b)[p] = "no"
      BY <1>6, <2>1, <2>4
    <2>6. Marks(c)[p] = "1h"
      BY <1>6, <2>2, <2>3, <2>4
    <2> QED
      BY <2>5, <2>6
  <1>10. ASSUME First(b) PROVE Marks(c) # Marks(b)
    <2>1. CASE b.system = String
      <3>1. SystemMarks(c) = <<"1h">> /\ DOMAIN SystemMarks(b) = {}
        BY <1>1, <1>2, <1>10, <2>1
      <3>2. 1 \in DOMAIN SystemMarks(c)
        BY <3>1
      <3>3. PICK p : p = <<2, 1, 0, 0>>
        OBVIOUS
      <3>4. p[1] = 2 /\ p \in MarkPlaces(c)
        BY <3>2, <3>3, PlaceIs
      <3>5. p \notin MarkPlaces(b)
        BY <3>1, <3>4, PlaceIs
      <3> QED
        BY <1>6, <3>4, <3>5
    <2>2. CASE b.system # String
      <3>1. PICK i \in DOMAIN SystemMarks(b) :
                   i = Len(SystemMarks(b)) /\ SystemMarks(b)[i] = "no"
        BY <1>2, <1>10, <2>2, EndIsPlace DEF First
      <3>2. SystemMarks(c)[i] = "1h" /\ i \in DOMAIN SystemMarks(c)
        BY <1>1, <1>10, <2>2, <3>1 DEF RaisedAt
      <3>3. PICK p : p = <<2, i, 0, 0>>
        OBVIOUS
      <3>4. Marks(b)[p] = "no"
        BY <1>6, <3>1, <3>3
      <3>5. Marks(c)[p] = "1h"
        BY <1>6, <3>2, <3>3
      <3> QED
        BY <3>4, <3>5
    <2> QED
      BY <2>1, <2>2
  <1>11. ASSUME ~fives(b.tools), ~fives(SystemMarks(b)), ~First(b), ~Second(b)
         PROVE  Marks(c) = Marks(b)
    <2>1. \A i \in DOMAIN b.tools : c.tools[i] = b.tools[i]
      BY <1>1, <1>11 DEF RaisedAt
    <2>2. /\ DOMAIN SystemMarks(c) = DOMAIN SystemMarks(b)
          /\ \A i \in DOMAIN SystemMarks(b) : SystemMarks(c)[i] = SystemMarks(b)[i]
      <3>1. CASE b.system = String
        BY <1>1, <1>2, <1>11, <3>1
      <3>2. CASE b.system # String
        BY <1>1, <1>11, <3>2 DEF RaisedAt
      <3> QED
        BY <3>1, <3>2
    <2>3. \A p \in MarkPlaces(b) : p \in MarkPlaces(c)
      BY AppliedMarks
    <2>4. ASSUME NEW p \in MarkPlaces(c) PROVE p \in MarkPlaces(b) /\ Marks(c)[p] = Marks(b)[p]
      <3>1. CASE p[1] = 1
        <4>1. PICK i \in DOMAIN c.tools : p = <<1, i, 0, 0>>
          BY <3>1, PlaceIs
        <4>2. i \in DOMAIN b.tools
          BY <1>1
        <4>3. p \in MarkPlaces(b)
          BY <4>1, <4>2, PlaceIs
        <4> QED
          BY <1>6, <2>1, <4>1, <4>2, <4>3
      <3>2. CASE p[1] = 2
        <4>1. PICK i \in DOMAIN SystemMarks(c) : p = <<2, i, 0, 0>>
          BY <3>2, PlaceIs
        <4>2. i \in DOMAIN SystemMarks(b)
          BY <2>2
        <4>3. p \in MarkPlaces(b)
          BY <4>1, <4>2, PlaceIs
        <4> QED
          BY <1>6, <2>2, <4>1, <4>2, <4>3
      <3>3. CASE p[1] = 3
        BY <3>3, AppliedMarks
      <3> QED
        BY <3>1, <3>2, <3>3, PlaceIs
    <2> QED
      BY <1>6, <2>3, <2>4 DEF Marks
  <1> QED
    BY <1>5, <1>7, <1>8, <1>9, <1>10, <1>11

-----------------------------------------------------------------------------
(* What is cut and lowered.                                                *)

Text == [mark : Mark, length : Nat]

LEMMA MessageParts ==
    ASSUME NEW body, IsBody(body), NEW m, NEW j, m \in DOMAIN body.messages,
           j \in DOMAIN body.messages[m]
    PROVE  /\ body.messages[m] \in Seq(Block)
           /\ body.messages[m][j] \in Block
           /\ body.messages[m][j].mark \in Mark
           /\ body.messages[m][j].texts \in Seq(Text)
           /\ \A k \in DOMAIN body.messages[m][j].texts : body.messages[m][j].texts[k] \in Text
  <1>1. body.messages[m] \in Seq(Block)
    BY BodyParts, SequenceDomain
  <1>2. body.messages[m][j] \in Block
    BY <1>1, SequenceDomain
  <1>3. body.messages[m][j].mark \in Mark /\ body.messages[m][j].texts \in Seq(Text)
    BY <1>2 DEF Block, Text
  <1>4. \A k \in DOMAIN body.messages[m][j].texts : body.messages[m][j].texts[k] \in Text
    BY <1>3, SequenceDomain
  <1> QED
    BY <1>1, <1>2, <1>3, <1>4

\* Two bodies with the same places and marks there.
LEMMA SameMarks ==
    ASSUME NEW f, NEW g, f.tools = g.tools, SystemMarks(f) = SystemMarks(g),
           DOMAIN f.messages = DOMAIN g.messages,
           \A m \in DOMAIN f.messages : DOMAIN f.messages[m] = DOMAIN g.messages[m],
           \A m \in DOMAIN f.messages : \A j \in DOMAIN f.messages[m] :
             /\ DOMAIN f.messages[m][j].texts = DOMAIN g.messages[m][j].texts
             /\ f.messages[m][j].mark = g.messages[m][j].mark
             /\ \A k \in DOMAIN f.messages[m][j].texts :
                  f.messages[m][j].texts[k].mark = g.messages[m][j].texts[k].mark
    PROVE  /\ MarkPlaces(f) = MarkPlaces(g) /\ Marks(f) = Marks(g)
           /\ TextPlaces(f) = TextPlaces(g)
  <1>1. MessagePlaces(f.messages) = MessagePlaces(g.messages)
    BY SamePlaces
  <1>2. MarkPlaces(f) = MarkPlaces(g)
    BY <1>1 DEF MarkPlaces
  <1>3. ASSUME NEW p \in MarkPlaces(f) PROVE Marks(f)[p] = Marks(g)[p]
    <2>1. CASE p[1] = 1
      <3>1. PICK i \in DOMAIN f.tools : p = <<1, i, 0, 0>>
        BY <2>1, PlaceIs
      <3>2. i \in DOMAIN g.tools
        OBVIOUS
      <3>3. Marks(f)[p] = f.tools[i]
        BY <3>1, PlaceIs
      <3>4. Marks(g)[p] = g.tools[i]
        BY <3>1, <3>2, PlaceIs
      <3> QED
        BY <3>3, <3>4
    <2>2. CASE p[1] = 2
      <3>1. PICK i \in DOMAIN SystemMarks(f) : p = <<2, i, 0, 0>>
        BY <2>2, PlaceIs
      <3>2. i \in DOMAIN SystemMarks(g)
        OBVIOUS
      <3>3. Marks(f)[p] = SystemMarks(f)[i]
        BY <3>1, PlaceIs
      <3>4. Marks(g)[p] = SystemMarks(g)[i]
        BY <3>1, <3>2, PlaceIs
      <3> QED
        BY <3>3, <3>4
    <2>3. CASE p[1] = 3
      <3>1. p \in MessagePlaces(f.messages) /\ p \in MessagePlaces(g.messages)
        BY <1>1, <2>3, PlaceIs
      <3>2. Marks(f)[p] = BlockMark(f.messages[p[2]][p[3]], p[4])
        BY <3>1, PlaceIs
      <3>3. Marks(g)[p] = BlockMark(g.messages[p[2]][p[3]], p[4])
        BY <3>1, PlaceIs
      <3>4. /\ p[2] \in DOMAIN f.messages /\ p[3] \in DOMAIN f.messages[p[2]]
            /\ p[4] \in {0} \cup DOMAIN f.messages[p[2]][p[3]].texts
        BY <3>1, PlaceParts
      <3>5. BlockMark(f.messages[p[2]][p[3]], p[4]) = BlockMark(g.messages[p[2]][p[3]], p[4])
        BY <3>4 DEF BlockMark
      <3> QED
        BY <3>2, <3>3, <3>5
    <2> QED
      BY <2>1, <2>2, <2>3, PlaceIs
  <1>4. Marks(f) = Marks(g)
    BY <1>2, <1>3 DEF Marks
  <1> QED
    BY <1>1, <1>2, <1>4 DEF TextPlaces

LEMMA TextPlaceParts ==
    ASSUME NEW body, IsBody(body), NEW p \in TextPlaces(body)
    PROVE  /\ p[2] \in DOMAIN body.messages
           /\ p[3] \in DOMAIN body.messages[p[2]]
           /\ p[4] \in DOMAIN body.messages[p[2]][p[3]].texts
           /\ DOMAIN TextLengths(body) = TextPlaces(body)
           /\ TextLengths(body)[p] = body.messages[p[2]][p[3]].texts[p[4]].length
           /\ TextLengths(body)[p] \in Nat
  <1>1. p \in MessagePlaces(body.messages) /\ p[4] # 0
    BY DEF TextPlaces
  <1>2. /\ p[2] \in DOMAIN body.messages
        /\ p[3] \in DOMAIN body.messages[p[2]]
        /\ p[4] \in DOMAIN body.messages[p[2]][p[3]].texts
    BY <1>1, PlaceParts
  <1>3. body.messages[p[2]][p[3]].texts[p[4]] \in Text
    BY <1>2, MessageParts
  <1>4. /\ DOMAIN TextLengths(body) = TextPlaces(body)
        /\ TextLengths(body)[p] = body.messages[p[2]][p[3]].texts[p[4]].length
    BY DEF TextLengths
  <1> QED
    BY <1>2, <1>3, <1>4 DEF Text

LEMMA TextPlace ==
    ASSUME NEW body, IsBody(body), NEW m, NEW j, NEW k, m \in DOMAIN body.messages,
           j \in DOMAIN body.messages[m], k \in DOMAIN body.messages[m][j].texts
    PROVE  /\ <<3, m, j, k>> \in TextPlaces(body)
           /\ TextLengths(body)[<<3, m, j, k>>] = body.messages[m][j].texts[k].length
  <1>1. <<3, m, j, k>> \in MessagePlaces(body.messages)
    BY MessagePlace
  <1>2. k # 0
    BY MessageParts, SequenceDomain
  <1>3. PICK p : p = <<3, m, j, k>>
    OBVIOUS
  <1>4. p[2] = m /\ p[3] = j /\ p[4] = k
    BY <1>3
  <1>5. p \in TextPlaces(body)
    BY <1>1, <1>2, <1>3, <1>4 DEF TextPlaces
  <1> QED
    BY <1>3, <1>4, <1>5, TextPlaceParts

LEMMA CutUnfolds ==
    ASSUME NEW b, IsBody(b), NEW t, t = _truncate_tool_results(b)
    PROVE  /\ DOMAIN t = {"tools", "system", "messages"}
           /\ t.tools = b.tools /\ t.system = b.system
           /\ DOMAIN t.messages = DOMAIN b.messages
           /\ \A m \in DOMAIN b.messages : m \notin OldMessages(b) => t.messages[m] = b.messages[m]
           /\ \A m \in DOMAIN b.messages : m \in OldMessages(b) =>
                t.messages[m] = [j \in DOMAIN b.messages[m] |->
                    [b.messages[m][j] EXCEPT !.texts = [k \in DOMAIN b.messages[m][j].texts |->
                        Shortened(b.messages[m][j].texts[k])]]]
  <1> DEFINE old == OldMessages(b)
             cut(m) == [j \in DOMAIN b.messages[m] |->
                    [b.messages[m][j] EXCEPT !.texts = [k \in DOMAIN b.messages[m][j].texts |->
                        Shortened(b.messages[m][j].texts[k])]]]
             ts == [m \in DOMAIN b.messages |-> IF m \notin old THEN b.messages[m] ELSE cut(m)]
  <1>1. t = [b EXCEPT !.messages = ts]
    BY DEF _truncate_tool_results
  <1>2. DOMAIN b = {"tools", "system", "messages"}
    BY BodyParts
  <1>3. /\ DOMAIN t = {"tools", "system", "messages"}
        /\ t.tools = b.tools /\ t.system = b.system /\ t.messages = ts
    <2> HIDE DEF ts
    <2> QED
      BY <1>1, <1>2
  <1>4. /\ DOMAIN ts = DOMAIN b.messages
        /\ \A m \in DOMAIN b.messages : m \notin old => ts[m] = b.messages[m]
        /\ \A m \in DOMAIN b.messages : m \in old => ts[m] = cut(m)
    <2> HIDE DEF old, cut
    <2> QED
      OBVIOUS
  <1> HIDE DEF ts
  <1> QED
    BY <1>3, <1>4

\* In each block the texts of an older message are shortened.
LEMMA CutParts ==
    ASSUME NEW b, IsBody(b), NEW t, t = _truncate_tool_results(b),
           NEW m, NEW j, m \in DOMAIN b.messages, j \in DOMAIN b.messages[m]
    PROVE  /\ DOMAIN t.messages[m] = DOMAIN b.messages[m]
           /\ t.messages[m][j].mark = b.messages[m][j].mark
           /\ DOMAIN t.messages[m][j].texts = DOMAIN b.messages[m][j].texts
           /\ \A k \in DOMAIN b.messages[m][j].texts :
                m \in OldMessages(b) =>
                  t.messages[m][j].texts[k] = Shortened(b.messages[m][j].texts[k])
           /\ \A k \in DOMAIN b.messages[m][j].texts :
                m \notin OldMessages(b) =>
                  t.messages[m][j].texts[k] = b.messages[m][j].texts[k]
  <1> DEFINE old == b.messages[m][j]
             short == [k \in DOMAIN old.texts |-> Shortened(old.texts[k])]
  <1>1. old \in Block /\ old.texts \in Seq(Text)
    BY MessageParts
  <1>2. DOMAIN old = {"mark", "texts"} /\ old = [mark |-> old.mark, texts |-> old.texts]
    BY <1>1 DEF Block
  <1>3. CASE m \notin OldMessages(b)
    <2>1. t.messages[m] = b.messages[m]
      BY <1>3, CutUnfolds
    <2>2. /\ old.texts = [k \in DOMAIN old.texts |-> old.texts[k]]
          /\ b.messages[m] = [i \in DOMAIN b.messages[m] |-> b.messages[m][i]]
      BY <1>1, MessageParts
    <2> HIDE DEF short
    <2> QED
      BY <1>2, <1>3, <2>1, <2>2
  <1>4. CASE m \in OldMessages(b)
    <2>1. t.messages[m] = [i \in DOMAIN b.messages[m] |->
                    [b.messages[m][i] EXCEPT !.texts = [k \in DOMAIN b.messages[m][i].texts |->
                        Shortened(b.messages[m][i].texts[k])]]]
      BY <1>4, CutUnfolds
    <2>2. /\ DOMAIN t.messages[m] = DOMAIN b.messages[m]
          /\ t.messages[m] = [i \in DOMAIN t.messages[m] |-> t.messages[m][i]]
          /\ t.messages[m][j] = [old EXCEPT !.texts = short]
      BY <2>1
    <2> HIDE DEF old, short
    <2>3. t.messages[m][j] = [mark |-> old.mark, texts |-> short]
      BY <1>2, <2>2
    <2>4. /\ DOMAIN t.messages[m][j] = {"mark", "texts"}
          /\ t.messages[m][j].mark = old.mark
          /\ t.messages[m][j].texts = short
      BY <2>3
    <2>5. /\ DOMAIN short = DOMAIN old.texts
          /\ \A k \in DOMAIN old.texts : short[k] = Shortened(old.texts[k])
          /\ short = [k \in DOMAIN short |-> short[k]]
      BY DEF short
    <2>6. DOMAIN t.messages[m][j].texts = DOMAIN old.texts
      BY <2>4, <2>5
    <2>7. t.messages[m][j].texts = [k \in DOMAIN t.messages[m][j].texts |->
                                      t.messages[m][j].texts[k]]
      BY <2>4, <2>5
    <2>8. t.messages[m][j] = [mark |-> t.messages[m][j].mark, texts |-> t.messages[m][j].texts]
      BY <2>3, <2>4
    <2> HIDE DEF short
    <2> QED
      BY <1>4, <2>2, <2>4, <2>5, <2>6, <2>7, <2>8 DEF old
  <1> QED
    BY <1>3, <1>4

LEMMA CutBlock ==
    ASSUME NEW b, IsBody(b), NEW t, t = _truncate_tool_results(b),
           NEW m, NEW j, m \in DOMAIN b.messages, j \in DOMAIN b.messages[m]
    PROVE  /\ DOMAIN t.messages[m] = DOMAIN b.messages[m]
           /\ t.messages[m][j].mark = b.messages[m][j].mark
           /\ DOMAIN t.messages[m][j].texts = DOMAIN b.messages[m][j].texts
  BY CutParts

LEMMA CutText ==
    ASSUME NEW b, IsBody(b), NEW t, t = _truncate_tool_results(b),
           NEW m, NEW j, NEW k, m \in DOMAIN b.messages, j \in DOMAIN b.messages[m],
           k \in DOMAIN b.messages[m][j].texts
    PROVE  /\ m \in OldMessages(b) =>
                t.messages[m][j].texts[k] = Shortened(b.messages[m][j].texts[k])
           /\ m \notin OldMessages(b) =>
                t.messages[m][j].texts[k] = b.messages[m][j].texts[k]
  BY CutParts

LEMMA ShortenedText ==
    ASSUME NEW text \in Text
    PROVE  /\ Shortened(text).mark = text.mark
           /\ Shortened(text) = [mark |-> Shortened(text).mark, length |-> Shortened(text).length]
           /\ text.length > saver.max =>
                Shortened(text).length = _head_tail_truncate(text.length).length
           /\ ~(text.length > saver.max) => Shortened(text).length = text.length
  <1>1. text = [mark |-> text.mark, length |-> text.length]
    BY DEF Text
  <1>2. CASE text.length > saver.max
    <2>1. PICK n : n = _head_tail_truncate(text.length).length
      OBVIOUS
    <2>2. Shortened(text) = [text EXCEPT !.length = n]
      BY <1>2, <2>1 DEF Shortened, Long
    <2>3. Shortened(text) = [mark |-> text.mark, length |-> n]
      BY <1>1, <2>2
    <2> QED
      BY <1>2, <2>1, <2>3
  <1>3. CASE ~(text.length > saver.max)
    <2>1. Shortened(text) = text
      BY <1>3 DEF Shortened, Long
    <2> QED
      BY <1>1, <1>3, <2>1
  <1> QED
    BY <1>2, <1>3

\* The cut moves no mark, and changes the lengths of the texts that are cut.
LEMMA CutShape ==
    ASSUME NEW b, IsBody(b), NEW t, t = _truncate_tool_results(b)
    PROVE  /\ MarkPlaces(t) = MarkPlaces(b) /\ Marks(t) = Marks(b)
           /\ TextPlaces(t) = TextPlaces(b)
           /\ \A p \in TextPlaces(b) : p \in Cut(b) =>
                TextLengths(t)[p] = _head_tail_truncate(TextLengths(b)[p]).length
           /\ \A p \in TextPlaces(b) : p \notin Cut(b) => TextLengths(t)[p] = TextLengths(b)[p]
  <1>1. t.tools = b.tools /\ t.system = b.system /\ DOMAIN t.messages = DOMAIN b.messages
    BY CutUnfolds
  <1>2. ASSUME NEW m, NEW j, m \in DOMAIN b.messages, j \in DOMAIN b.messages[m]
        PROVE  /\ DOMAIN t.messages[m][j].texts = DOMAIN b.messages[m][j].texts
               /\ t.messages[m][j].mark = b.messages[m][j].mark
               /\ \A k \in DOMAIN b.messages[m][j].texts :
                    t.messages[m][j].texts[k].mark = b.messages[m][j].texts[k].mark
    <2>1. /\ DOMAIN t.messages[m][j].texts = DOMAIN b.messages[m][j].texts
          /\ t.messages[m][j].mark = b.messages[m][j].mark
      BY <1>2, CutBlock
    <2>2. ASSUME NEW k \in DOMAIN b.messages[m][j].texts
          PROVE  t.messages[m][j].texts[k].mark = b.messages[m][j].texts[k].mark
      <3>1. PICK x : x = b.messages[m][j].texts[k]
        OBVIOUS
      <3>2. x \in Text
        BY <1>2, <3>1, MessageParts
      <3>3. Shortened(x).mark = x.mark
        BY <3>2, ShortenedText
      <3>4. t.messages[m][j].texts[k] = IF m \in OldMessages(b) THEN Shortened(x) ELSE x
        BY <1>2, <3>1, CutText
      <3> QED
        BY <3>1, <3>3, <3>4
    <2> QED
      BY <2>1, <2>2
  <1>3. \A m \in DOMAIN b.messages : DOMAIN t.messages[m] = DOMAIN b.messages[m]
    <2> SUFFICES ASSUME NEW m \in DOMAIN b.messages
                 PROVE  DOMAIN t.messages[m] = DOMAIN b.messages[m]
      OBVIOUS
    <2>1. m \notin OldMessages(b) => t.messages[m] = b.messages[m]
      BY CutUnfolds
    <2>2. m \in OldMessages(b) => DOMAIN t.messages[m] = DOMAIN b.messages[m]
      <3> SUFFICES ASSUME m \in OldMessages(b) PROVE DOMAIN t.messages[m] = DOMAIN b.messages[m]
        OBVIOUS
      <3>1. t.messages[m] = [j \in DOMAIN b.messages[m] |->
                    [b.messages[m][j] EXCEPT !.texts = [k \in DOMAIN b.messages[m][j].texts |->
                        Shortened(b.messages[m][j].texts[k])]]]
        BY CutUnfolds
      <3> QED
        BY <3>1
    <2> QED
      BY <2>1, <2>2
  <1>4. SystemMarks(t) = SystemMarks(b)
    BY <1>1 DEF SystemMarks
  <1>5. MarkPlaces(t) = MarkPlaces(b) /\ Marks(t) = Marks(b) /\ TextPlaces(t) = TextPlaces(b)
    BY <1>1, <1>2, <1>3, <1>4, SameMarks
  <1>6. ASSUME NEW p \in TextPlaces(b)
        PROVE  /\ p \in Cut(b) => TextLengths(t)[p] = _head_tail_truncate(TextLengths(b)[p]).length
               /\ p \notin Cut(b) => TextLengths(t)[p] = TextLengths(b)[p]
    <2>1. /\ p[2] \in DOMAIN b.messages /\ p[3] \in DOMAIN b.messages[p[2]]
          /\ p[4] \in DOMAIN b.messages[p[2]][p[3]].texts
          /\ TextLengths(b)[p] = b.messages[p[2]][p[3]].texts[p[4]].length
      BY TextPlaceParts
    <2>2. PICK x : x = b.messages[p[2]][p[3]].texts[p[4]]
      OBVIOUS
    <2>3. x \in Text /\ TextLengths(b)[p] = x.length
      BY <2>1, <2>2, MessageParts
    <2>4. TextLengths(t)[p] = t.messages[p[2]][p[3]].texts[p[4]].length
      BY <1>5 DEF TextLengths
    <2>5. PICK m, j, k : m = p[2] /\ j = p[3] /\ k = p[4]
      OBVIOUS
    <2>6. /\ m \in OldMessages(b) => t.messages[m][j].texts[k] = Shortened(x)
          /\ m \notin OldMessages(b) => t.messages[m][j].texts[k] = x
      <3>1. /\ m \in DOMAIN b.messages /\ j \in DOMAIN b.messages[m]
            /\ k \in DOMAIN b.messages[m][j].texts
            /\ x = b.messages[m][j].texts[k]
        BY <2>1, <2>2, <2>5
      <3> QED
        BY <3>1, CutText
    <2>7. p \in Cut(b) <=> p[2] \in OldMessages(b) /\ x.length > saver.max
      BY <2>3 DEF Cut
    <2> QED
      BY <2>3, <2>4, <2>5, <2>6, <2>7, ShortenedText
  <1> QED
    BY <1>5, <1>6

\* The texts of a body are records, also when they are cut.
TextWhole(text) == \E mark, length : text = [mark |-> mark, length |-> length]

TextsWhole(body) ==
    \A m \in DOMAIN body.messages : \A j \in DOMAIN body.messages[m] :
        \A k \in DOMAIN body.messages[m][j].texts : TextWhole(body.messages[m][j].texts[k])

LEMMA BodyIsWhole == ASSUME NEW b, IsBody(b) PROVE TextsWhole(b)
  <1> SUFFICES ASSUME NEW m \in DOMAIN b.messages, NEW j \in DOMAIN b.messages[m],
                      NEW k \in DOMAIN b.messages[m][j].texts
               PROVE  TextWhole(b.messages[m][j].texts[k])
    BY DEF TextsWhole
  <1>1. b.messages[m][j].texts[k] \in Text
    BY MessageParts
  <1> QED
    BY <1>1 DEF Text, TextWhole

LEMMA CutIsWhole ==
    ASSUME NEW b, IsBody(b), NEW t, t = _truncate_tool_results(b)
    PROVE  TextsWhole(t)
  <1>1. DOMAIN t.messages = DOMAIN b.messages
    BY CutUnfolds
  <1>2. ASSUME NEW m, NEW j, NEW k, m \in DOMAIN b.messages, j \in DOMAIN b.messages[m],
               k \in DOMAIN b.messages[m][j].texts
        PROVE  TextWhole(t.messages[m][j].texts[k])
    <2>1. PICK x : x = b.messages[m][j].texts[k]
      OBVIOUS
    <2>2. x \in Text
      BY <1>2, <2>1, MessageParts
    <2>3. t.messages[m][j].texts[k] = Shortened(x) \/ t.messages[m][j].texts[k] = x
      BY <1>2, <2>1, CutText
    <2>4. Shortened(x) = [mark |-> Shortened(x).mark, length |-> Shortened(x).length]
      BY <2>2, ShortenedText
    <2>5. x = [mark |-> x.mark, length |-> x.length]
      BY <2>2 DEF Text
    <2> QED
      BY <2>3, <2>4, <2>5 DEF TextWhole
  <1>3. \A m \in DOMAIN t.messages : \A j \in DOMAIN t.messages[m] :
          /\ j \in DOMAIN b.messages[m]
          /\ DOMAIN t.messages[m][j].texts = DOMAIN b.messages[m][j].texts
    <2> SUFFICES ASSUME NEW m \in DOMAIN t.messages, NEW j \in DOMAIN t.messages[m]
                 PROVE  /\ j \in DOMAIN b.messages[m]
                        /\ DOMAIN t.messages[m][j].texts = DOMAIN b.messages[m][j].texts
      OBVIOUS
    <2>1. m \in DOMAIN b.messages
      BY <1>1
    <2>2. m \notin OldMessages(b) => t.messages[m] = b.messages[m]
      BY <2>1, CutUnfolds
    <2>3. m \in OldMessages(b) => DOMAIN t.messages[m] = DOMAIN b.messages[m]
      <3> SUFFICES ASSUME m \in OldMessages(b) PROVE DOMAIN t.messages[m] = DOMAIN b.messages[m]
        OBVIOUS
      <3>1. t.messages[m] = [i \in DOMAIN b.messages[m] |->
                    [b.messages[m][i] EXCEPT !.texts = [k \in DOMAIN b.messages[m][i].texts |->
                        Shortened(b.messages[m][i].texts[k])]]]
        BY <2>1, CutUnfolds
      <3> QED
        BY <3>1
    <2>4. j \in DOMAIN b.messages[m]
      BY <2>2, <2>3
    <2> QED
      BY <2>1, <2>4, CutBlock
  <1>4. ASSUME NEW m \in DOMAIN t.messages, NEW j \in DOMAIN t.messages[m],
               NEW k \in DOMAIN t.messages[m][j].texts
        PROVE  TextWhole(t.messages[m][j].texts[k])
    <2>1. /\ m \in DOMAIN b.messages /\ j \in DOMAIN b.messages[m]
          /\ k \in DOMAIN b.messages[m][j].texts
      BY <1>1, <1>3
    <2> QED
      BY <1>2, <2>1
  <1> QED
    BY <1>4 DEF TextsWhole

LEMMA LoweredShape ==
    ASSUME NEW marks \in Seq(Mark)
    PROVE  /\ LoweredAll(marks) \in Seq(Mark) /\ DOMAIN LoweredAll(marks) = DOMAIN marks
           /\ \A i \in DOMAIN marks : LoweredAll(marks)[i] = Lowered(marks[i])
  <1> DEFINE n == Len(marks)
             r == LoweredAll(marks)
  <1>1. n \in Nat /\ DOMAIN marks = 1 .. n /\ \A i \in 1 .. n : marks[i] \in Mark
    BY SequenceDomain
  <1>2. DOMAIN r = 1 .. n /\ \A i \in 1 .. n : r[i] = Lowered(marks[i])
    BY <1>1 DEF LoweredAll
  <1>3. \A i \in 1 .. n : r[i] \in Mark
    BY <1>1, <1>2 DEF Mark, Lowered
  <1>4. r = [i \in 1 .. n |-> r[i]]
    BY <1>1 DEF LoweredAll
  <1> HIDE DEF r, n
  <1>5. r \in Seq(Mark)
    BY <1>1, <1>3, <1>4
  <1> QED
    BY <1>1, <1>2, <1>5 DEF r

\* Every mark is lowered where it is.
LEMMA ForcedMessages ==
    ASSUME NEW b, TextsWhole(b), NEW f, f = force_short_ttl(b),
           NEW m, NEW j, m \in DOMAIN b.messages, j \in DOMAIN b.messages[m]
    PROVE  /\ DOMAIN f.messages = DOMAIN b.messages
           /\ DOMAIN f.messages[m] = DOMAIN b.messages[m]
           /\ f.messages[m][j].mark = Lowered(b.messages[m][j].mark)
           /\ DOMAIN f.messages[m][j].texts = DOMAIN b.messages[m][j].texts
           /\ \A k \in DOMAIN b.messages[m][j].texts :
                /\ f.messages[m][j].texts[k].mark = Lowered(b.messages[m][j].texts[k].mark)
                /\ f.messages[m][j].texts[k].length = b.messages[m][j].texts[k].length
  <1> DEFINE old == b.messages[m][j]
             texts == [k \in DOMAIN old.texts |-> [old.texts[k] EXCEPT !.mark = Lowered(@)]]
  <1>1. /\ DOMAIN f.messages = DOMAIN b.messages
        /\ f.messages[m] = [i \in DOMAIN b.messages[m] |->
              [mark  |-> Lowered(b.messages[m][i].mark),
               texts |-> [k \in DOMAIN b.messages[m][i].texts |->
                            [b.messages[m][i].texts[k] EXCEPT !.mark = Lowered(@)]]]]
    BY DEF force_short_ttl
  <1>2. DOMAIN f.messages[m] = DOMAIN b.messages[m]
    BY <1>1
  <1>3. f.messages[m][j] = [mark |-> Lowered(old.mark), texts |-> texts]
    BY <1>1
  <1>4. /\ f.messages[m][j].mark = Lowered(old.mark)
        /\ f.messages[m][j].texts = texts
    <2> HIDE DEF texts, old
    <2> QED
      BY <1>3
  <1>5. ASSUME NEW k \in DOMAIN old.texts
        PROVE  texts[k].mark = Lowered(old.texts[k].mark) /\ texts[k].length = old.texts[k].length
    <2>1. PICK x, y : old.texts[k] = [mark |-> x, length |-> y]
      BY DEF TextsWhole, TextWhole
    <2>2. texts[k] = [old.texts[k] EXCEPT !.mark = Lowered(@)]
      OBVIOUS
    <2> HIDE DEF texts, old
    <2>3. texts[k] = [[mark |-> x, length |-> y] EXCEPT !.mark = Lowered(x)]
      BY <2>1, <2>2
    <2>4. texts[k].mark = Lowered(x) /\ texts[k].length = y
      BY <2>3
    <2> QED
      BY <2>1, <2>4
  <1>6. DOMAIN texts = DOMAIN old.texts
    OBVIOUS
  <1> HIDE DEF texts
  <1> QED
    BY <1>1, <1>2, <1>4, <1>5, <1>6

LEMMA ForcedMark ==
    ASSUME NEW b, TextsWhole(b), NEW f, f = force_short_ttl(b),
           NEW m, NEW j, m \in DOMAIN b.messages, j \in DOMAIN b.messages[m]
    PROVE  f.messages[m][j].mark = Lowered(b.messages[m][j].mark)
  BY ForcedMessages

LEMMA ForcedText ==
    ASSUME NEW b, TextsWhole(b), NEW f, f = force_short_ttl(b),
           NEW m, NEW j, NEW k, m \in DOMAIN b.messages, j \in DOMAIN b.messages[m],
           k \in DOMAIN b.messages[m][j].texts
    PROVE  /\ f.messages[m][j].texts[k].mark = Lowered(b.messages[m][j].texts[k].mark)
           /\ f.messages[m][j].texts[k].length = b.messages[m][j].texts[k].length
  BY ForcedMessages

LEMMA ForcedShape ==
    ASSUME NEW b, TextsWhole(b), b.tools \in Seq(Mark), b.system \in Seq(Mark) \cup {String},
           String \notin Seq(Mark), NEW f, f = force_short_ttl(b)
    PROVE  /\ MarkPlaces(f) = MarkPlaces(b)
           /\ \A p \in MarkPlaces(b) : Marks(f)[p] = Lowered(Marks(b)[p])
           /\ TextLengths(f) = TextLengths(b)
  <1>1. /\ f.tools = LoweredAll(b.tools)
        /\ f.system = IF b.system = String THEN String ELSE LoweredAll(b.system)
        /\ DOMAIN f.messages = DOMAIN b.messages
    BY DEF force_short_ttl
  <1>2. /\ DOMAIN f.tools = DOMAIN b.tools
        /\ \A i \in DOMAIN b.tools : f.tools[i] = Lowered(b.tools[i])
    BY <1>1, LoweredShape
  <1>3. /\ DOMAIN SystemMarks(f) = DOMAIN SystemMarks(b)
        /\ \A i \in DOMAIN SystemMarks(b) : SystemMarks(f)[i] = Lowered(SystemMarks(b)[i])
    <2>1. CASE b.system = String
      BY <1>1, <2>1 DEF SystemMarks
    <2>2. CASE b.system # String
      <3>1. /\ f.system = LoweredAll(b.system) /\ b.system \in Seq(Mark)
            /\ f.system \in Seq(Mark)
        BY <1>1, <2>2, LoweredShape
      <3>2. SystemMarks(f) = f.system /\ SystemMarks(b) = b.system
        BY <2>2, <3>1 DEF SystemMarks
      <3> QED
        BY <3>1, <3>2, LoweredShape
    <2> QED
      BY <2>1, <2>2
  <1>4. \A m \in DOMAIN f.messages : DOMAIN f.messages[m] = DOMAIN b.messages[m]
    BY <1>1 DEF force_short_ttl
  <1>5. \A m \in DOMAIN f.messages : \A j \in DOMAIN f.messages[m] :
          DOMAIN f.messages[m][j].texts = DOMAIN b.messages[m][j].texts
    BY <1>1, <1>4, ForcedMessages
  <1>6. MessagePlaces(f.messages) = MessagePlaces(b.messages)
    BY <1>1, <1>4, <1>5, SamePlaces
  <1>7. MarkPlaces(f) = MarkPlaces(b)
    BY <1>2, <1>3, <1>6 DEF MarkPlaces
  <1>8. ASSUME NEW p \in MarkPlaces(b) PROVE Marks(f)[p] = Lowered(Marks(b)[p])
    <2>1. CASE p[1] = 1
      <3>1. PICK i \in DOMAIN b.tools : p = <<1, i, 0, 0>>
        BY <2>1, PlaceIs
      <3>2. Marks(b)[p] = b.tools[i]
        BY <3>1, PlaceIs
      <3>3. i \in DOMAIN f.tools
        BY <1>2
      <3>4. Marks(f)[p] = f.tools[i]
        BY <3>1, <3>3, PlaceIs
      <3> QED
        BY <1>2, <3>2, <3>4
    <2>2. CASE p[1] = 2
      <3>1. PICK i \in DOMAIN SystemMarks(b) : p = <<2, i, 0, 0>>
        BY <2>2, PlaceIs
      <3>2. Marks(b)[p] = SystemMarks(b)[i]
        BY <3>1, PlaceIs
      <3>3. i \in DOMAIN SystemMarks(f)
        BY <1>3
      <3>4. Marks(f)[p] = SystemMarks(f)[i]
        BY <3>1, <3>3, PlaceIs
      <3> QED
        BY <1>3, <3>2, <3>4
    <2>3. CASE p[1] = 3
      <3>1. p \in MessagePlaces(f.messages) /\ p \in MessagePlaces(b.messages)
        BY <1>6, <2>3, PlaceIs
      <3>2. Marks(f)[p] = BlockMark(f.messages[p[2]][p[3]], p[4])
        BY <3>1, PlaceIs
      <3>3. Marks(b)[p] = BlockMark(b.messages[p[2]][p[3]], p[4])
        BY <3>1, PlaceIs
      <3>4. /\ p[2] \in DOMAIN b.messages /\ p[3] \in DOMAIN b.messages[p[2]]
            /\ p[4] \in {0} \cup DOMAIN b.messages[p[2]][p[3]].texts
        BY <3>1, PlaceParts
      <3>5. CASE p[4] = 0
        <4>1. f.messages[p[2]][p[3]].mark = Lowered(b.messages[p[2]][p[3]].mark)
          BY <3>4, ForcedMark
        <4> QED
          BY <3>2, <3>3, <3>5, <4>1 DEF BlockMark
      <3>6. CASE p[4] # 0
        <4>1. p[4] \in DOMAIN b.messages[p[2]][p[3]].texts
          BY <3>4, <3>6
        <4>2. f.messages[p[2]][p[3]].texts[p[4]].mark
                = Lowered(b.messages[p[2]][p[3]].texts[p[4]].mark)
          <5>1. PICK m, j, k : m = p[2] /\ j = p[3] /\ k = p[4]
            OBVIOUS
          <5>2. /\ m \in DOMAIN b.messages /\ j \in DOMAIN b.messages[m]
                /\ k \in DOMAIN b.messages[m][j].texts
            BY <3>4, <4>1, <5>1
          <5>3. f.messages[m][j].texts[k].mark = Lowered(b.messages[m][j].texts[k].mark)
            BY <5>2, ForcedText
          <5> QED
            BY <5>1, <5>3
        <4> QED
          BY <3>2, <3>3, <3>6, <4>2 DEF BlockMark
      <3> QED
        BY <3>5, <3>6
    <2> QED
      BY <2>1, <2>2, <2>3, PlaceIs
  <1>9. TextPlaces(f) = TextPlaces(b)
    BY <1>6 DEF TextPlaces
  <1>10. ASSUME NEW p \in TextPlaces(b)
         PROVE  f.messages[p[2]][p[3]].texts[p[4]].length
                  = b.messages[p[2]][p[3]].texts[p[4]].length
    <2>1. p \in MessagePlaces(b.messages) /\ p[4] # 0
      BY DEF TextPlaces
    <2>2. /\ p[2] \in DOMAIN b.messages /\ p[3] \in DOMAIN b.messages[p[2]]
          /\ p[4] \in DOMAIN b.messages[p[2]][p[3]].texts
      BY <2>1, PlaceParts
    <2> QED
      <3>1. PICK m, j, k : m = p[2] /\ j = p[3] /\ k = p[4]
        OBVIOUS
      <3>2. /\ m \in DOMAIN b.messages /\ j \in DOMAIN b.messages[m]
            /\ k \in DOMAIN b.messages[m][j].texts
        BY <2>2, <3>1
      <3>3. f.messages[m][j].texts[k].length = b.messages[m][j].texts[k].length
        BY <3>2, ForcedText
      <3> QED
        BY <3>1, <3>3
  <1>11. TextLengths(f) = TextLengths(b)
    BY <1>9, <1>10 DEF TextLengths
  <1> QED
    BY <1>7, <1>8, <1>11

-----------------------------------------------------------------------------
(* Sums.  SumOf(f) folds f over its domain, taking one place after another *)
(* as CHOOSE has it, which is the same for functions with one domain.      *)

KeyOf(S) == CHOOSE k \in S : TRUE

\* g has the sum of f over each part of its domain
IsSums(g, f) ==
    g = [S \in SUBSET DOMAIN f |->
            IF S = {} THEN 0 ELSE f[KeyOf(S)] + g[S \ {KeyOf(S)}]]

Sums(f) == CHOOSE g : IsSums(g, f)

LEMMA SumOfIs == ASSUME NEW f PROVE SumOf(f) = Sums(f)[DOMAIN f]
  BY DEF SumOf, FoldFunction, FoldFunctionOnSet, MapThenFoldSet, Sums, IsSums, KeyOf

LEMMA KeyOfIsKey == ASSUME NEW S, S # {} PROVE KeyOf(S) \in S
  BY DEF KeyOf

\* There are sums: of the parts with n keys from those with one less.
LEMMA SumsExist ==
    ASSUME NEW f, IsFiniteSet(DOMAIN f)
    PROVE  IsSums(Sums(f), f)
  <1> DEFINE Upto(n) == {S \in SUBSET DOMAIN f : Cardinality(S) <= n}
             Value(g, S) == IF S = {} THEN 0 ELSE f[KeyOf(S)] + g[S \ {KeyOf(S)}]
             Partial(n, g) == g = [S \in Upto(n) |-> Value(g, S)]
             Bad == {n \in Nat : ~\E g : Partial(n, g)}
  <1>1. \A S \in SUBSET DOMAIN f : IsFiniteSet(S) /\ Cardinality(S) \in Nat
    BY FS_Subset, FS_CardinalityType
  <1>2. ASSUME NEW n \in Nat, NEW S \in Upto(n), S # {}
        PROVE  n > 0 /\ S \ {KeyOf(S)} \in Upto(n - 1)
    <2>1. KeyOf(S) \in S
      BY <1>2, KeyOfIsKey
    <2>2. Cardinality(S \ {KeyOf(S)}) = Cardinality(S) - 1
      BY <1>1, <2>1, FS_RemoveElement
    <2>3. Cardinality(S \ {KeyOf(S)}) \in Nat
      BY <1>1
    <2> QED
      BY <1>1, <2>2, <2>3
  <1>3. Bad = {}
    <2> SUFFICES ASSUME Bad # {} PROVE FALSE
      OBVIOUS
    <2>1. PICK n \in Bad : \A m \in Bad : n <= m
      <3> HIDE DEF Partial
      <3> QED
        BY LeastOf
    <2>2. CASE n = 0
      <3> DEFINE g == [S \in Upto(0) |-> 0]
      <3>1. \A S \in Upto(0) : S = {}
        <4> SUFFICES ASSUME NEW S \in Upto(0), S # {} PROVE FALSE
          OBVIOUS
        <4>1. 0 > 0
          <5> HIDE DEF Upto, Bad, Partial
          <5> QED
            BY <1>2
        <4> QED
          BY <4>1
      <3>2. Partial(0, g)
        BY <3>1
      <3> QED
        BY <2>2, <3>2
    <2>3. CASE n > 0
      <3>1. n - 1 \in Nat /\ n - 1 \notin Bad
        <4>1. n \in Nat
          OBVIOUS
        <4> HIDE DEF Bad
        <4> QED
          BY <2>1, <2>3, <4>1
      <3>2. PICK g : Partial(n - 1, g)
        BY <3>1
      <3> DEFINE h == [S \in Upto(n) |-> Value(g, S)]
      <3>3. \A S \in Upto(n - 1) : S \in Upto(n) /\ h[S] = g[S]
        <4>1. \A S \in Upto(n - 1) : g[S] = Value(g, S)
          BY <3>2
        <4>2. \A S \in Upto(n - 1) : S \in Upto(n)
          BY <1>1
        <4> HIDE DEF Value, Upto
        <4> QED
          BY <4>1, <4>2
      <3>4. \A S \in Upto(n) : Value(g, S) = Value(h, S)
        <4> SUFFICES ASSUME NEW S \in Upto(n), S # {}
                     PROVE  g[S \ {KeyOf(S)}] = h[S \ {KeyOf(S)}]
          OBVIOUS
        <4>1. S \ {KeyOf(S)} \in Upto(n - 1)
          BY <1>2, <2>1
        <4> HIDE DEF Upto, h
        <4> QED
          BY <4>1, <3>3
      <3>5. Partial(n, h)
        <4> HIDE DEF Value, Upto
        <4> QED
          BY <3>4
      <3> HIDE DEF h, Partial
      <3> QED
        BY <2>1, <3>5
    <2> QED
      BY <2>1, <2>2, <2>3
  <1>4. PICK g : Partial(Cardinality(DOMAIN f), g)
    BY <1>1, <1>3
  <1>5. Upto(Cardinality(DOMAIN f)) = SUBSET DOMAIN f
    BY FS_Subset
  <1>6. IsSums(g, f)
    BY <1>4, <1>5 DEF IsSums
  <1> QED
    BY <1>6 DEF Sums

LEMMA SumStep ==
    ASSUME NEW f, IsFiniteSet(DOMAIN f)
    PROVE  /\ Sums(f)[{}] = 0
           /\ \A S \in SUBSET DOMAIN f :
                S # {} => Sums(f)[S] = f[KeyOf(S)] + Sums(f)[S \ {KeyOf(S)}]
  <1> DEFINE g == Sums(f)
  <1>1. g = [S \in SUBSET DOMAIN f |->
               IF S = {} THEN 0 ELSE f[KeyOf(S)] + g[S \ {KeyOf(S)}]]
    BY SumsExist DEF IsSums
  <1> HIDE DEF g
  <1>2. \A S \in SUBSET DOMAIN f :
          g[S] = IF S = {} THEN 0 ELSE f[KeyOf(S)] + g[S \ {KeyOf(S)}]
    BY <1>1
  <1> QED
    BY <1>2 DEF g

AddsTo(f, g, h) ==
    /\ IsFiniteSet(DOMAIN f) /\ DOMAIN g = DOMAIN f /\ DOMAIN h = DOMAIN f
    /\ \A k \in DOMAIN f : g[k] \in Nat /\ h[k] \in Nat /\ f[k] = g[k] + h[k]

\* The sum of the sums is the sum of what is added place by place.
LEMMA SumsAdd ==
    ASSUME NEW f, NEW g, NEW h, AddsTo(f, g, h)
    PROVE  SumOf(g) \in Nat /\ SumOf(h) \in Nat /\ SumOf(f) = SumOf(g) + SumOf(h)
  <1> DEFINE D == DOMAIN f
             Right(S) == /\ Sums(g)[S] \in Nat /\ Sums(h)[S] \in Nat
                         /\ Sums(f)[S] = Sums(g)[S] + Sums(h)[S]
             Bad == {n \in Nat : \E S \in SUBSET D : Cardinality(S) = n /\ ~Right(S)}
  <1>0. /\ IsFiniteSet(DOMAIN f) /\ DOMAIN g = DOMAIN f /\ DOMAIN h = DOMAIN f
        /\ \A k \in DOMAIN f : g[k] \in Nat /\ h[k] \in Nat /\ f[k] = g[k] + h[k]
    BY DEF AddsTo
  <1>1. \A S \in SUBSET D : IsFiniteSet(S) /\ Cardinality(S) \in Nat
    BY <1>0, FS_Subset, FS_CardinalityType
  <1>2. /\ Sums(f)[{}] = 0 /\ Sums(g)[{}] = 0 /\ Sums(h)[{}] = 0
        /\ \A S \in SUBSET D : S # {} =>
             /\ Sums(f)[S] = f[KeyOf(S)] + Sums(f)[S \ {KeyOf(S)}]
             /\ Sums(g)[S] = g[KeyOf(S)] + Sums(g)[S \ {KeyOf(S)}]
             /\ Sums(h)[S] = h[KeyOf(S)] + Sums(h)[S \ {KeyOf(S)}]
    BY <1>0, SumStep
  <1>3. Bad = {}
    <2> SUFFICES ASSUME Bad # {} PROVE FALSE
      OBVIOUS
    <2>1. PICK n \in Bad : \A m \in Bad : n <= m
      <3> HIDE DEF Right
      <3> QED
        BY LeastOf
    <2>2. PICK S \in SUBSET D : Cardinality(S) = n /\ ~Right(S)
      OBVIOUS
    <2>3. CASE S = {}
      BY <1>2, <2>2, <2>3
    <2>4. CASE S # {}
      <3>1. PICK k \in S : k = KeyOf(S)
        BY <2>4, KeyOfIsKey
      <3>2. PICK T \in SUBSET D : T = S \ {k}
        OBVIOUS
      <3>3. Cardinality(T) = n - 1 /\ Cardinality(T) \in Nat
        BY <1>1, <2>2, <3>1, <3>2, FS_RemoveElement
      <3>4. n \in Nat
        OBVIOUS
      <3>5. Cardinality(T) \notin Bad
        <4> HIDE DEF Bad
        <4> QED
          BY <2>1, <3>3, <3>4
      <3>6. Right(T)
        <4> HIDE DEF Right
        <4> QED
          BY <3>3, <3>5
      <3>7. /\ Sums(f)[S] = f[k] + Sums(f)[T]
            /\ Sums(g)[S] = g[k] + Sums(g)[T]
            /\ Sums(h)[S] = h[k] + Sums(h)[T]
        BY <1>2, <2>4, <3>1, <3>2
      <3>8. k \in DOMAIN f
        OBVIOUS
      <3>9. g[k] \in Nat /\ h[k] \in Nat /\ f[k] = g[k] + h[k]
        BY <1>0, <3>8
      <3>10. Right(S)
        <4> HIDE DEF D
        <4> QED
          BY <3>6, <3>7, <3>9
      <3> QED
        BY <2>2, <3>10
    <2> QED
      BY <2>3, <2>4
  <1>4. Right(D)
    <2>1. D \in SUBSET D /\ Cardinality(D) \in Nat
      BY <1>1
    <2> HIDE DEF D, Right
    <2> QED
      BY <1>3, <2>1
  <1> QED
    BY <1>0, <1>4, SumOfIs

LEMMA SumIsNat ==
    ASSUME NEW f, IsFiniteSet(DOMAIN f), \A k \in DOMAIN f : f[k] \in Nat
    PROVE  SumOf(f) \in Nat
  <1> DEFINE zeros == [k \in DOMAIN f |-> 0]
  <1>1. DOMAIN zeros = DOMAIN f /\ \A k \in DOMAIN f : zeros[k] \in Nat /\ f[k] = f[k] + zeros[k]
    OBVIOUS
  <1>2. IsFiniteSet(DOMAIN f)
    OBVIOUS
  <1> HIDE DEF zeros
  <1>3. AddsTo(f, f, zeros)
    BY <1>1, <1>2 DEF AddsTo
  <1> QED
    BY <1>3, SumsAdd

-----------------------------------------------------------------------------
(* What the cut saves.                                                     *)

LEMMA MinOfTwo ==
    ASSUME NEW x \in Nat, NEW y \in Nat
    PROVE  /\ Min({x, y}) \in Nat /\ Min({x, y}) <= x
           /\ y <= x => Min({x, y}) = y
  <1>1. \E z \in {x, y} : \A w \in {x, y} : z =< w
    OBVIOUS
  <1>2. Min({x, y}) \in {x, y} /\ \A w \in {x, y} : Min({x, y}) =< w
    BY <1>1 DEF Min
  <1> QED
    BY <1>2

\* The note grows with the number in it, and no faster.
LEMMA NoteOf ==
    ASSUME NEW n \in Nat, NoteGrows(n), NEW k \in 0 .. n, NEW m \in k .. n
    PROVE  /\ MarkerLength(k) \in Nat /\ MarkerLength(m) \in Nat
           /\ MarkerLength(k) <= MarkerLength(m)
           /\ MarkerLength(m) <= MarkerLength(k) + (m - k)
  <1> DEFINE Right(d) == /\ MarkerLength(k) <= MarkerLength(k + d)
                         /\ MarkerLength(k + d) <= MarkerLength(k) + d
             Bad == {d \in Nat : d <= n - k /\ ~Right(d)}
  <1>1. /\ \A i \in -n .. n : MarkerLength(i) \in Nat
        /\ \A i \in 1 .. n : MarkerLength(i) - MarkerLength(i - 1) \in {0, 1}
    BY DEF NoteGrows
  <1>2. Bad = {}
    <2> SUFFICES ASSUME Bad # {} PROVE FALSE
      OBVIOUS
    <2>1. PICK d \in Bad : \A e \in Bad : d <= e
      <3> HIDE DEF Right
      <3> QED
        BY LeastOf
    <2>2. d \in Nat /\ d <= n - k /\ ~Right(d)
      OBVIOUS
    <2>3. MarkerLength(k) \in Nat /\ k + 0 = k
      BY <1>1
    <2>4. d # 0
      BY <2>2, <2>3
    <2>5. d - 1 \in Nat /\ d - 1 <= n - k /\ d - 1 \notin Bad
      <3> HIDE DEF Bad
      <3> QED
        BY <2>1, <2>2, <2>4
    <2>6. Right(d - 1)
      <3> HIDE DEF Right
      <3> QED
        BY <2>5
    <2>7. PICK i \in 1 .. n : i = k + d
      BY <2>2, <2>4
    <2>8. i - 1 = k + (d - 1)
      BY <2>2, <2>7
    <2>9. /\ MarkerLength(i) - MarkerLength(i - 1) \in {0, 1}
          /\ MarkerLength(i) \in Nat /\ MarkerLength(i - 1) \in Nat
      BY <1>1
    <2>10. /\ MarkerLength(k) <= MarkerLength(i - 1)
           /\ MarkerLength(i - 1) <= MarkerLength(k) + (d - 1)
      BY <2>6, <2>8
    <2>11. MarkerLength(k) <= MarkerLength(i) /\ MarkerLength(i) <= MarkerLength(k) + d
      BY <2>2, <2>3, <2>9, <2>10
    <2> QED
      BY <2>2, <2>7, <2>11
  <1>3. m - k \in Nat /\ m - k <= n - k /\ k + (m - k) = m
    OBVIOUS
  <1>4. Right(m - k)
    <2> HIDE DEF Right
    <2> QED
      BY <1>2, <1>3
  <1> QED
    BY <1>1, <1>3, <1>4

\* Where the cut pays a text is shorter by what is counted.
LEMMA CutMath ==
    ASSUME IsSaver(saver), NEW n \in Nat, NoteGrows(n),
           NEW c, c = _head_tail_truncate(n)
    PROVE  /\ c.removed \in Nat /\ c.length \in Nat
           /\ CutPays /\ n > saver.max => n = c.length + c.removed
  <1> DEFINE left == Kept(n)
             omitted == n - left
             note == MarkerLength(omitted)
  <1>1. saver.max \in Nat /\ saver.head \in Nat /\ saver.tail \in Nat
    BY DEF IsSaver
  <1>2. left = Min({n, saver.head}) + Min({n, saver.tail})
    BY DEF Kept
  <1>3. /\ Min({n, saver.head}) \in Nat /\ Min({n, saver.head}) <= n
        /\ Min({n, saver.tail}) \in Nat /\ Min({n, saver.tail}) <= n
        /\ saver.head <= n => Min({n, saver.head}) = saver.head
        /\ saver.tail <= n => Min({n, saver.tail}) = saver.tail
    BY <1>1, MinOfTwo
  <1>4. left \in Nat /\ omitted \in -n .. n /\ omitted \in Int
    <2> HIDE DEF left
    <2>1. left \in Nat /\ left <= n + n
      BY <1>2, <1>3
    <2> QED
      BY <2>1
  <1>5. note \in Nat
    BY <1>4 DEF NoteGrows
  <1>6. c.length = left + note /\ c.removed = Max({0, omitted - note})
    BY DEF _head_tail_truncate
  <1>7. omitted - note \in Int
    <2> HIDE DEF omitted, note
    <2> QED
      BY <1>4, <1>5
  <1>8. c.removed \in Nat
    <2> DEFINE x == omitted - note
    <2>1. x \in Int /\ 0 \in Int
      BY <1>7
    <2> HIDE DEF x
    <2>2. Max({0, x}) \in Int /\ Max({0, x}) >= 0
      BY <2>1, MaxOfTwo
    <2> QED
      BY <1>6, <2>2 DEF x
  <1>9. c.length \in Nat
    <2> HIDE DEF left, note
    <2> QED
      BY <1>4, <1>5, <1>6
  <1>10. ASSUME CutPays, n > saver.max PROVE n = c.length + c.removed
    <2> DEFINE h == saver.head
               t == saver.tail
               x == saver.max
    <2>1. x \in 0 .. n /\ x \in x .. n /\ x \in Nat
      BY <1>1, <1>10
    <2>2. MarkerLength(x) \in Nat
      BY <2>1 DEF NoteGrows
    <2>3. h + t + MarkerLength(x) <= x
      BY <1>10 DEF CutPays
    <2> HIDE DEF h, t, x
    <2>4. h \in Nat /\ t \in Nat /\ h <= n /\ t <= n
      <3>1. h \in Nat /\ t \in Nat
        BY <1>1 DEF h, t
      <3> QED
        BY <2>1, <2>2, <2>3, <3>1
    <2>5. left = h + t
      BY <1>2, <1>3, <2>4 DEF h, t
    <2>6. omitted = n - h - t
      <3> HIDE DEF left
      <3> QED
        BY <1>4, <2>4, <2>5
    <2>7. note <= omitted
      <3> HIDE DEF left
      <3>1. omitted \in Nat /\ omitted <= n
        BY <2>1, <2>2, <2>3, <2>4, <2>6
      <3>2. PICK o \in Nat : o = omitted
        BY <3>1
      <3>3. CASE o <= x
        <4>1. o \in 0 .. n /\ x \in o .. n
          BY <2>1, <3>1, <3>2, <3>3
        <4>2. MarkerLength(o) <= MarkerLength(x)
          BY <4>1, NoteOf
        <4>3. MarkerLength(o) <= o
          BY <1>5, <2>1, <2>2, <2>3, <2>4, <2>6, <3>2, <4>2, <1>10 DEF x
        <4> QED
          BY <3>2, <4>3
      <3>4. CASE o > x
        <4>1. x \in 0 .. n /\ o \in x .. n
          BY <2>1, <3>1, <3>2, <3>4
        <4>2. MarkerLength(o) <= MarkerLength(x) + (o - x)
          BY <4>1, NoteOf
        <4>3. MarkerLength(o) \in Nat
          BY <1>5, <3>2
        <4>4. MarkerLength(o) <= o
          BY <2>1, <2>2, <2>3, <2>4, <4>2, <4>3
        <4> QED
          BY <3>2, <4>4
      <3> QED
        BY <2>1, <3>3, <3>4
    <2>8. c.removed = omitted - note
      <3>1. omitted - note \in Nat
        <4> HIDE DEF omitted, note
        <4> QED
          BY <1>4, <1>5, <2>7
      <3>2. PICK r \in Nat : r = omitted - note
        BY <3>1
      <3>3. Max({0, r}) = r
        BY <3>2, MaxIs
      <3> QED
        BY <1>6, <3>2, <3>3
    <2> HIDE DEF left, note
    <2> QED
      BY <1>4, <1>5, <1>6, <2>8
  <1> QED
    BY <1>8, <1>9, <1>10

-----------------------------------------------------------------------------
(* What goes out.                                                          *)

Modified(body) == IF Extends THEN _apply_cache_breakpoints(body).modified ELSE 0

CutPlaces(body) == IF saver.enabled /\ saver.truncate THEN Cut(body) ELSE {}

Removed(body) ==
    [p \in DOMAIN TextLengths(body) |->
        IF p \in CutPlaces(body) THEN _head_tail_truncate(TextLengths(body)[p]).removed ELSE 0]

\* the claims of BodyStaysValid, by the settings they are made under
ValidFor(s, before, out, bytes, upgraded) ==
    LET after == out.body
    IN  /\ _count_cache_breakpoints(after)
             <= Max({MAX_CACHE_BREAKPOINTS, _count_cache_breakpoints(before)})
        /\ Ordered(before) => Ordered(after)
        /\ _asks_for_1h(after) /\ ~_asks_for_1h(before) => out.beta
        /\ s.force5m => ~_asks_for_1h(after)
        /\ DOMAIN TextLengths(after) = DOMAIN TextLengths(before)
        /\ \A p \in DOMAIN TextLengths(before) :
               p[2] \notin OldMessages(before) => TextLengths(after)[p] = TextLengths(before)[p]
        /\ s.head + s.tail + MarkerLength(s.max) <= s.max =>
               SumOf(TextLengths(before)) - SumOf(TextLengths(after)) = bytes
        /\ upgraded > 0 <=> (out.beta /\ Marks(after) # Marks(before))

\* First the breakpoints are raised.
LEMMA RaisedFirst ==
    ASSUME NEW b, IsBody(b),
           NEW r, r = IF Extends THEN _apply_cache_breakpoints(b).body ELSE b
    PROVE  /\ IsBody(r)
           /\ _count_cache_breakpoints(r)
                <= Max({MAX_CACHE_BREAKPOINTS, _count_cache_breakpoints(b)})
           /\ Ordered(b) => Ordered(r)
           /\ ~Extends => r = b
           /\ TextPlaces(r) = TextPlaces(b) /\ TextLengths(r) = TextLengths(b)
           /\ OldMessages(r) = OldMessages(b) /\ Cut(r) = Cut(b)
           /\ Modified(b) > 0 <=> (Extends /\ Marks(r) # Marks(b))
  <1>1. IsBody(r) /\ r.messages = b.messages
    BY AppliedBody
  <1>2. _count_cache_breakpoints(r) <= Max({MAX_CACHE_BREAKPOINTS, _count_cache_breakpoints(b)})
    <2>1. CASE Extends
      BY <2>1, AppliedCount
    <2>2. CASE ~Extends
      <3>1. PICK n \in Int : n = _count_cache_breakpoints(b)
        BY BreakpointsAreFinite
      <3>2. Max({MAX_CACHE_BREAKPOINTS, n}) \in Int /\ Max({MAX_CACHE_BREAKPOINTS, n}) >= n
        BY MaxOfTwo, SaverAssumption
      <3> QED
        BY <2>2, <3>1, <3>2
    <2> QED
      BY <2>1, <2>2
  <1>3. Ordered(b) => Ordered(r)
    BY AppliedOrdered
  <1>4. TextPlaces(r) = TextPlaces(b)
    BY <1>1 DEF TextPlaces
  <1>5. TextLengths(r) = TextLengths(b)
    BY <1>1, <1>4 DEF TextLengths
  <1>6. OldMessages(r) = OldMessages(b)
    BY <1>1 DEF OldMessages
  <1>7. Cut(r) = Cut(b)
    BY <1>4, <1>5, <1>6 DEF Cut
  <1>8. Modified(b) > 0 <=> (Extends /\ Marks(r) # Marks(b))
    <2>1. CASE Extends
      <3>1. PICK n : n = _apply_cache_breakpoints(b).modified
        OBVIOUS
      <3>2. n > 0 <=> Marks(r) # Marks(b)
        BY <2>1, <3>1, AppliedChanges
      <3> QED
        BY <2>1, <3>1, <3>2 DEF Modified
    <2>2. CASE ~Extends
      BY <2>2 DEF Modified
    <2> QED
      BY <2>1, <2>2
  <1> QED
    BY <1>1, <1>2, <1>3, <1>4, <1>5, <1>6, <1>7, <1>8

\* Then the texts are cut.
LEMMA CutNext ==
    ASSUME NEW r, IsBody(r),
           NEW t, t = IF saver.enabled /\ saver.truncate THEN _truncate_tool_results(r) ELSE r
    PROVE  /\ MarkPlaces(t) = MarkPlaces(r) /\ Marks(t) = Marks(r)
           /\ TextPlaces(t) = TextPlaces(r)
           /\ \A p \in TextPlaces(r) : p \in CutPlaces(r) =>
                TextLengths(t)[p] = _head_tail_truncate(TextLengths(r)[p]).length
           /\ \A p \in TextPlaces(r) :
                p \notin CutPlaces(r) => TextLengths(t)[p] = TextLengths(r)[p]
           /\ TextsWhole(t) /\ t.tools \in Seq(Mark) /\ t.system \in Seq(Mark) \cup {String}
           /\ String \notin Seq(Mark)
  <1>1. /\ r.tools \in Seq(Mark) /\ r.system \in Seq(Mark) \cup {String}
        /\ String \notin Seq(Mark)
    BY StringIsNoList DEF IsBody
  <1>2. CASE saver.enabled /\ saver.truncate
    <2>1. t = _truncate_tool_results(r) /\ CutPlaces(r) = Cut(r)
      BY <1>2 DEF CutPlaces
    <2>2. t.tools = r.tools /\ t.system = r.system
      BY <2>1, CutUnfolds
    <2>3. TextsWhole(t)
      BY <2>1, CutIsWhole
    <2>4. /\ MarkPlaces(t) = MarkPlaces(r) /\ Marks(t) = Marks(r)
          /\ TextPlaces(t) = TextPlaces(r)
          /\ \A p \in TextPlaces(r) : p \in Cut(r) =>
                TextLengths(t)[p] = _head_tail_truncate(TextLengths(r)[p]).length
          /\ \A p \in TextPlaces(r) : p \notin Cut(r) => TextLengths(t)[p] = TextLengths(r)[p]
      BY <2>1, CutShape
    <2> QED
      BY <1>1, <2>1, <2>2, <2>3, <2>4
  <1>3. CASE ~(saver.enabled /\ saver.truncate)
    <2>1. t = r /\ CutPlaces(r) = {}
      BY <1>3 DEF CutPlaces
    <2> QED
      BY <1>1, <2>1, BodyIsWhole
  <1> QED
    BY <1>2, <1>3

\* Last every mark is lowered, under CACHE_FORCE_TTL = 5m.
LEMMA LoweredLast ==
    ASSUME NEW t, TextsWhole(t), t.tools \in Seq(Mark), t.system \in Seq(Mark) \cup {String},
           String \notin Seq(Mark),
           NEW f, f = IF saver.force5m THEN force_short_ttl(t) ELSE t
    PROVE  /\ Breakpoints(f) = Breakpoints(t)
           /\ Ordered(t) => Ordered(f)
           /\ _asks_for_1h(f) => _asks_for_1h(t)
           /\ saver.force5m => ~_asks_for_1h(f)
           /\ ~saver.force5m => Marks(f) = Marks(t)
           /\ TextLengths(f) = TextLengths(t)
  <1>1. DOMAIN Marks(f) = MarkPlaces(f) /\ DOMAIN Marks(t) = MarkPlaces(t)
    BY PlaceIs
  <1>2. CASE saver.force5m
    <2>1. /\ MarkPlaces(f) = MarkPlaces(t) /\ TextLengths(f) = TextLengths(t)
          /\ \A p \in MarkPlaces(t) : Marks(f)[p] = Lowered(Marks(t)[p])
      BY <1>2, ForcedShape
    <2>2. \A p \in MarkPlaces(t) : Marks(f)[p] # "1h" /\ (Marks(f)[p] = "no" <=> Marks(t)[p] = "no")
      BY <2>1 DEF Lowered
    <2>3. Breakpoints(f) = Breakpoints(t)
      BY <1>1, <2>1, <2>2 DEF Breakpoints
    <2>4. Ordered(f)
      BY <1>1, <2>1, <2>2 DEF Ordered
    <2>5. ~_asks_for_1h(f)
      BY <1>1, <2>1, <2>2 DEF _asks_for_1h, Range
    <2> QED
      BY <1>2, <2>1, <2>3, <2>4, <2>5
  <1>3. CASE ~saver.force5m
    BY <1>3
  <1> QED
    BY <1>2, <1>3

LEMMA SavedIsShorter ==
    ASSUME NEW b, IsBody(b), IsSaver(saver),
           \A p \in TextPlaces(b) : NoteGrows(TextLengths(b)[p]),
           NEW lengths, DOMAIN lengths = TextPlaces(b),
           \A p \in TextPlaces(b) : p \in CutPlaces(b) =>
             lengths[p] = _head_tail_truncate(TextLengths(b)[p]).length,
           \A p \in TextPlaces(b) : p \notin CutPlaces(b) => lengths[p] = TextLengths(b)[p]
    PROVE  /\ SumOf(Removed(b)) \in Nat
           /\ CutPays => SumOf(TextLengths(b)) - SumOf(lengths) = SumOf(Removed(b))
           /\ \A p \in TextPlaces(b) : p[2] \notin OldMessages(b) => lengths[p] = TextLengths(b)[p]
  <1> DEFINE f == TextLengths(b)
             h == Removed(b)
  <1>1. IsFiniteSet(TextPlaces(b))
    <2>1. TextPlaces(b) \subseteq MarkPlaces(b)
      BY DEF TextPlaces, MarkPlaces
    <2> QED
      BY <2>1, PlacesAreFinite, FS_Subset
  <1>2. DOMAIN f = TextPlaces(b) /\ DOMAIN h = TextPlaces(b)
    BY DEF TextLengths, Removed
  <1>3. \A p \in TextPlaces(b) : p \in CutPlaces(b) =>
          p[2] \in OldMessages(b) /\ f[p] > saver.max
    BY DEF CutPlaces, Cut
  <1>4. ASSUME NEW p \in TextPlaces(b)
        PROVE  /\ f[p] \in Nat /\ lengths[p] \in Nat /\ h[p] \in Nat
               /\ CutPays => f[p] = lengths[p] + h[p]
    <2>1. PICK n \in Nat : n = f[p] /\ NoteGrows(n)
      BY TextPlaceParts
    <2>2. CASE p \in CutPlaces(b)
      <3>1. PICK c : c = _head_tail_truncate(n)
        OBVIOUS
      <3>2. /\ c.removed \in Nat /\ c.length \in Nat
            /\ CutPays /\ n > saver.max => n = c.length + c.removed
        BY <2>1, <3>1, CutMath
      <3>3. h[p] = c.removed
        BY <1>2, <2>1, <2>2, <3>1 DEF Removed
      <3>4. lengths[p] = c.length
        BY <2>1, <2>2, <3>1
      <3> QED
        BY <1>3, <2>1, <2>2, <3>2, <3>3, <3>4
    <2>3. CASE p \notin CutPlaces(b)
      <3>1. h[p] = 0
        BY <1>2, <2>3 DEF Removed
      <3>2. lengths[p] = n
        BY <2>1, <2>3
      <3> QED
        BY <2>1, <3>1, <3>2
    <2> QED
      BY <2>2, <2>3
  <1> HIDE DEF f, h
  <1>5. SumOf(h) \in Nat
    BY <1>1, <1>2, <1>4, SumIsNat
  <1>6. ASSUME CutPays PROVE SumOf(f) - SumOf(lengths) = SumOf(h)
    <2>1. \A p \in DOMAIN f : lengths[p] \in Nat /\ h[p] \in Nat /\ f[p] = lengths[p] + h[p]
      BY <1>2, <1>4, <1>6
    <2>3. IsFiniteSet(DOMAIN f) /\ DOMAIN lengths = DOMAIN f /\ DOMAIN h = DOMAIN f
      BY <1>1, <1>2
    <2>2. SumOf(lengths) \in Nat /\ SumOf(h) \in Nat /\ SumOf(f) = SumOf(lengths) + SumOf(h)
      <3>1. AddsTo(f, lengths, h)
        BY <2>1, <2>3 DEF AddsTo
      <3> QED
        BY <3>1, SumsAdd
    <2> QED
      BY <2>2
  <1> QED
    BY <1>3, <1>5, <1>6 DEF f, h

LEMMA PreparedIsValid ==
    ASSUME NEW b, IsBody(b), IsSaver(saver),
           \A p \in TextPlaces(b) : NoteGrows(TextLengths(b)[p])
    PROVE  /\ SumOf(Removed(b)) \in Nat
           /\ ValidFor(saver, b, Prepared(b), SumOf(Removed(b)), IF Modified(b) > 0 THEN 1 ELSE 0)
  <1>1. PICK r : r = IF Extends THEN _apply_cache_breakpoints(b).body ELSE b
    OBVIOUS
  <1>2. PICK t : t = IF saver.enabled /\ saver.truncate THEN _truncate_tool_results(r) ELSE r
    OBVIOUS
  <1>3. PICK f : f = IF saver.force5m THEN force_short_ttl(t) ELSE t
    OBVIOUS
  <1>4. Prepared(b) = [body |-> f, beta |-> Extends]
    BY <1>1, <1>2, <1>3 DEF Prepared
  <1>5. /\ IsBody(r)
        /\ _count_cache_breakpoints(r)
             <= Max({MAX_CACHE_BREAKPOINTS, _count_cache_breakpoints(b)})
        /\ Ordered(b) => Ordered(r)
        /\ ~Extends => r = b
        /\ TextPlaces(r) = TextPlaces(b) /\ TextLengths(r) = TextLengths(b)
        /\ OldMessages(r) = OldMessages(b) /\ Cut(r) = Cut(b)
        /\ Modified(b) > 0 <=> (Extends /\ Marks(r) # Marks(b))
    BY <1>1, RaisedFirst
  <1>6. CutPlaces(r) = CutPlaces(b)
    BY <1>5 DEF CutPlaces
  <1>7. /\ MarkPlaces(t) = MarkPlaces(r) /\ Marks(t) = Marks(r)
        /\ TextPlaces(t) = TextPlaces(r)
        /\ \A p \in TextPlaces(r) : p \in CutPlaces(r) =>
             TextLengths(t)[p] = _head_tail_truncate(TextLengths(r)[p]).length
        /\ \A p \in TextPlaces(r) : p \notin CutPlaces(r) => TextLengths(t)[p] = TextLengths(r)[p]
        /\ TextsWhole(t) /\ t.tools \in Seq(Mark) /\ t.system \in Seq(Mark) \cup {String}
        /\ String \notin Seq(Mark)
    BY <1>2, <1>5, CutNext
  <1>8. /\ Breakpoints(f) = Breakpoints(t)
        /\ Ordered(t) => Ordered(f)
        /\ _asks_for_1h(f) => _asks_for_1h(t)
        /\ saver.force5m => ~_asks_for_1h(f)
        /\ ~saver.force5m => Marks(f) = Marks(t)
        /\ TextLengths(f) = TextLengths(t)
    BY <1>3, <1>7, LoweredLast
  <1>9. /\ Breakpoints(t) = Breakpoints(r)
        /\ Ordered(r) => Ordered(t)
        /\ _asks_for_1h(t) => _asks_for_1h(r)
    BY <1>7 DEF Breakpoints, Ordered, _asks_for_1h
  <1>10. DOMAIN TextLengths(b) = TextPlaces(b) /\ DOMAIN TextLengths(t) = TextPlaces(b)
    BY <1>5, <1>7 DEF TextLengths
  <1>11. /\ SumOf(Removed(b)) \in Nat
         /\ CutPays => SumOf(TextLengths(b)) - SumOf(TextLengths(t)) = SumOf(Removed(b))
         /\ \A p \in TextPlaces(b) : p[2] \notin OldMessages(b) =>
              TextLengths(t)[p] = TextLengths(b)[p]
    <2>1. PICK lengths : lengths = TextLengths(t)
      OBVIOUS
    <2>2. /\ DOMAIN lengths = TextPlaces(b)
          /\ \A p \in TextPlaces(b) : p \in CutPlaces(b) =>
               lengths[p] = _head_tail_truncate(TextLengths(b)[p]).length
          /\ \A p \in TextPlaces(b) : p \notin CutPlaces(b) => lengths[p] = TextLengths(b)[p]
      BY <1>5, <1>6, <1>7, <1>10, <2>1
    <2>3. /\ SumOf(Removed(b)) \in Nat
          /\ CutPays => SumOf(TextLengths(b)) - SumOf(lengths) = SumOf(Removed(b))
          /\ \A p \in TextPlaces(b) : p[2] \notin OldMessages(b) => lengths[p] = TextLengths(b)[p]
      BY <2>2, SavedIsShorter
    <2> QED
      BY <2>1, <2>3
  <1>12. _count_cache_breakpoints(f)
           <= Max({MAX_CACHE_BREAKPOINTS, _count_cache_breakpoints(b)})
    BY <1>5, <1>8, <1>9 DEF _count_cache_breakpoints
  <1>13. Ordered(b) => Ordered(f)
    BY <1>5, <1>8, <1>9
  <1>14. _asks_for_1h(f) /\ ~_asks_for_1h(b) => Extends
    BY <1>5, <1>8, <1>9
  <1>15. (IF Modified(b) > 0 THEN 1 ELSE 0) > 0 <=> (Extends /\ Marks(f) # Marks(b))
    <2>1. Extends => Marks(f) = Marks(r)
      BY <1>7, <1>8 DEF Extends
    <2> QED
      BY <1>5, <2>1
  <1>16. CutPays <=> saver.head + saver.tail + MarkerLength(saver.max) <= saver.max
    BY DEF CutPays
  <1>17. Prepared(b).body = f /\ Prepared(b).beta = Extends
    BY <1>4
  <1> QED
    BY <1>8, <1>10, <1>11, <1>12, <1>13, <1>14, <1>15, <1>16, <1>17 DEF ValidFor

LEMMA Optimized ==
    ASSUME NEW body, optimize_data(body)
    PROVE  /\ {"bytes_saved", "requests_ttl_upgraded"} \subseteq DOMAIN saved'
           /\ saved'.bytes_saved = saved.bytes_saved + SumOf(Removed(body))
           /\ saved'.requests_ttl_upgraded
                = saved.requests_ttl_upgraded + IF Modified(body) > 0 THEN 1 ELSE 0
  <1> DEFINE modified == IF Extends THEN _apply_cache_breakpoints(body).modified ELSE 0
             places == IF saver.enabled /\ saver.truncate THEN Cut(body) ELSE {}
             removed == SumOf([p \in DOMAIN TextLengths(body) |->
                          IF p \in places THEN _head_tail_truncate(TextLengths(body)[p]).removed
                          ELSE 0])
  <1>1. \E n, a, s, t :
          saved' = [requests_optimized |-> n,
                    requests_ttl_upgraded |-> saved.requests_ttl_upgraded
                                                + (IF modified > 0 THEN 1 ELSE 0),
                    cache_breakpoints_added |-> a,
                    cache_breakpoints_skipped_full |-> s,
                    tool_results_truncated |-> t,
                    bytes_saved |-> saved.bytes_saved + removed]
    BY DEF optimize_data
  <1>2. modified = Modified(body)
    BY DEF Modified
  <1>3. removed = SumOf(Removed(body))
    BY DEF Removed, CutPlaces
  <1> HIDE DEF modified, removed
  <1> QED
    BY <1>1, <1>2, <1>3

\* The body that waits for its response is the prepared one.
SaverInv ==
    /\ drawn \in DOMAIN Inputs
    /\ saver \in inputs.savers
    /\ {"bytes_saved", "requests_ttl_upgraded"} \subseteq DOMAIN saved
    /\ saved.bytes_saved \in Nat /\ saved.requests_ttl_upgraded \in Nat
    /\ phase = "sent" =>
         ValidFor(saver, original, sent, saved.bytes_saved - earlier.bytes_saved,
                  saved.requests_ttl_upgraded - earlier.requests_ttl_upgraded)

LEMMA SaverInvHolds == Spec => []SaverInv
  <1>1. Init => SaverInv
    BY DEF Init, SaverInv, NothingSaved
  <1>2. SaverInv /\ [Next]_vars => SaverInv'
    <2> SUFFICES ASSUME SaverInv, [Next]_vars PROVE SaverInv'
      OBVIOUS
    <2>1. ASSUME NEW body \in inputs.bodies, Prepare(body) PROVE SaverInv'
      <3>1. /\ original' = body /\ sent' = Prepared(body) /\ earlier' = saved
            /\ optimize_data(body) /\ UNCHANGED <<saver, drawn>> /\ phase' = "sent"
        BY <2>1 DEF Prepare
      <3>2. IsBody(body) /\ \A p \in TextPlaces(body) : NoteGrows(TextLengths(body)[p])
        BY InputsAssumption DEF SaverInv, inputs
      <3>3. IsSaver(saver)
        BY InputsAssumption DEF SaverInv, inputs
      <3>4. PICK bytes \in Nat : bytes = SumOf(Removed(body))
        BY <3>2, <3>3, PreparedIsValid
      <3>5. PICK upgraded \in Nat : upgraded = IF Modified(body) > 0 THEN 1 ELSE 0
        OBVIOUS
      <3>6. ValidFor(saver, body, Prepared(body), bytes, upgraded)
        BY <3>2, <3>3, <3>4, <3>5, PreparedIsValid
      <3>7. /\ {"bytes_saved", "requests_ttl_upgraded"} \subseteq DOMAIN saved'
            /\ saved'.bytes_saved = saved.bytes_saved + bytes
            /\ saved'.requests_ttl_upgraded = saved.requests_ttl_upgraded + upgraded
        BY <3>1, <3>4, <3>5, Optimized
      <3>8. saved.bytes_saved \in Nat /\ saved.requests_ttl_upgraded \in Nat
        BY DEF SaverInv
      <3>9. /\ saved'.bytes_saved \in Nat /\ saved'.requests_ttl_upgraded \in Nat
            /\ saved'.bytes_saved - saved.bytes_saved = bytes
            /\ saved'.requests_ttl_upgraded - saved.requests_ttl_upgraded = upgraded
        BY <3>7, <3>8
      <3>10. ValidFor(saver', original', sent', saved'.bytes_saved - earlier'.bytes_saved,
                      saved'.requests_ttl_upgraded - earlier'.requests_ttl_upgraded)
        BY <3>1, <3>6, <3>9
      <3>11. drawn' \in DOMAIN Inputs /\ saver' \in Inputs[drawn'].savers
        BY <3>1 DEF SaverInv, inputs
      <3> QED
        BY <3>7, <3>9, <3>10, <3>11 DEF SaverInv, inputs
    <2>2. CASE UNCHANGED <<saver, drawn, saved>> /\ phase' # "sent"
      BY <2>2 DEF SaverInv, inputs
    <2>3. ASSUME NEW r \in inputs.requests, Arrive(r)
          PROVE  UNCHANGED <<saver, drawn, saved>> /\ phase' # "sent"
      BY <2>3 DEF Arrive, saverVars
    <2>4. ASSUME NEW r \in inputs.responses, Respond(r)
          PROVE  UNCHANGED <<saver, drawn, saved>> /\ phase' # "sent"
      BY <2>4 DEF Respond, saverVars
    <2>5. ASSUME NEW n \in inputs.chunks, Relay(n)
          PROVE  UNCHANGED <<saver, drawn, saved>> /\ phase' # "sent"
      BY <2>5 DEF Relay, saverVars
    <2>6. ASSUME NEW session \in inputs.sessions, NEW table \in inputs.tables,
                 Finish(session, table)
          PROVE  UNCHANGED <<saver, drawn, saved>> /\ phase' # "sent"
      BY <2>6 DEF Finish, saverVars
    <2>7. Tick => UNCHANGED <<saver, drawn, saved>> /\ phase' # "sent"
      BY DEF Tick, saverVars
    <2>8. CASE Restart
      <3>1. saver' = saver /\ drawn' = drawn /\ saved' = NothingSaved /\ phase' = "idle"
        BY <2>8 DEF Restart
      <3>2. /\ {"bytes_saved", "requests_ttl_upgraded"} \subseteq DOMAIN NothingSaved
            /\ NothingSaved.bytes_saved \in Nat /\ NothingSaved.requests_ttl_upgraded \in Nat
        BY DEF NothingSaved
      <3> QED
        BY <3>1, <3>2 DEF SaverInv, inputs
    <2>9. CASE UNCHANGED <<saver, drawn, saved, phase, original, sent, earlier>>
      BY <2>9 DEF SaverInv, inputs
    <2>10. NextMonth => UNCHANGED <<saver, drawn, saved, phase, original, sent, earlier>>
      BY DEF NextMonth, saverVars
    <2>11. ASSUME NEW q \in inputs.quotas, Configure(q)
           PROVE  UNCHANGED <<saver, drawn, saved, phase, original, sent, earlier>>
      BY <2>11 DEF Configure, saverVars
    <2>12. UNCHANGED vars => UNCHANGED <<saver, drawn, saved, phase, original, sent, earlier>>
      BY DEF vars, saverVars
    <2> QED
      BY <2>1, <2>2, <2>3, <2>4, <2>5, <2>6, <2>7, <2>8, <2>9, <2>10, <2>11, <2>12 DEF Next
  <1> QED
    BY <1>1, <1>2, PTL DEF Spec

(* Whatever body a client sends and whatever the settings: the one that    *)
(* goes out has no more breakpoints than allowed or than the client's had, *)
(* no hour after five minutes where the client's had none, no hour without *)
(* the beta that the client did not ask for, and none under                *)
(* CACHE_FORCE_TTL = 5m; the recent messages are whole, and where the cut  *)
(* pays what is counted as saved is what the texts are shorter by          *)
(* (tokens.py).                                                            *)
THEOREM BodiesRemainValid == Spec => []BodiesStayValid
  <1>1. SaverInv => BodiesStayValid
    <2> SUFFICES ASSUME SaverInv, phase = "sent"
                 PROVE  BodyStaysValid(original, sent,
                                       [k \in DOMAIN saved |-> saved[k] - earlier[k]])
      BY DEF BodiesStayValid
    <2>1. PICK counts : counts = [k \in DOMAIN saved |-> saved[k] - earlier[k]]
      OBVIOUS
    <2>2. /\ counts.bytes_saved = saved.bytes_saved - earlier.bytes_saved
          /\ counts.requests_ttl_upgraded
               = saved.requests_ttl_upgraded - earlier.requests_ttl_upgraded
      BY <2>1 DEF SaverInv
    <2>3. ValidFor(saver, original, sent, counts.bytes_saved, counts.requests_ttl_upgraded)
      BY <2>2 DEF SaverInv
    <2>4. BodyStaysValid(original, sent, counts)
      BY <2>3 DEF ValidFor, BodyStaysValid, CutPays
    <2> QED
      BY <2>1, <2>4
  <1> QED
    BY <1>1, SaverInvHolds, PTL
=============================================================================
