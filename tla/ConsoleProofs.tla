--------------------------- MODULE ConsoleProofs ---------------------------
(***************************************************************************)
(* What holds of the settings, the identity, the secret and the logins     *)
(* around one .env file, for every value of the constants and whatever the *)
(* budgets of a run.                                                       *)
(***************************************************************************)
EXTENDS Console, FiniteSetTheorems, SequenceTheorems, WellFoundedInduction, TLAPS

-----------------------------------------------------------------------------
(* Least and greatest elements.                                            *)

LEMMA LeastOf ==
    ASSUME NEW D \in SUBSET Nat, D # {}
    PROVE  \E d \in D : \A e \in D : d <= e
  <1>1. PICK d \in D : \A e \in D : ~(<<e, d>> \in OpToRel(<, Nat))
    BY NatLessThanWellFounded, WFMin
  <1>2. \A e \in D : ~(e < d)
    BY <1>1 DEF OpToRel
  <1> QED
    BY <1>2

LEMMA GreatestOf ==
    ASSUME NEW n \in Nat, NEW D \in SUBSET 0..n, D # {}
    PROVE  \E d \in D : \A e \in D : e <= d
  <1> DEFINE C == {n - d : d \in D}
  <1>0. \A d \in D : n - d \in Nat /\ d \in Int
    OBVIOUS
  <1>1. C \in SUBSET Nat /\ C # {}
    BY <1>0
  <1>2. PICK c \in C : \A e \in C : c <= e
    BY <1>1, LeastOf
  <1>3. PICK d \in D : c = n - d
    OBVIOUS
  <1>4. \A e \in D : n - d <= n - e
    BY <1>2, <1>3
  <1>5. \A e \in D : e <= d
    BY <1>4
  <1> QED
    BY <1>5

-----------------------------------------------------------------------------
(* The logins.                                                             *)

LoginStep ==
    \/ \E a \in Attempt : BeginLogin(a) \/ WrongToken(a) \/ RightToken(a, secret)
    \/ Tick
    \/ ForgetLogins
    \/ UNCHANGED loginVars

LEMMA LoginSteps == [Next]_vars => LoginStep
  <1> SUFFICES ASSUME [Next]_vars PROVE LoginStep
    OBVIOUS
  <1> USE DEF LoginStep
  <1>1. CASE Start \/ Stop \/ ClockTick \/ NextDay
    BY <1>1 DEF Start, Stop, ClockTick, NextDay
  <1>2. CASE (\E b : Apply(b)) \/ \E d, hs : Request(d, hs)
    BY <1>2 DEF Apply, Request
  <1>3. CASE \E a \in Attempt : Login(a)
    BY <1>3 DEF Login
  <1>4. CASE UNCHANGED vars
    BY <1>4 DEF vars
  <1> QED
    BY <1>1, <1>2, <1>3, <1>4 DEF Next

\* what one run of failures can come to: those that lock the address out, and
\* the attempts that were past the check by then
RunLength == ADMIN_MAX_FAILED + Cardinality(Attempt) - 1

(* The failures counted and the attempts that may still be, together; this *)
(* is what the check before the await is worth.                            *)
CountInv ==
    /\ now \in Nat
    /\ failures \in [count : Nat, first : 0..now]
    /\ failures.count = 0 => failures = NoEntry
    /\ reading \subseteq Attempt
    /\ failures.count + Cardinality(reading) <= RunLength

LEMMA RunLengthPositive == RunLength \in Nat \ {0} /\ Cardinality(Attempt) \in Nat \ {0}
  BY LoginAssumption, FS_CardinalityType, FS_EmptySet DEF RunLength

LEMMA CountStep ==
    ASSUME CountInv, LoginStep
    PROVE  CountInv'
  <1> DEFINE A == Cardinality(Attempt)
             r == Cardinality(reading)
  <1>1. /\ ADMIN_MAX_FAILED \in Nat \ {0} /\ A \in Nat \ {0}
        /\ RunLength = ADMIN_MAX_FAILED + A - 1
    BY LoginAssumption, RunLengthPositive DEF RunLength
  <1>2. /\ IsFiniteSet(reading) /\ r \in Nat
    BY LoginAssumption, FS_Subset, FS_CardinalityType DEF CountInv
  <1>3. \A T \in SUBSET Attempt : IsFiniteSet(T) /\ Cardinality(T) \in Nat /\ Cardinality(T) <= A
    BY LoginAssumption, FS_Subset, FS_CardinalityType
  <1>4. ASSUME NEW a \in Attempt, BeginLogin(a)
        PROVE  CountInv'
    <2>1. reading' \in SUBSET Attempt /\ UNCHANGED now
      BY <1>4 DEF BeginLogin, CountInv
    <2>2. Cardinality(reading') \in Nat /\ Cardinality(reading') <= A
      BY <2>1, <1>3
    <2>3. /\ failures' \in [count : Nat, first : 0..now]
          /\ failures'.count = 0 => failures' = NoEntry
          /\ failures'.count < ADMIN_MAX_FAILED
      BY <1>1, <1>4 DEF BeginLogin, AfterCheck, TooMany, CountInv, NoEntry
    <2> HIDE DEF A
    <2>4. failures'.count + Cardinality(reading') <= RunLength
      BY <1>1, <2>2, <2>3
    <2> QED
      BY <2>1, <2>3, <2>4 DEF CountInv, RunLength
  <1>5. ASSUME NEW a \in Attempt, WrongToken(a)
        PROVE  CountInv'
    <2>1. reading' \in SUBSET Attempt /\ UNCHANGED now
      BY <1>5 DEF WrongToken, CountInv
    <2>2. Cardinality(reading') = r - 1
      BY <1>2, <1>5, FS_RemoveElement DEF WrongToken
    <2>3. r <= A
      BY <1>3 DEF CountInv
    <2>4. /\ failures' \in [count : Nat, first : 0..now]
          /\ failures'.count = 0 => failures' = NoEntry
          /\ failures'.count \in {1, failures.count + 1}
      BY <1>5 DEF WrongToken, _record_admin_failure, CountInv, NoEntry
    <2>5. failures.count \in Nat /\ failures.count + r <= RunLength
      BY DEF CountInv
    <2> HIDE DEF A, r
    <2>6. failures'.count + Cardinality(reading') <= RunLength
      BY <1>1, <1>2, <2>2, <2>3, <2>4, <2>5
    <2> QED
      BY <2>1, <2>4, <2>6 DEF CountInv, RunLength
  <1>6. ASSUME NEW a \in Attempt, RightToken(a, secret)
        PROVE  CountInv'
    <2>1. reading' \in SUBSET Attempt /\ UNCHANGED now /\ failures' = NoEntry
      BY <1>6 DEF RightToken, CountInv
    <2>2. Cardinality(reading') \in Nat /\ Cardinality(reading') <= A
      BY <2>1, <1>3
    <2> HIDE DEF A
    <2>3. Cardinality(reading') <= RunLength
      BY <1>1, <2>2
    <2> QED
      BY <2>1, <2>2, <2>3 DEF CountInv, RunLength, NoEntry
  <1>7. CASE Tick
    BY <1>7 DEF Tick, CountInv, RunLength
  <1>8. CASE ForgetLogins
    <2>1. Cardinality(reading') = 0
      BY <1>8, FS_EmptySet DEF ForgetLogins
    <2> QED
      BY <1>8, <2>1, RunLengthPositive DEF ForgetLogins, CountInv, RunLength, NoEntry
  <1>9. CASE UNCHANGED loginVars
    BY <1>9 DEF loginVars, CountInv, RunLength
  <1> QED
    BY <1>4, <1>5, <1>6, <1>7, <1>8, <1>9 DEF LoginStep

\* guesses is a log: of this process, in order
LogInv ==
    /\ guesses \in Seq(Nat)
    /\ \A i \in DOMAIN guesses : guesses[i] <= now
    /\ \A i, j \in DOMAIN guesses : i <= j => guesses[i] <= guesses[j]

(* S are the places where runs of failures begin: a lockout apart, none    *)
(* longer than RunLength, and the last one is what failures counts; if it  *)
(* counts nothing, the last run has served its time.                       *)
Runs(S) ==
    /\ S \subseteq DOMAIN guesses
    /\ guesses # <<>> => 1 \in S
    /\ \A s, e \in S : s < e => guesses[e] >= guesses[s] + ADMIN_LOCKOUT_SECONDS
    /\ \A s \in S, i \in DOMAIN guesses :
         s <= i /\ (\A e \in S : e <= s \/ i < e) => i - s < RunLength
    /\ failures.count = 0 => \A s \in S : guesses[s] + ADMIN_LOCKOUT_SECONDS <= now
    /\ failures.count # 0 =>
         \E s \in S : /\ guesses[s] = failures.first
                      /\ Len(guesses) + 1 - s = failures.count
                      /\ \A e \in S : e <= s

GuessInv == LogInv /\ \E S : Runs(S)

LEMMA LogStep ==
    ASSUME CountInv, LogInv, LoginStep
    PROVE  LogInv'
  <1>1. now \in Nat
    BY DEF CountInv
  <1>2. ASSUME NEW a \in Attempt, WrongToken(a)
        PROVE  LogInv'
    <2>1. /\ guesses' \in Seq(Nat) /\ Len(guesses') = Len(guesses) + 1
          /\ \A i \in 1..Len(guesses) : guesses'[i] = guesses[i]
          /\ guesses'[Len(guesses) + 1] = now
      BY <1>1, <1>2, AppendProperties DEF WrongToken, LogInv
    <2>2. Len(guesses) \in Nat /\ DOMAIN guesses = 1..Len(guesses)
      BY DEF LogInv
    <2>3. DOMAIN guesses' = 1..(Len(guesses) + 1)
      BY <2>1
    <2>4. now' = now
      BY <1>2 DEF WrongToken
    <2>5. \A i \in DOMAIN guesses' : i \in DOMAIN guesses \/ i = Len(guesses) + 1
      BY <2>2, <2>3
    <2>6. \A i \in DOMAIN guesses' : guesses'[i] <= now
      BY <1>1, <2>1, <2>2, <2>5 DEF LogInv
    <2>7. \A i, j \in DOMAIN guesses' : i <= j => guesses'[i] <= guesses'[j]
      <3>1. ASSUME NEW i \in DOMAIN guesses', NEW j \in DOMAIN guesses', i <= j
            PROVE  guesses'[i] <= guesses'[j]
        <4>1. CASE j = Len(guesses) + 1
          BY <2>1, <2>6, <4>1
        <4>2. CASE j # Len(guesses) + 1
          <5>1. i \in DOMAIN guesses /\ j \in DOMAIN guesses
            BY <2>2, <2>3, <3>1, <4>2
          <5> QED
            BY <2>1, <2>2, <3>1, <5>1 DEF LogInv
        <4> QED
          BY <4>1, <4>2
      <3> QED
        BY <3>1
    <2> QED
      BY <2>1, <2>4, <2>6, <2>7 DEF LogInv
  <1>3. ASSUME guesses' = <<>>
        PROVE  LogInv'
    BY <1>3 DEF LogInv
  <1>4. ASSUME guesses' = guesses, now' \in {now, now + 1}
        PROVE  LogInv'
    <2>1. \A i \in DOMAIN guesses : guesses[i] \in Nat /\ guesses[i] <= now
      BY DEF LogInv
    <2>2. \A i \in DOMAIN guesses : guesses[i] <= now'
      BY <1>1, <1>4, <2>1
    <2> QED
      BY <1>4, <2>2 DEF LogInv
  <1> QED
    BY <1>2, <1>3, <1>4
       DEF LoginStep, BeginLogin, RightToken, Tick, ForgetLogins, loginVars

\* a wrong token continues the run, or begins one
LEMMA RunsGuess ==
    ASSUME CountInv, CountInv', LogInv, LogInv', NEW S, Runs(S),
           NEW a \in Attempt, WrongToken(a)
    PROVE  \E T : Runs(T)'
  <1> DEFINE n == Len(guesses)
             L == ADMIN_LOCKOUT_SECONDS
  <1>1. /\ L \in Nat \ {0} /\ RunLength \in Nat \ {0} /\ now \in Nat /\ n \in Nat
        /\ DOMAIN guesses = 1..n
        /\ failures.count \in Nat /\ failures.first \in Nat
    BY LoginAssumption, RunLengthPositive DEF CountInv, LogInv
  <1>2. /\ n' = n + 1 /\ DOMAIN guesses' = 1..(n + 1)
        /\ \A i \in 1..n : guesses'[i] = guesses[i] /\ guesses[i] \in Nat
        /\ guesses'[n + 1] = now /\ now' = now
        /\ guesses' # <<>>
    <2>1. guesses' = Append(guesses, now) /\ now' = now /\ guesses \in Seq(Nat)
      BY DEF WrongToken, LogInv
    <2> QED
      BY <1>1, <2>1, AppendProperties
  <1>3. RunLength' = RunLength
    BY DEF RunLength
  <1>4. /\ S \subseteq 1..n
        /\ \A s, e \in S : s < e => guesses'[e] >= guesses'[s] + L
        /\ n # 0 => 1 \in S
    BY <1>1, <1>2 DEF Runs
  <1>5. \A s \in S, i \in 1..n : s <= i /\ (\A e \in S : e <= s \/ i < e) => i - s < RunLength
    BY <1>1 DEF Runs
  <1> HIDE DEF n, L
  <1>6. CASE failures = NoEntry \/ now - failures.first > L
    <2>0. PICK T : T = S \cup {n + 1}
      OBVIOUS
    <2>1. failures'.count = 1 /\ failures'.first = now
      BY <1>6 DEF WrongToken, _record_admin_failure, L
    <2>2. \A s \in S : guesses[s] + L <= now
      <3>1. CASE failures.count = 0
        BY <3>1 DEF Runs, L
      <3>2. CASE failures.count # 0
        <4>1. now - failures.first > L
          BY <1>6, <3>2 DEF NoEntry
        <4>2. PICK s \in S : guesses[s] = failures.first /\ \A e \in S : e <= s
          BY <3>2 DEF Runs
        <4>3. \A e \in S : guesses[e] <= guesses[s]
          BY <4>2, <1>1, <1>4 DEF LogInv
        <4> QED
          BY <1>1, <1>2, <1>4, <4>1, <4>2, <4>3
      <3> QED
        BY <3>1, <3>2
    <2>3. T \subseteq 1..(n + 1) /\ 1 \in T
      BY <1>1, <1>4, <2>0
    <2>4. \A s, e \in T : s < e => guesses'[e] >= guesses'[s] + L
      <3>1. ASSUME NEW s \in T, NEW e \in T, s < e
            PROVE  guesses'[e] >= guesses'[s] + L
        <4>1. CASE e \in S
          BY <1>1, <1>4, <2>0, <3>1, <4>1
        <4>2. CASE e = n + 1
          <5>1. s \in S
            BY <1>1, <1>4, <2>0, <3>1, <4>2
          <5> QED
            BY <1>1, <1>2, <1>4, <2>2, <4>2, <5>1
        <4> QED
          BY <2>0, <4>1, <4>2
      <3> QED
        BY <3>1
    <2>5. \A s \in T, i \in 1..(n + 1) :
             s <= i /\ (\A e \in T : e <= s \/ i < e) => i - s < RunLength
      <3>1. ASSUME NEW s \in T, NEW i \in 1..(n + 1), s <= i, \A e \in T : e <= s \/ i < e
            PROVE  i - s < RunLength
        <4>1. CASE i = n + 1
          <5>1. n + 1 \in T /\ s \in 1..(n + 1)
            BY <2>0, <2>3
          <5>2. n + 1 <= s
            BY <1>1, <3>1, <4>1, <5>1
          <5>3. s = n + 1
            BY <1>1, <5>1, <5>2
          <5> QED
            BY <1>1, <4>1, <5>3
        <4>2. CASE i # n + 1
          <5>1. i \in 1..n /\ s \in S
            BY <1>1, <2>0, <3>1, <4>2
          <5> QED
            BY <1>5, <2>0, <3>1, <5>1
        <4> QED
          BY <4>1, <4>2
      <3> QED
        BY <3>1
    <2>6. \A e \in T : e <= n + 1
      BY <1>1, <2>3
    <2>7. n + 1 \in T
      BY <2>0
    <2>8. Len(guesses') + 1 - (n + 1) = 1
      BY <1>1, <1>2 DEF n
    <2>9. \E s \in T : /\ guesses'[s] = failures'.first
                      /\ Len(guesses') + 1 - s = failures'.count
                      /\ \A e \in T : e <= s
      BY <1>2, <2>1, <2>6, <2>7, <2>8
    <2>10. Runs(T)'
      <3>1. T \subseteq DOMAIN guesses' /\ (guesses' # <<>> => 1 \in T)
        BY <1>2, <2>3
      <3>2. \A s, e \in T : s < e => guesses'[e] >= guesses'[s] + ADMIN_LOCKOUT_SECONDS
        BY <2>4 DEF L
      <3>3. \A s \in T, i \in DOMAIN guesses' :
               s <= i /\ (\A e \in T : e <= s \/ i < e) => i - s < RunLength'
        BY <1>2, <1>3, <2>5
      <3>4. failures'.count # 0
        BY <2>1
      <3> QED
        BY <3>1, <3>2, <3>3, <3>4, <2>9 DEF Runs
    <2> QED
      BY <2>10
  <1>7. CASE ~(failures = NoEntry \/ now - failures.first > L)
    <2>1. failures' = [failures EXCEPT !.count = failures.count + 1] /\ failures.count # 0
      BY <1>7 DEF WrongToken, _record_admin_failure, L, CountInv
    <2>2. failures'.count = failures.count + 1 /\ failures'.first = failures.first
      BY <2>1 DEF CountInv
    <2>3. PICK m \in S : /\ guesses[m] = failures.first
                         /\ n + 1 - m = failures.count
                         /\ \A e \in S : e <= m
      BY <2>1 DEF Runs, n
    <2>4. failures'.count <= RunLength
      <3>1. Cardinality(reading') \in Nat
        BY LoginAssumption, FS_Subset, FS_CardinalityType DEF CountInv
      <3>2. failures'.count + Cardinality(reading') <= RunLength /\ failures'.count \in Nat
        BY <1>3 DEF CountInv
      <3> QED
        BY <1>1, <3>1, <3>2
    <2>5. \A s \in S, i \in 1..(n + 1) :
             s <= i /\ (\A e \in S : e <= s \/ i < e) => i - s < RunLength
      <3>1. ASSUME NEW s \in S, NEW i \in 1..(n + 1), s <= i, \A e \in S : e <= s \/ i < e
            PROVE  i - s < RunLength
        <4>1. CASE i = n + 1
          <5>1. s = m
            BY <1>1, <1>4, <2>3, <3>1, <4>1
          <5> QED
            BY <1>1, <1>4, <2>2, <2>3, <2>4, <4>1, <5>1
        <4>2. CASE i # n + 1
          <5>1. i \in 1..n
            BY <1>1, <3>1, <4>2
          <5> QED
            BY <1>5, <3>1, <5>1
        <4> QED
          BY <4>1, <4>2
      <3> QED
        BY <3>1
    <2>6. 1 \in S /\ S \subseteq 1..(n + 1) /\ guesses'[m] = guesses[m]
      BY <1>1, <1>2, <1>4, <2>3
    <2>7. Len(guesses') + 1 - m = failures'.count
      <3>1. Len(guesses') = n + 1 /\ m \in Int
        BY <1>2, <1>4 DEF n
      <3> QED
        BY <1>1, <2>2, <2>3, <3>1
    <2>8. failures'.count # 0
      BY <1>1, <2>2
    <2>9. Runs(S)'
      BY <1>2, <1>3, <1>4, <2>2, <2>3, <2>5, <2>6, <2>7, <2>8 DEF Runs, L
    <2> QED
      BY <2>9
  <1> QED
    BY <1>6, <1>7

LEMMA GuessStep ==
    ASSUME CountInv, CountInv', GuessInv, LoginStep
    PROVE  GuessInv'
  <1>1. LogInv /\ LogInv'
    BY LogStep DEF GuessInv
  <1>2. PICK S : Runs(S)
    BY DEF GuessInv
  <1>3. /\ now \in Nat /\ RunLength' = RunLength
        /\ ADMIN_LOCKOUT_SECONDS \in Nat \ {0} /\ ADMIN_MAX_FAILED \in Nat \ {0}
        /\ failures.count \in Nat /\ failures.first \in Nat
        /\ DOMAIN guesses = 1..Len(guesses)
        /\ \A s \in S : s \in DOMAIN guesses /\ guesses[s] \in Nat
    <2>1. now \in Nat /\ RunLength' = RunLength
      BY DEF CountInv, RunLength
    <2>2. ADMIN_LOCKOUT_SECONDS \in Nat \ {0} /\ ADMIN_MAX_FAILED \in Nat \ {0}
      BY LoginAssumption
    <2>3. failures.count \in Nat /\ failures.first \in Nat
      BY SMTT(30) DEF CountInv
    <2>4. DOMAIN guesses = 1..Len(guesses)
      BY <1>1 DEF LogInv
    <2>5. \A s \in S : s \in DOMAIN guesses /\ guesses[s] \in Nat
      BY <1>1, <1>2, SMTT(30) DEF LogInv, Runs
    <2> QED
      BY <2>1, <2>2, <2>3, <2>4, <2>5
  <1>4. ASSUME NEW a \in Attempt, WrongToken(a)
        PROVE  GuessInv'
    BY <1>1, <1>2, <1>4, RunsGuess DEF GuessInv
  <1>5. ASSUME UNCHANGED guesses, failures' = failures, now' \in {now, now + 1}
        PROVE  GuessInv'
    <2>1. failures.count = 0 => \A s \in S : guesses[s] + ADMIN_LOCKOUT_SECONDS <= now'
      BY <1>2, <1>3, <1>5 DEF Runs
    <2>2. Runs(S)'
      BY <1>2, <1>3, <1>5, <2>1 DEF Runs
    <2> QED
      BY <1>1, <2>2 DEF GuessInv
  <1>6. ASSUME UNCHANGED <<guesses, now>>, failures' = NoEntry, TooMany, Served
        PROVE  GuessInv'
    <2>1. failures.count # 0 /\ failures.first + ADMIN_LOCKOUT_SECONDS <= now
      BY <1>3, <1>6 DEF TooMany, Served
    <2>2. PICK m \in S : guesses[m] = failures.first /\ \A e \in S : e <= m
      BY <1>2, <2>1 DEF Runs
    <2>3. \A s \in S : guesses[s] <= guesses[m]
      BY <1>1, <1>3, <2>2 DEF LogInv
    <2>4. \A s \in S : guesses[s] + ADMIN_LOCKOUT_SECONDS <= now
      BY <1>3, <2>1, <2>2, <2>3
    <2>5. failures'.count = 0
      BY <1>6 DEF NoEntry
    <2>6. Runs(S)'
      BY <1>2, <1>3, <1>6, <2>4, <2>5 DEF Runs
    <2> QED
      BY <1>1, <2>6 DEF GuessInv
  <1>7. ASSUME guesses' = <<>>, failures' = NoEntry
        PROVE  GuessInv'
    <2>1. failures'.count = 0
      BY <1>7 DEF NoEntry
    <2>2. Runs({})'
      BY <1>7, <2>1 DEF Runs
    <2> QED
      BY <1>1, <2>2 DEF GuessInv
  <1>8. ASSUME NEW a \in Attempt, BeginLogin(a)
        PROVE  GuessInv'
    BY <1>3, <1>5, <1>6, <1>8 DEF BeginLogin, AfterCheck
  <1>9. ASSUME NEW a \in Attempt, RightToken(a, secret)
        PROVE  GuessInv'
    BY <1>7, <1>9 DEF RightToken
  <1>10. CASE Tick
    BY <1>3, <1>5, <1>10 DEF Tick
  <1>11. CASE ForgetLogins
    BY <1>7, <1>11 DEF ForgetLogins
  <1>12. CASE UNCHANGED loginVars
    BY <1>3, <1>5, <1>12 DEF loginVars
  <1> QED
    BY <1>4, <1>8, <1>9, <1>10, <1>11, <1>12 DEF LoginStep

\* two runs meet a span of one lockout, and the first without its beginning
LEMMA RunsBound ==
    ASSUME CountInv, GuessInv
    PROVE  GuessesBounded
  <1> DEFINE n == Len(guesses)
             L == ADMIN_LOCKOUT_SECONDS
             R == RunLength
  <1>1. /\ L \in Nat \ {0} /\ R \in Nat \ {0} /\ n \in Nat
        /\ DOMAIN guesses = 1..n
        /\ \A i \in 1..n : guesses[i] \in Nat
        /\ \A i, j \in 1..n : i <= j => guesses[i] <= guesses[j]
    BY LoginAssumption, RunLengthPositive DEF GuessInv, LogInv
  <1>2. PICK S : Runs(S)
    BY DEF GuessInv
  <1>3. /\ S \subseteq 1..n
        /\ n # 0 => 1 \in S
        /\ \A s, e \in S : s < e => guesses[e] >= guesses[s] + L
        /\ \A s \in S, i \in 1..n :
             s <= i /\ (\A e \in S : e <= s \/ i < e) => i - s < R
    BY <1>1, <1>2 DEF Runs
  <1> HIDE DEF n, L, R
  <1>4. ASSUME NEW i \in 1..n
        PROVE  \E s \in S : s <= i /\ i - s < R /\ \A e \in S : e <= s \/ i < e
    <2> DEFINE D == {s \in S : s <= i}
    <2>0. n # 0 /\ 1 <= i /\ \A x \in 1..n : x \in 0..n
      BY <1>1
    <2>1. D \in SUBSET 0..n /\ D # {}
      <3>1. 1 \in D
        BY <1>3, <2>0
      <3> QED
        BY <1>3, <2>0, <3>1
    <2>2. PICK s \in D : \A e \in D : e <= s
      BY <1>1, <2>1, GreatestOf
    <2>3. \A e \in S : e <= s \/ i < e
      BY <1>1, <1>3, <2>2
    <2> QED
      BY <1>3, <2>2, <2>3
  <1>5. ASSUME NEW t \in 0..now, NEW a \in 1..n, NEW b \in 1..n, a <= b,
               guesses[a] >= t, guesses[b] < t + L
        PROVE  b - a + 1 <= 2 * R - 1
    <2>1. PICK s \in S : s <= b /\ b - s < R
      BY <1>4
    <2>2. CASE s <= a
      BY <1>1, <1>3, <2>1, <2>2
    <2>3. CASE a < s
      <3>1. s - 1 \in 1..n
        BY <1>1, <1>3, <2>1, <2>3
      <3>2. PICK r \in S : r <= s - 1 /\ s - 1 - r < R
        BY <3>1, <1>4
      <3>3. guesses[s] >= guesses[r] + L
        BY <1>1, <1>3, <3>2
      <3>4. guesses[s] <= guesses[b]
        BY <1>1, <1>3, <2>1
      <3>5. guesses[r] \in Nat /\ guesses[s] \in Nat /\ guesses[b] \in Nat /\ t \in Int
        BY <1>1, <1>3, CountInv DEF CountInv
      <3>6. guesses[r] < t
        BY <1>1, <1>5, <3>3, <3>4, <3>5, SMTT(30)
      <3>7. ~(a <= r)
        <4>1. a <= r => guesses[a] <= guesses[r]
          BY <1>1, <1>3
        <4> QED
          BY <1>1, <1>5, <3>5, <3>6, <4>1
      <3>8. /\ r \in Int /\ s \in Int /\ b - s <= R - 1 /\ s - 1 - r <= R - 1 /\ r + 1 <= a
        BY <1>1, <1>3, <2>1, <3>2, <3>7
      <3> QED
        BY <1>1, <3>8
    <2> QED
      BY <1>1, <1>3, <2>2, <2>3
  <1>6. ASSUME NEW t \in 0..now
        PROVE  Cardinality({i \in DOMAIN guesses : guesses[i] \in t .. t + L - 1}) <= 2 * R - 1
    <2> DEFINE I == {i \in DOMAIN guesses : guesses[i] \in t .. t + L - 1}
    <2>0. \A x \in 1..n : x \in 0..n /\ x \in Nat
      BY <1>1
    <2>1. I \in SUBSET 0..n /\ I \in SUBSET Nat /\ I \subseteq 1..n
      <3>1. I \subseteq DOMAIN guesses
        OBVIOUS
      <3> HIDE DEF I
      <3> QED
        BY <1>1, <2>0, <3>1
    <2>2. CASE I = {}
      <3>1. Cardinality({}) = 0
        BY FS_EmptySet
      <3>2. 0 <= 2 * R - 1
        BY <1>1
      <3>3. Cardinality(I) <= 2 * R - 1
        <4> HIDE DEF I
        <4> QED
          BY <2>2, <3>1, <3>2
      <3> QED
        BY <3>3
    <2>3. CASE I # {}
      <3>1. PICK a \in I : \A e \in I : a <= e
        BY <2>1, <2>3, LeastOf
      <3>2. PICK b \in I : \A e \in I : e <= b
        BY <1>1, <2>1, <2>3, GreatestOf
      <3>3. /\ a \in 1..n /\ b \in 1..n /\ a <= b /\ guesses[a] >= t /\ guesses[b] < t + L
        <4>1. t \in Int
          BY CountInv DEF CountInv
        <4>2. guesses[a] \in t .. t + L - 1 /\ guesses[b] \in t .. t + L - 1
          BY <3>1, <3>2
        <4> QED
          BY <1>1, <2>1, <3>1, <3>2, <4>1, <4>2
      <3>4. b - a + 1 <= 2 * R - 1
        BY <3>3, <1>5
      <3>5. I \subseteq a..b /\ a \in Int /\ b \in Int
        BY <1>1, <2>1, <3>1, <3>2
      <3> HIDE DEF I
      <3>6. IsFiniteSet(a..b) /\ Cardinality(a..b) = b - a + 1
        BY <3>3, <3>5, FS_Interval
      <3>7. IsFiniteSet(I) /\ Cardinality(I) <= Cardinality(a..b) /\ Cardinality(I) \in Nat
        BY <3>5, <3>6, FS_Subset, FS_CardinalityType
      <3> QED
        BY <1>1, <3>4, <3>5, <3>6, <3>7 DEF I
    <2> QED
      BY <2>2, <2>3
  <1>7. 2 * R - 1 = 2 * (ADMIN_MAX_FAILED + Cardinality(Attempt) - 1) - 1
    BY DEF R, RunLength
  <1> QED
    BY <1>6, <1>7 DEF GuessesBounded, L

LEMMA LoginInvHolds == Spec => [](CountInv /\ GuessInv)
  <1>1. Init => CountInv /\ GuessInv
    <2> SUFFICES ASSUME Init PROVE CountInv /\ GuessInv
      OBVIOUS
    <2>1. now = 0 /\ failures = NoEntry /\ reading = {} /\ guesses = <<>>
      BY DEF Init
    <2>2. CountInv
      BY <2>1, FS_EmptySet, RunLengthPositive DEF CountInv, NoEntry
    <2>3. Runs({}) /\ LogInv
      BY <2>1 DEF Runs, LogInv, NoEntry
    <2> QED
      BY <2>2, <2>3 DEF GuessInv
  <1>2. ASSUME CountInv, GuessInv, LoginStep
        PROVE  (CountInv /\ GuessInv)'
    BY <1>2, CountStep, GuessStep
  <1> QED
    BY <1>1, <1>2, LoginSteps, PTL DEF Spec

(* Of the tokens one address guesses wrongly, no span of a lockout sees    *)
(* more than two runs of ADMIN_MAX_FAILED and those that were past the     *)
(* check of _admin_lockout_remaining while the body was awaited.           *)
THEOREM GuessesAreBounded == Spec => []GuessesBounded
  BY LoginInvHolds, RunsBound, PTL

-----------------------------------------------------------------------------
(* The tables of the settings.                                             *)

LEMMA SettingTables ==
    /\ SettingKeys = {STALL, JMIN, JMAX, REFRESH, CONNECTIONS}
    /\ DOMAIN CONFIG_SPECS = SettingKeys \cup {TOKEN}
    /\ CONFIG_SPECS[TOKEN].scope = "locked"
    /\ {JMIN, JMAX} \subseteq LiveKeys
    /\ LiveKeys \subseteq SettingKeys
    /\ Default \in [SettingKeys -> Int]
    /\ Default[JMIN] <= Default[JMAX]
  <1> USE DEF STALL, JMIN, JMAX, REFRESH, CONNECTIONS, TOKEN
  <1>1. SettingKeys = {STALL, JMIN, JMAX, REFRESH, CONNECTIONS}
    BY DEF SettingKeys, Default
  <1>2. DOMAIN CONFIG_SPECS = SettingKeys \cup {TOKEN}
    BY <1>1 DEF CONFIG_SPECS
  <1>3. /\ CONFIG_SPECS[TOKEN].scope = "locked"
        /\ CONFIG_SPECS[JMIN].scope = "live" /\ CONFIG_SPECS[JMAX].scope = "live"
    BY DEF CONFIG_SPECS
  <1>4. Default \in [SettingKeys -> Int] /\ Default[JMIN] <= Default[JMAX]
    BY <1>1 DEF Default
  <1> QED
    BY <1>1, <1>2, <1>3, <1>4 DEF LiveKeys

\* what .env may hold a value of
FileKeys == SettingKeys \cup Headers \cup {STAMP, SECRET}

LEMMA FileTables ==
    /\ Headers = {"user-agent", "x-app"}
    /\ SettingKeys \cap (Headers \cup {STAMP, SECRET}) = {}
    /\ Headers \cap {STAMP, SECRET} = {} /\ STAMP # SECRET
    /\ DOMAIN CAPTURE_HEADERS = {1, 2} /\ StampAt = 3 /\ SecretAt = 4
  BY SettingTables
     DEF Headers, CAPTURE_HEADERS, STAMP, SECRET, StampAt, SecretAt,
         STALL, JMIN, JMAX, REFRESH, CONNECTIONS

LEMMA CaptureKeys ==
    /\ "user-agent" # "x-app" /\ "user-agent" # STAMP /\ "user-agent" # SECRET
    /\ "x-app" # STAMP /\ "x-app" # SECRET /\ STAMP # SECRET
    /\ "user-agent" \in Headers /\ "x-app" \in Headers
    /\ \A h \in Headers : h = "user-agent" \/ h = "x-app"
  BY FileTables DEF STAMP, SECRET

-----------------------------------------------------------------------------
(* A series of saves.                                                      *)

Series(saves) == \E n \in Nat : DOMAIN saves \subseteq 1..n

(* The value a series leaves a key with is that of the last save of it.    *)
LEMMA LatestIs ==
    ASSUME NEW saves, Series(saves), NEW k \in KeysOf(saves)
    PROVE  \E i \in DOMAIN saves :
             /\ saves[i][1] = k
             /\ \A j \in DOMAIN saves : saves[j][1] = k => j <= i
             /\ Latest(saves, k) = saves[i][2]
  <1> DEFINE P == {i \in DOMAIN saves : saves[i][1] = k}
  <1>1. PICK n \in Nat : DOMAIN saves \subseteq 1..n
    BY DEF Series
  <1>2. P \in SUBSET 0..n /\ P # {}
    BY <1>1 DEF KeysOf
  <1>3. \E x \in P : \A y \in P : y <= x
    BY <1>2, GreatestOf
  <1>4. \E x \in P : \A y \in P : x >= y
    BY <1>2, <1>3
  <1>5. Max(P) \in P /\ \A y \in P : Max(P) >= y
    BY <1>4 DEF Max
  <1>6. \A y \in P : y <= Max(P)
    BY <1>2, <1>5
  <1>7. Latest(saves, k) = saves[Max(P)][2]
    BY DEF Latest
  <1> QED
    BY <1>5, <1>6, <1>7

(* The value is that of this save, when it is the last of its key.         *)
LEMMA LatestOf ==
    ASSUME NEW saves, Series(saves), NEW i \in DOMAIN saves,
           \A j \in DOMAIN saves : saves[j][1] = saves[i][1] => j <= i
    PROVE  Latest(saves, saves[i][1]) = saves[i][2]
  <1>1. saves[i][1] \in KeysOf(saves)
    BY DEF KeysOf
  <1>2. PICK m \in DOMAIN saves :
             /\ saves[m][1] = saves[i][1]
             /\ \A j \in DOMAIN saves : saves[j][1] = saves[i][1] => j <= m
             /\ Latest(saves, saves[i][1]) = saves[m][2]
    BY <1>1, LatestIs
  <1>3. i <= m /\ m <= i /\ i \in Int /\ m \in Int
    BY <1>2 DEF Series
  <1> QED
    BY <1>2, <1>3

(* One save more gives its key a value and leaves the others theirs.       *)
LEMMA OneMore ==
    ASSUME NEW saves, NEW n \in Nat, DOMAIN saves \subseteq 1..n, n \in DOMAIN saves
    PROVE  /\ KeysOf(saves) = KeysOf(Before(saves, n)) \cup {saves[n][1]}
           /\ Latest(saves, saves[n][1]) = saves[n][2]
           /\ \A k \in KeysOf(Before(saves, n)) \ {saves[n][1]} :
                Latest(saves, k) = Latest(Before(saves, n), k)
  <1> DEFINE done == Before(saves, n)
  <1>1. /\ DOMAIN done = DOMAIN saves \ {n}
        /\ \A i \in DOMAIN done : done[i] = saves[i]
    BY DEF Before
  <1>2. KeysOf(saves) = KeysOf(done) \cup {saves[n][1]}
    BY <1>1 DEF KeysOf
  <1>3. Series(saves) /\ Series(done)
    BY <1>1 DEF Series
  <1>4. Latest(saves, saves[n][1]) = saves[n][2]
    BY <1>3, LatestOf
  <1>5. ASSUME NEW k \in KeysOf(done), k # saves[n][1]
        PROVE  Latest(saves, k) = Latest(done, k)
    <2>1. PICK i \in DOMAIN done : done[i][1] = k /\ Latest(done, k) = done[i][2]
                                   /\ \A j \in DOMAIN done : done[j][1] = k => j <= i
      BY <1>3, LatestIs
    <2>2. i \in DOMAIN saves /\ saves[i] = done[i]
          /\ \A j \in DOMAIN saves : saves[j][1] = saves[i][1] => j <= i
      BY <1>1, <1>5, <2>1
    <2>3. Latest(saves, saves[i][1]) = saves[i][2]
      BY <1>3, <2>2, LatestOf
    <2> QED
      BY <2>1, <2>2, <2>3
  <1> QED
    BY <1>2, <1>4, <1>5

(* The file after a series is the file after saving one change after the   *)
(* other.                                                                  *)
THEOREM SavesInTurn ==
    ASSUME NEW saves, NEW n \in Nat, DOMAIN saves \subseteq 1..n, n \in DOMAIN saves
    PROVE  AfterSaves(saves)
             = save_to_env(AfterSaves(Before(saves, n)), saves[n][1], saves[n][2])
  <1> DEFINE done == Before(saves, n)
             file == AfterSaves(done)
             key == saves[n][1]
             value == saves[n][2]
             after == [k \in DOMAIN file \cup {key} |-> IF k = key THEN value ELSE file[k]]
  <1>1. /\ KeysOf(saves) = KeysOf(done) \cup {key}
        /\ Latest(saves, key) = value
        /\ \A k \in KeysOf(done) \ {key} : Latest(saves, k) = Latest(done, k)
    BY OneMore
  <1>2. /\ DOMAIN file = DOMAIN env \cup KeysOf(done)
        /\ \A k \in DOMAIN file : file[k] = IF k \in KeysOf(done) THEN Latest(done, k) ELSE env[k]
    BY DEF AfterSaves
  <1>3. save_to_env(file, key, value) = after
    BY DEF save_to_env
  <1> HIDE DEF done, file, key, value
  <1>4. DOMAIN after = DOMAIN env \cup KeysOf(saves)
    BY <1>1, <1>2
  <1>5. ASSUME NEW k \in DOMAIN env \cup KeysOf(saves)
        PROVE  after[k] = IF k \in KeysOf(saves) THEN Latest(saves, k) ELSE env[k]
    BY <1>1, <1>2, <1>4
  <1>6. AfterSaves(saves) = after
    BY <1>4, <1>5 DEF AfterSaves
  <1> QED
    BY <1>3, <1>6 DEF file, key, value, done

-----------------------------------------------------------------------------
(* What a series of saves leaves: those in done went through, the keys in  *)
(* unsaved have a value in the process that the file lacks.                *)

Outcome(done, unsaved) ==
    \/ /\ env' = AfterSaves(done)
       /\ lost' = (lost \ KeysOf(done)) \cup unsaved
    \/ /\ env' = EmptyFile
       /\ lost' = lost \cup DOMAIN AfterSaves(done) \cup unsaved

LEMMA AllSavedOutcome ==
    ASSUME NEW saves, AllSaved(saves)
    PROVE  Outcome(saves, {})
  BY DEF AllSaved, Outcome

LEMMA SavesFailOutcome ==
    ASSUME NEW saves, NEW n, NEW unsaved, SavesFail(saves, n, unsaved)
    PROVE  Outcome(Before(saves, n), unsaved)
  BY DEF SavesFail, Outcome

\* the file has of k what it had
SameAt(k) ==
    /\ k \in DOMAIN env' <=> k \in DOMAIN env
    /\ k \in DOMAIN env => env'[k] = env[k]

(* A key that is not lost is in the file as it was saved, or as it was.    *)
LEMMA OutcomeAt ==
    ASSUME NEW done, NEW unsaved, Outcome(done, unsaved), NEW k, k \notin lost'
    PROVE  /\ k \notin unsaved
           /\ k \in KeysOf(done) => k \in DOMAIN env' /\ env'[k] = Latest(done, k)
           /\ k \notin KeysOf(done) => k \notin lost /\ SameAt(k)
  <1>1. CASE env' = AfterSaves(done) /\ lost' = (lost \ KeysOf(done)) \cup unsaved
    BY <1>1 DEF AfterSaves, SameAt
  <1>2. CASE env' = EmptyFile /\ lost' = lost \cup DOMAIN AfterSaves(done) \cup unsaved
    <2>1. DOMAIN AfterSaves(done) = DOMAIN env \cup KeysOf(done) /\ DOMAIN env' = {}
      BY <1>2 DEF AfterSaves, EmptyFile
    <2> QED
      BY <1>2, <2>1 DEF SameAt
  <1> QED
    BY <1>1, <1>2 DEF Outcome

(* What is in the file was there, or has been saved.                       *)
LEMMA OutcomeKeys ==
    ASSUME NEW done, NEW unsaved, Outcome(done, unsaved)
    PROVE  /\ DOMAIN env' \subseteq DOMAIN env \cup KeysOf(done)
           /\ lost' \subseteq lost \cup DOMAIN env \cup KeysOf(done) \cup unsaved
           /\ \A k \in DOMAIN env' :
                env'[k] = IF k \in KeysOf(done) THEN Latest(done, k) ELSE env[k]
  <1>0. /\ DOMAIN AfterSaves(done) = DOMAIN env \cup KeysOf(done)
        /\ \A k \in DOMAIN AfterSaves(done) :
             AfterSaves(done)[k] = IF k \in KeysOf(done) THEN Latest(done, k) ELSE env[k]
    BY DEF AfterSaves
  <1>1. CASE env' = AfterSaves(done) /\ lost' = (lost \ KeysOf(done)) \cup unsaved
    BY <1>0, <1>1
  <1>2. CASE env' = EmptyFile /\ lost' = lost \cup DOMAIN AfterSaves(done) \cup unsaved
    <2>1. DOMAIN env' = {}
      BY <1>2 DEF EmptyFile
    <2> QED
      BY <1>0, <1>2, <2>1
  <1> QED
    BY <1>1, <1>2 DEF Outcome

-----------------------------------------------------------------------------
(* The batches.                                                            *)

LEMMA ChangesAre ==
    ASSUME NEW b \in Batches
    PROVE  /\ Len(b) \in Nat /\ DOMAIN b = 1 .. Len(b)
           /\ DOMAIN Changes(b) \subseteq 1 .. Len(b)
           /\ Series(Changes(b))
           /\ \A i \in DOMAIN Changes(b) :
                Changes(b)[i][1] \in SettingKeys /\ Changes(b)[i][2] \in Int
  <1>1. b \in Seq([key : STRING, raw : Int])
    BY BatchesAssumption
  <1>2. Len(b) \in Nat /\ DOMAIN b = 1 .. Len(b) /\ \A i \in DOMAIN b : b[i].raw \in Int
    <2>1. Len(b) \in Nat /\ DOMAIN b = 1 .. Len(b)
      BY <1>1
    <2>2. ASSUME NEW i \in 1 .. Len(b) PROVE b[i] \in [key : STRING, raw : Int]
      BY <1>1, ElementOfSeq
    <2>3. ASSUME NEW i \in DOMAIN b PROVE b[i].raw \in Int
      BY <2>1, <2>2
    <2> QED
      BY <2>1, <2>3
  <1>3. /\ DOMAIN Changes(b) \subseteq {i \in DOMAIN b : Accepted(b[i])}
        /\ \A i \in DOMAIN Changes(b) : Changes(b)[i] = <<b[i].key, b[i].raw>>
    BY DEF Changes
  <1>4. \A i \in DOMAIN Changes(b) : b[i].key \in SettingKeys
    BY <1>3, SettingTables DEF Accepted, Editable
  <1>5. Series(Changes(b))
    BY <1>2, <1>3 DEF Series
  <1> QED
    BY <1>2, <1>3, <1>4, <1>5

\* settings and values of a series are numbers
Numbers(changes) ==
    /\ Series(changes)
    /\ \A i \in DOMAIN changes : changes[i][1] \in SettingKeys /\ changes[i][2] \in Int

LEMMA LatestNumber ==
    ASSUME NEW changes, Numbers(changes)
    PROVE  /\ KeysOf(changes) \subseteq SettingKeys
           /\ \A k \in KeysOf(changes) : Latest(changes, k) \in Int
  <1>1. Series(changes)
    BY DEF Numbers
  <1>2. ASSUME NEW k \in KeysOf(changes) PROVE Latest(changes, k) \in Int
    BY <1>1, LatestIs DEF Numbers
  <1> QED
    BY <1>2 DEF Numbers, KeysOf

LEMMA LiveNumbers ==
    ASSUME NEW changes, Numbers(changes), settings \in [SettingKeys -> Int]
    PROVE  LiveAfter(changes) \in [SettingKeys -> Int]
  BY LatestNumber DEF LiveAfter

(* The jitter bounds are in order once a batch has gone through.           *)
LEMMA SettledInOrder ==
    ASSUME NEW b \in Batches, settings \in [SettingKeys -> Int]
    PROVE  /\ LiveAfter(Changes(b)) \in [SettingKeys -> Int]
           /\ Settled(b) \in [SettingKeys -> Int]
           /\ ~CutShort(b) => Settled(b)[JMIN] <= Settled(b)[JMAX]
           /\ \A k \in SettingKeys \ {JMIN} : Settled(b)[k] = LiveAfter(Changes(b))[k]
  <1>1. LiveAfter(Changes(b)) \in [SettingKeys -> Int]
    BY ChangesAre, LiveNumbers DEF Numbers
  <1>2. JMIN \in SettingKeys /\ JMAX \in SettingKeys /\ JMIN # JMAX
    BY SettingTables DEF JMIN, JMAX
  <1>3. ASSUME NEW s \in [SettingKeys -> Int], NEW changes
        PROVE  /\ Normalised(s, changes) \in [SettingKeys -> Int]
               /\ Normalised(s, changes)[JMIN] <= Normalised(s, changes)[JMAX]
               /\ \A k \in SettingKeys \ {JMIN} : Normalised(s, changes)[k] = s[k]
    BY <1>2 DEF Normalised
  <1> QED
    BY <1>1, <1>3 DEF Settled

(* A batch's saves are its changes and the bound that follows from them.   *)
LEMMA BatchSavesAre ==
    ASSUME NEW b \in Batches, settings \in [SettingKeys -> Int]
    PROVE  /\ Numbers(BatchSaves(b))
           /\ DOMAIN BatchSaves(b) \subseteq 1 .. Len(b) + 1
           /\ Before(BatchSaves(b), Len(b) + 1) = Changes(b)
           /\ \A n \in 1 .. Len(b) : Before(BatchSaves(b), n) = Before(Changes(b), n)
           /\ Settled(b) = LiveAfter(Changes(b)) => BatchSaves(b) = Changes(b)
           /\ Settled(b) # LiveAfter(Changes(b)) =>
                /\ Len(b) + 1 \in DOMAIN BatchSaves(b)
                /\ BatchSaves(b)[Len(b) + 1] = <<JMIN, Settled(b)[JMIN]>>
  <1> DEFINE C == Changes(b)
             S == BatchSaves(b)
             N == Len(b) + 1
             bound == IF Settled(b) = LiveAfter(C) THEN {} ELSE {N}
  <1>1. /\ N \in Nat /\ N - 1 = Len(b) /\ DOMAIN C \subseteq 1 .. Len(b) /\ Len(b) \in Nat
        /\ \A i \in DOMAIN C : C[i][1] \in SettingKeys /\ C[i][2] \in Int
    BY ChangesAre
  <1>2. /\ DOMAIN S = DOMAIN C \cup bound
        /\ \A i \in DOMAIN S : S[i] = IF i \in DOMAIN C THEN C[i] ELSE <<JMIN, Settled(b)[JMIN]>>
    BY DEF BatchSaves
  <1>3. Settled(b)[JMIN] \in Int /\ JMIN \in SettingKeys
    BY SettledInOrder, SettingTables
  <1>4. bound = {} \/ bound = {N}
    OBVIOUS
  <1>5. C = [i \in DOMAIN C |-> C[i]]
    BY DEF Changes
  <1>10. Settled(b) = LiveAfter(C) => S = C
    BY <1>5 DEF BatchSaves
  <1>11. Settled(b) # LiveAfter(C) => bound = {N}
    OBVIOUS
  <1>12. N \notin DOMAIN C
    BY <1>1
  <1> HIDE DEF C, S, N, bound
  <1>6. DOMAIN S \subseteq 1..N /\ Series(S)
    BY <1>1, <1>2, <1>4 DEF Series
  <1>7. Numbers(S)
    BY <1>1, <1>2, <1>3, <1>6 DEF Numbers
  <1>8. ASSUME NEW n \in 1..N
        PROVE  Before(S, n) = [i \in {i \in DOMAIN C : i < n} |-> C[i]]
    <2>1. {i \in DOMAIN S : i < n} = {i \in DOMAIN C : i < n}
      BY <1>1, <1>2, <1>4
    <2>2. \A i \in {i \in DOMAIN C : i < n} : S[i] = C[i]
      BY <1>2
    <2> QED
      BY <2>1, <2>2 DEF Before
  <1>9. Before(S, N) = C
    <2>1. {i \in DOMAIN C : i < N} = DOMAIN C
      <3>1. \A i \in 1 .. Len(b) : i < N
        BY <1>1
      <3> QED
        BY <1>1, <3>1
    <2>2. N \in 1..N
      BY <1>1
    <2>3. Before(S, N) = [i \in {i \in DOMAIN C : i < N} |-> C[i]]
      BY <1>8, <2>2
    <2>4. Before(S, N) = [i \in DOMAIN C |-> C[i]]
      BY <2>1, <2>3
    <2> QED
      BY <1>5, <2>4
  <1>13. Settled(b) # LiveAfter(C) => N \in DOMAIN S /\ S[N] = <<JMIN, Settled(b)[JMIN]>>
    BY <1>2, <1>11, <1>12
  <1>14. \A n \in 1 .. Len(b) : n \in 1..N /\ Before(S, n) = Before(C, n)
    BY <1>1, <1>8 DEF Before
  <1> QED
    BY <1>6, <1>7, <1>9, <1>10, <1>13, <1>14 DEF C, S, N

(* Of a batch, whatever became of it: a live setting is what the series    *)
(* left in the file, or what it was, unless it was set and could not be    *)
(* saved.                                                                  *)
BatchOutcome(done, unsaved) ==
    /\ Outcome(done, unsaved)
    /\ Numbers(done)
    /\ unsaved \subseteq {JMIN}
    /\ settings' \in [SettingKeys -> Int]
    /\ \A k \in LiveKeys \ unsaved :
         settings'[k] = IF k \in KeysOf(done) THEN Latest(done, k) ELSE settings[k]

LEMMA LiveAfterIs ==
    ASSUME NEW changes, NEW k \in LiveKeys
    PROVE  LiveAfter(changes)[k]
             = IF k \in KeysOf(changes) THEN Latest(changes, k) ELSE settings[k]
  BY SettingTables DEF LiveAfter

LEMMA BatchSaved ==
    ASSUME NEW b \in Batches, settings \in [SettingKeys -> Int],
           AllSaved(BatchSaves(b)), settings' = Settled(b)
    PROVE  BatchOutcome(BatchSaves(b), {})
  <1> DEFINE C == Changes(b)
             S == BatchSaves(b)
             N == Len(b) + 1
  <1>1. Outcome(S, {}) /\ settings' = Settled(b)
    BY AllSavedOutcome
  <1>2. Numbers(S)
    BY BatchSavesAre
  <1>3. ASSUME NEW k \in LiveKeys
        PROVE  Settled(b)[k] = IF k \in KeysOf(S) THEN Latest(S, k) ELSE settings[k]
    <2>1. CASE Settled(b) = LiveAfter(C)
      BY <2>1, BatchSavesAre, LiveAfterIs
    <2>2. CASE Settled(b) # LiveAfter(C)
      <3>1. /\ N \in Nat /\ DOMAIN S \subseteq 1..N /\ N \in DOMAIN S
            /\ S[N] = <<JMIN, Settled(b)[JMIN]>> /\ Before(S, N) = C
        BY <2>2, BatchSavesAre, ChangesAre
      <3> HIDE DEF S, N, C
      <3>2. /\ KeysOf(S) = KeysOf(C) \cup {JMIN}
            /\ Latest(S, JMIN) = Settled(b)[JMIN]
            /\ \A x \in KeysOf(C) \ {JMIN} : Latest(S, x) = Latest(C, x)
        BY <3>1, OneMore
      <3>3. k # JMIN => Settled(b)[k] = LiveAfter(C)[k]
        BY SettledInOrder, SettingTables DEF C
      <3> QED
        BY <3>2, <3>3, LiveAfterIs
    <2> QED
      BY <2>1, <2>2
  <1> QED
    BY <1>1, <1>2, <1>3, SettledInOrder DEF BatchOutcome

LEMMA BatchApplied ==
    ASSUME NEW b \in Batches, settings \in [SettingKeys -> Int], ApplyBatch(b)
    PROVE  /\ BatchOutcome(BatchSaves(b), {})
           /\ settings'[JMIN] <= settings'[JMAX]
  BY BatchSaved, SettledInOrder DEF ApplyBatch

\* how a series that may have set a bound is remembered
Remembered(done) == broken' = (broken \/ BoundsLost' \/ Touches(done))

LEMMA BatchRaised ==
    ASSUME NEW b \in Batches, settings \in [SettingKeys -> Int], BatchRaises(b)
    PROVE  BatchOutcome(BatchSaves(b), {}) /\ Remembered(BatchSaves(b))
  BY BatchSaved DEF BatchRaises, Remembered

LEMMA BatchFailed ==
    ASSUME NEW b \in Batches, settings \in [SettingKeys -> Int], BatchFails(b)
    PROVE  \E done, unsaved : BatchOutcome(done, unsaved) /\ Remembered(done)
  <1> DEFINE C == Changes(b)
             S == BatchSaves(b)
             N == Len(b) + 1
  <1>1. PICK n \in DOMAIN S :
             /\ SavesFail(S, n, IF n > Len(b) THEN {JMIN} ELSE {})
             /\ settings' = IF n > Len(b) THEN Settled(b) ELSE LiveAfter(Before(C, n))
             /\ Remembered(Before(S, n))
    BY DEF BatchFails, Remembered
  <1>2. Len(b) \in Nat /\ n \in 1..N
    BY ChangesAre, BatchSavesAre
  <1>3. CASE n = N
    <2>1. SavesFail(S, N, {JMIN}) /\ settings' = Settled(b) /\ Remembered(C)
      BY <1>1, <1>2, <1>3, BatchSavesAre
    <2>2. Outcome(C, {JMIN})
      BY <2>1, SavesFailOutcome, BatchSavesAre
    <2>3. Numbers(C)
      BY ChangesAre DEF Numbers
    <2>4. ASSUME NEW k \in LiveKeys \ {JMIN}
          PROVE  settings'[k] = IF k \in KeysOf(C) THEN Latest(C, k) ELSE settings[k]
      BY <2>1, LiveAfterIs, SettledInOrder, SettingTables
    <2>5. BatchOutcome(C, {JMIN})
      BY <2>1, <2>2, <2>3, <2>4, SettledInOrder DEF BatchOutcome
    <2> QED
      BY <2>1, <2>5
  <1>4. CASE n \in 1 .. Len(b)
    <2> DEFINE D == Before(C, n)
    <2>1. SavesFail(S, n, {}) /\ settings' = LiveAfter(D) /\ Before(S, n) = D /\ Remembered(D)
      BY <1>1, <1>2, <1>4, BatchSavesAre
    <2>2. Outcome(D, {})
      BY <2>1, SavesFailOutcome
    <2>3. Numbers(D)
      BY ChangesAre DEF Numbers, Before, Series
    <2>4. ASSUME NEW k \in LiveKeys
          PROVE  settings'[k] = IF k \in KeysOf(D) THEN Latest(D, k) ELSE settings[k]
      BY <2>1, LiveAfterIs
    <2>5. settings' \in [SettingKeys -> Int]
      BY <2>1, <2>3, LiveNumbers
    <2>6. BatchOutcome(D, {})
      BY <2>2, <2>3, <2>4, <2>5 DEF BatchOutcome
    <2> QED
      BY <2>1, <2>6
  <1> QED
    BY <1>2, <1>3, <1>4

(* A crash leaves what a failed save leaves.                               *)
LEMMA BatchCrashed ==
    ASSUME NEW b \in Batches, settings \in [SettingKeys -> Int], BatchCrashes(b)
    PROVE  \E done : Outcome(done, {}) /\ Numbers(done) /\ Remembered(done)
  <1>1. PICK n \in DOMAIN BatchSaves(b) :
             SavesFail(BatchSaves(b), n, {}) /\ Remembered(Before(BatchSaves(b), n))
    BY DEF BatchCrashes, Remembered
  <1>2. Outcome(Before(BatchSaves(b), n), {})
    BY <1>1, SavesFailOutcome
  <1>3. Numbers(Before(BatchSaves(b), n))
    BY BatchSavesAre DEF Numbers, Before, Series
  <1> QED
    BY <1>1, <1>2, <1>3

-----------------------------------------------------------------------------
(* The captures.                                                           *)

LEMMA CaptureSavesAre ==
    ASSUME NEW d, NEW hs \in HeaderSets
    PROVE  LET C == CaptureSaves(d, hs)
           IN  /\ DOMAIN C \subseteq 1..4 /\ {3, 4} \subseteq DOMAIN C
               /\ 1 \in DOMAIN C => C[1] = <<"user-agent", d>>
               /\ 1 \in DOMAIN C
               /\ 2 \in DOMAIN C <=> "x-app" \in hs
               /\ 2 \in DOMAIN C => C[2] = <<"x-app", d>>
               /\ C[3] = <<STAMP, today>>
               /\ C[4] = <<SECRET, secret>>
               /\ hs \subseteq Headers /\ "user-agent" \in hs
  <1> DEFINE C == CaptureSaves(d, hs)
             D == {i \in DOMAIN CAPTURE_HEADERS : CAPTURE_HEADERS[i] \in hs} \cup {StampAt, SecretAt}
  <1>1. hs \subseteq Headers /\ "user-agent" \in hs
    BY DEF HeaderSets
  <1>2. /\ DOMAIN C = D
        /\ \A i \in D : C[i] = IF i = StampAt THEN <<STAMP, today>>
                               ELSE IF i = SecretAt THEN <<SECRET, secret>>
                               ELSE <<CAPTURE_HEADERS[i], d>>
    BY DEF CaptureSaves
  <1>3. CAPTURE_HEADERS[1] = "user-agent" /\ CAPTURE_HEADERS[2] = "x-app"
    BY DEF CAPTURE_HEADERS
  <1>4. /\ D \subseteq 1..4 /\ {1, 3, 4} \subseteq D
        /\ 2 \in D <=> "x-app" \in hs
    BY <1>1, <1>3, FileTables
  <1> HIDE DEF C, D
  <1>5. C[3] = <<STAMP, today>> /\ C[4] = <<SECRET, secret>>
    BY <1>2, <1>4, FileTables
  <1>6. C[1] = <<"user-agent", d>>
    BY <1>2, <1>3, <1>4, FileTables
  <1>7. 2 \in D => C[2] = <<"x-app", d>>
    BY <1>2, <1>3, FileTables
  <1>8. C = CaptureSaves(d, hs)
    BY DEF C
  <1> QED
    BY <1>1, <1>2, <1>4, <1>5, <1>6, <1>7, <1>8

\* the series of a capture, or what of it went through
CaptureSeries(d, done) ==
    /\ KeysOf(done) \subseteq Headers \cup {STAMP, SECRET}
    /\ \A k \in KeysOf(done) :
         Latest(done, k) = IF k = STAMP THEN today ELSE IF k = SECRET THEN secret ELSE d

LEMMA CaptureSeriesIs ==
    ASSUME NEW d, NEW hs \in HeaderSets, NEW done,
           DOMAIN done \subseteq DOMAIN CaptureSaves(d, hs),
           \A i \in DOMAIN done : done[i] = CaptureSaves(d, hs)[i]
    PROVE  CaptureSeries(d, done)
  <1>1. /\ DOMAIN done \subseteq 1..4
        /\ 1 \in DOMAIN done => done[1] = <<"user-agent", d>>
        /\ 2 \in DOMAIN done => done[2] = <<"x-app", d>>
        /\ 3 \in DOMAIN done => done[3] = <<STAMP, today>>
        /\ 4 \in DOMAIN done => done[4] = <<SECRET, secret>>
    BY CaptureSavesAre
  <1>2. Series(done)
    BY <1>1 DEF Series
  <1>3. \A i \in DOMAIN done :
          /\ done[i][1] \in Headers \cup {STAMP, SECRET}
          /\ done[i][2] = IF done[i][1] = STAMP THEN today
                          ELSE IF done[i][1] = SECRET THEN secret ELSE d
    <2> SUFFICES ASSUME NEW i \in DOMAIN done
                 PROVE  /\ done[i][1] \in Headers \cup {STAMP, SECRET}
                        /\ done[i][2] = IF done[i][1] = STAMP THEN today
                                        ELSE IF done[i][1] = SECRET THEN secret ELSE d
      OBVIOUS
    <2>1. CASE i = 1
      BY <1>1, <2>1, CaptureKeys
    <2>2. CASE i = 2
      BY <1>1, <2>2, CaptureKeys
    <2>3. CASE i = 3
      BY <1>1, <2>3, CaptureKeys
    <2>4. CASE i = 4
      BY <1>1, <2>4, CaptureKeys
    <2> QED
      BY <1>1, <2>1, <2>2, <2>3, <2>4
  <1>4. KeysOf(done) \subseteq Headers \cup {STAMP, SECRET}
    BY <1>3 DEF KeysOf
  <1>5. ASSUME NEW k \in KeysOf(done)
        PROVE  Latest(done, k) = IF k = STAMP THEN today ELSE IF k = SECRET THEN secret ELSE d
    BY <1>2, <1>3, LatestIs
  <1> QED
    BY <1>4, <1>5 DEF CaptureSeries

(* Of a capture, whatever became of it: the identity in memory has the     *)
(* device's value of what the series saved, and its own of what it did not *)
(* touch; the stamp is taken over once it has been saved.                  *)
CaptureOutcome(d, done, unsaved) ==
    /\ Outcome(done, unsaved)
    /\ CaptureSeries(d, done)
    /\ unsaved \subseteq Headers
    /\ DOMAIN captured' \subseteq Headers
    /\ \A h \in DOMAIN captured' \ unsaved :
         \/ h \in KeysOf(done) /\ captured'[h] = d
         \/ h \notin KeysOf(done) /\ h \in DOMAIN captured /\ captured'[h] = captured[h]
    /\ \A h \in DOMAIN captured' :
         captured'[h] = d \/ (h \in DOMAIN captured /\ captured'[h] = captured[h])
    /\ capturedAt' = IF STAMP \in KeysOf(done) THEN today ELSE capturedAt
    /\ isCaptured' \in BOOLEAN
    /\ isCaptured' => "user-agent" \in DOMAIN captured'
    /\ secret' = secret /\ today' = today
    /\ Headers \cap KeysOf(done) \subseteq DOMAIN captured'
    /\ HeadersDropped

LEMMA TakenIs ==
    ASSUME NEW d, NEW hs, NEW days
    PROVE  /\ hs \subseteq DOMAIN Taken(d, hs, days)
           /\ DOMAIN Taken(d, hs, days) \subseteq DOMAIN captured \cup hs
           /\ \A h \in DOMAIN Taken(d, hs, days) :
                Taken(d, hs, days)[h] = IF h \in hs THEN d ELSE captured[h]
  <1>1. CASE Cleared(days) = captured
    BY <1>1 DEF Taken
  <1>2. CASE Cleared(days) = EmptyFile
    <2>1. DOMAIN Cleared(days) = {}
      BY <1>2 DEF EmptyFile
    <2> QED
      BY <2>1 DEF Taken
  <1> QED
    BY <1>1, <1>2 DEF Cleared

LEMMA Captures ==
    ASSUME NEW d \in Device, NEW hs \in HeaderSets, NEW days, Capture(d, hs, days),
           DOMAIN captured \subseteq Headers
    PROVE  CaptureOutcome(d, CaptureSaves(d, hs), {})
  <1> DEFINE C == CaptureSaves(d, hs)
  <1>1. /\ Outcome(C, {})
        /\ captured' = Taken(d, hs, days)
        /\ isCaptured' = TRUE /\ capturedAt' = today /\ secret' = secret /\ today' = today
        /\ HeadersDropped
    BY AllSavedOutcome DEF Capture
  <1>2. CaptureSeries(d, C)
    BY CaptureSeriesIs
  <1>3. KeysOf(C) = hs \cup {STAMP, SECRET}
    <2>1. /\ DOMAIN C \subseteq 1..4 /\ {1, 3, 4} \subseteq DOMAIN C
          /\ C[1][1] = "user-agent" /\ C[3][1] = STAMP /\ C[4][1] = SECRET
          /\ 2 \in DOMAIN C <=> "x-app" \in hs
          /\ 2 \in DOMAIN C => C[2][1] = "x-app"
          /\ hs \subseteq {"user-agent", "x-app"} /\ "user-agent" \in hs
      BY CaptureSavesAre, FileTables
    <2> HIDE DEF C
    <2>2. ASSUME NEW i \in DOMAIN C PROVE C[i][1] \in hs \cup {STAMP, SECRET}
      BY <2>1
    <2>3. ASSUME NEW h \in hs \cup {STAMP, SECRET} PROVE \E i \in DOMAIN C : C[i][1] = h
      BY <2>1
    <2> QED
      BY <2>2, <2>3 DEF KeysOf
  <1>4. hs \subseteq Headers /\ "user-agent" \in hs
    BY CaptureSavesAre
  <1> HIDE DEF C
  <1>5. /\ hs \subseteq DOMAIN captured'
        /\ DOMAIN captured' \subseteq DOMAIN captured \cup hs
        /\ \A h \in DOMAIN captured' : captured'[h] = IF h \in hs THEN d ELSE captured[h]
    BY <1>1, TakenIs
  <1> QED
    BY <1>1, <1>2, <1>3, <1>4, <1>5, CaptureKeys DEF CaptureOutcome, C

LEMMA CaptureFailed ==
    ASSUME NEW d \in Device, NEW hs \in HeaderSets, NEW days, CaptureFails(d, hs, days),
           DOMAIN captured \subseteq Headers
    PROVE  \E done, unsaved : CaptureOutcome(d, done, unsaved)
  <1> DEFINE C == CaptureSaves(d, hs)
             At(n) == {i \in DOMAIN CAPTURE_HEADERS : i <= n}
             Unsaved(n) == {CAPTURE_HEADERS[i] : i \in At(n) \cap {n}}
             Got(n) == hs \cap {CAPTURE_HEADERS[i] : i \in At(n)}
  <1>1. PICK n \in DOMAIN C :
             /\ SavesFail(C, n, Unsaved(n))
             /\ captured' = Taken(d, Got(n), days)
             /\ isCaptured' = (n \in {StampAt, SecretAt})
             /\ capturedAt' = IF n = SecretAt THEN today ELSE capturedAt
    BY DEF CaptureFails
  <1>2. secret' = secret /\ today' = today /\ HeadersDropped
    BY DEF CaptureFails
  <1> DEFINE D == Before(C, n)
             U == Unsaved(n)
             G == Got(n)
  <1>3. Outcome(D, U)
    BY <1>1, SavesFailOutcome
  <1>4. /\ DOMAIN D = {i \in DOMAIN C : i < n}
        /\ \A i \in DOMAIN D : D[i] = C[i]
    BY DEF Before
  <1>5. CaptureSeries(d, D)
    BY <1>4, CaptureSeriesIs
  <1>6. CAPTURE_HEADERS[1] = "user-agent" /\ CAPTURE_HEADERS[2] = "x-app"
    BY DEF CAPTURE_HEADERS
  <1>7. /\ DOMAIN C \subseteq 1..4 /\ {3, 4} \subseteq DOMAIN C /\ 1 \in DOMAIN C
        /\ C[1] = <<"user-agent", d>>
        /\ 2 \in DOMAIN C <=> "x-app" \in hs
        /\ 2 \in DOMAIN C => C[2] = <<"x-app", d>>
        /\ C[3] = <<STAMP, today>> /\ C[4] = <<SECRET, secret>>
        /\ hs \subseteq {"user-agent", "x-app"} /\ "user-agent" \in hs
    BY CaptureSavesAre, FileTables
  <1>8. /\ U \subseteq Headers /\ G \subseteq Headers
        /\ \A h \in G \ U : h \in KeysOf(D)
        /\ \A h \in Headers \cap KeysOf(D) : h \in G
        /\ STAMP \in KeysOf(D) <=> n = 4
        /\ n \in {3, 4} => "user-agent" \in G
    <2>1. At(n) = {i \in {1, 2} : i <= n}
      BY FileTables
    <2>2. n \in 1..4 /\ U \subseteq Headers /\ G \subseteq Headers
      BY <1>6, <1>7, <2>1, CaptureKeys
    <2>3. /\ "user-agent" \in G
          /\ "x-app" \in G <=> "x-app" \in hs /\ 2 <= n
      BY <1>6, <1>7, <2>1, <2>2, CaptureKeys
    <2>4. /\ "user-agent" \in U <=> n = 1
          /\ "x-app" \in U <=> n = 2
      BY <1>6, <2>1, <2>2, CaptureKeys
    <2>5. \A k : k \in KeysOf(D) <=> \E i \in DOMAIN C : i < n /\ C[i][1] = k
      BY <1>4 DEF KeysOf
    <2>6. /\ C[1][1] = "user-agent" /\ C[3][1] = STAMP /\ C[4][1] = SECRET
          /\ 2 \in DOMAIN C => C[2][1] = "x-app"
      BY <1>7
    <2> HIDE DEF C, D, U, G
    <2>7. /\ "user-agent" \in KeysOf(D) <=> 1 < n
          /\ "x-app" \in KeysOf(D) <=> "x-app" \in hs /\ 2 < n
          /\ STAMP \in KeysOf(D) <=> 3 < n
      BY <1>7, <2>2, <2>5, <2>6, CaptureKeys
    <2>8. n = 2 => "x-app" \in hs
      BY <1>1, <1>7 DEF C
    <2> QED
      BY <2>2, <2>3, <2>4, <2>7, <2>8, CaptureKeys
  <1>9. capturedAt' = IF STAMP \in KeysOf(D) THEN today ELSE capturedAt
    BY <1>1, <1>8, FileTables
  <1>10. isCaptured' = (n \in {3, 4}) /\ captured' = Taken(d, G, days)
    BY <1>1, FileTables
  <1> HIDE DEF C, D, U, G
  <1>11. /\ G \subseteq DOMAIN captured'
         /\ DOMAIN captured' \subseteq DOMAIN captured \cup G
         /\ \A h \in DOMAIN captured' : captured'[h] = IF h \in G THEN d ELSE captured[h]
    BY <1>10, TakenIs
  <1>12. CaptureOutcome(d, D, U)
    <2>1. isCaptured' \in BOOLEAN
      BY <1>10
    <2>4. /\ isCaptured' => "user-agent" \in DOMAIN captured'
          /\ Headers \cap KeysOf(D) \subseteq DOMAIN captured'
      BY <1>8, <1>10, <1>11
    <2>2. DOMAIN captured' \subseteq Headers
      BY <1>8, <1>11
    <2>3. ASSUME NEW h \in DOMAIN captured'
          PROVE  /\ captured'[h] = d \/ (h \in DOMAIN captured /\ captured'[h] = captured[h])
                 /\ h \notin U => \/ h \in KeysOf(D) /\ captured'[h] = d
                                  \/ /\ h \notin KeysOf(D)
                                     /\ h \in DOMAIN captured /\ captured'[h] = captured[h]
      BY <1>8, <1>11, <2>2
    <2> QED
      BY <1>2, <1>3, <1>5, <1>8, <1>9, <2>1, <2>2, <2>3, <2>4 DEF CaptureOutcome
  <1> QED
    BY <1>12

LEMMA CaptureCrashed ==
    ASSUME NEW d, NEW hs \in HeaderSets, NEW days, CaptureCrashes(d, hs, days)
    PROVE  \E done : Outcome(done, {}) /\ CaptureSeries(d, done)
  <1>1. PICK n \in DOMAIN CaptureSaves(d, hs) : SavesFail(CaptureSaves(d, hs), n, {})
    BY DEF CaptureCrashes
  <1>2. Outcome(Before(CaptureSaves(d, hs), n), {})
    BY <1>1, SavesFailOutcome
  <1>3. CaptureSeries(d, Before(CaptureSaves(d, hs), n))
    BY CaptureSeriesIs DEF Before
  <1> QED
    BY <1>2, <1>3

-----------------------------------------------------------------------------
(* Types: a capture's day and a secret's number are of the past, in memory *)
(* and in the file.                                                        *)

ValueTyped(k, v) ==
    /\ k \in SettingKeys => v \in Int
    /\ k \in Headers => v \in Device
    /\ k = STAMP => v \in 0..today
    /\ k = SECRET => v \in 0..starts

FileTyped ==
    /\ today \in Nat /\ starts \in Nat
    /\ lost \subseteq FileKeys
    /\ DOMAIN env \subseteq FileKeys
    /\ \A k \in DOMAIN env : ValueTyped(k, env[k])

MemoryTyped ==
    /\ settings \in [SettingKeys -> Int]
    /\ DOMAIN captured \subseteq Headers
    /\ \A h \in DOMAIN captured : captured[h] \in Device
    /\ isCaptured => captured # EmptyFile
    /\ capturedAt \in {NoStamp} \cup 0..today
    /\ secret \in 0..starts
    /\ torn \subseteq {"file", "memory"}
    /\ cleared \subseteq Headers
    /\ broken \in BOOLEAN /\ isCaptured \in BOOLEAN /\ up \in BOOLEAN

ConsoleTypes == FileTyped /\ MemoryTyped

LEMMA FileTypedKept ==
    ASSUME FileTyped, NEW done, NEW unsaved, Outcome(done, unsaved),
           KeysOf(done) \cup unsaved \subseteq FileKeys,
           \A k \in KeysOf(done) : ValueTyped(k, Latest(done, k)),
           today' = today, starts' = starts
    PROVE  FileTyped'
  <1>1. /\ DOMAIN env' \subseteq DOMAIN env \cup KeysOf(done)
        /\ lost' \subseteq lost \cup DOMAIN env \cup KeysOf(done) \cup unsaved
        /\ \A k \in DOMAIN env' :
             env'[k] = IF k \in KeysOf(done) THEN Latest(done, k) ELSE env[k]
    BY OutcomeKeys
  <1>2. lost' \subseteq FileKeys /\ DOMAIN env' \subseteq FileKeys
    BY <1>1 DEF FileTyped
  <1>3. ASSUME NEW k \in DOMAIN env' PROVE ValueTyped(k, env'[k])
    BY <1>1, <1>3 DEF FileTyped
  <1>4. ASSUME NEW k \in DOMAIN env' PROVE ValueTyped(k, env[k])'
    BY <1>3 DEF ValueTyped
  <1>5. FileKeys' = FileKeys
    BY DEF FileKeys
  <1> QED
    BY <1>2, <1>4, <1>5 DEF FileTyped

LEMMA NumbersTyped ==
    ASSUME NEW done, Numbers(done)
    PROVE  /\ KeysOf(done) \subseteq FileKeys
           /\ \A k \in KeysOf(done) : ValueTyped(k, Latest(done, k))
  <1>1. ASSUME NEW k \in KeysOf(done)
        PROVE  k \in SettingKeys /\ k \notin Headers /\ k # STAMP /\ k # SECRET
               /\ Latest(done, k) \in Int
    BY LatestNumber, FileTables
  <1> QED
    BY <1>1 DEF ValueTyped, FileKeys

LEMMA CapturesTyped ==
    ASSUME NEW d \in Device, NEW done, CaptureSeries(d, done), ConsoleTypes
    PROVE  /\ KeysOf(done) \subseteq FileKeys
           /\ \A k \in KeysOf(done) : ValueTyped(k, Latest(done, k))
  <1>1. today \in 0..today /\ secret \in 0..starts
    BY DEF ConsoleTypes, FileTyped, MemoryTyped
  <1>2. ASSUME NEW k \in KeysOf(done)
        PROVE  k \in FileKeys /\ ValueTyped(k, Latest(done, k))
    <2>1. /\ k \in Headers \cup {STAMP, SECRET} /\ k \notin SettingKeys
          /\ Latest(done, k) = IF k = STAMP THEN today ELSE IF k = SECRET THEN secret ELSE d
      BY FileTables DEF CaptureSeries
    <2>2. k \in Headers => k # STAMP /\ k # SECRET
      BY CaptureKeys
    <2> QED
      BY <1>1, <2>1, <2>2, CaptureKeys DEF ValueTyped, FileKeys
  <1> QED
    BY <1>2

(* What a start makes of the file.                                         *)
LEMMA LoadedTyped ==
    ASSUME FileTyped
    PROVE  /\ LoadedSettings \in [SettingKeys -> Int]
           /\ DOMAIN LoadedIdentity = Headers \cap DOMAIN env
           /\ \A h \in DOMAIN LoadedIdentity :
                LoadedIdentity[h] = env[h] /\ LoadedIdentity[h] \in Device
           /\ Headers \cap DOMAIN env # {} <=> LoadedIdentity # EmptyFile
           /\ env_value(STAMP, NoStamp) \in {NoStamp} \cup 0..today
           /\ env_value(SECRET, starts + 1) \in 0 .. starts + 1
  <1>1. ASSUME NEW k \in SettingKeys PROVE env_value(k, Default[k]) \in Int
    BY SettingTables DEF env_value, FileTyped, ValueTyped
  <1>2. LoadedSettings \in [SettingKeys -> Int]
    BY <1>1 DEF LoadedSettings
  <1>3. /\ DOMAIN LoadedIdentity = Headers \cap DOMAIN env
        /\ \A h \in DOMAIN LoadedIdentity : LoadedIdentity[h] = env[h]
    BY DEF LoadedIdentity
  <1>4. \A h \in DOMAIN LoadedIdentity : LoadedIdentity[h] \in Device
    BY <1>3 DEF FileTyped, ValueTyped
  <1>5. DOMAIN EmptyFile = {}
    BY DEF EmptyFile
  <1>6. ASSUME Headers \cap DOMAIN env = {} PROVE LoadedIdentity = EmptyFile
    BY <1>6 DEF LoadedIdentity, EmptyFile
  <1>7. env_value(STAMP, NoStamp) \in {NoStamp} \cup 0..today
    BY DEF env_value, FileTyped, ValueTyped
  <1>8. env_value(SECRET, starts + 1) \in 0 .. starts + 1
    BY DEF env_value, FileTyped, ValueTyped
  <1> QED
    BY <1>2, <1>3, <1>4, <1>5, <1>6, <1>7, <1>8

(* A start leaves the file as it was but for the secret, or empty.         *)
LEMMA Started ==
    ASSUME Start
    PROVE  /\ DOMAIN env' \subseteq DOMAIN env \cup {SECRET}
           /\ lost' \subseteq DOMAIN env \cup {SECRET}
           /\ \A k \in DOMAIN env' : env'[k] = IF k = SECRET THEN secret' ELSE env[k]
           /\ SECRET \notin lost' => SECRET \in DOMAIN env' /\ env'[SECRET] = secret'
           /\ \A k : k \notin lost' /\ k # SECRET => SameAt(k)
           /\ (\A k : k # SECRET => SameAt(k)) \/ DOMAIN env' = {}
  <1>0. secret' = IF SECRET \in DOMAIN env THEN env[SECRET] ELSE starts + 1
    BY DEF Start, StartMemory, env_value
  <1>1. CASE SecretSaved
    <2>1. CASE SECRET \in DOMAIN env
      BY <1>0, <1>1, <2>1 DEF SecretSaved, SecretGenerated, SameAt
    <2>2. CASE SECRET \notin DOMAIN env
      <3>1. /\ DOMAIN env' = DOMAIN env \cup {SECRET} /\ lost' = {}
            /\ \A k \in DOMAIN env' : env'[k] = IF k = SECRET THEN secret' ELSE env[k]
        BY <1>1, <2>2 DEF SecretSaved, SecretGenerated, save_to_env
      <3> QED
        BY <2>2, <3>1 DEF SameAt
    <2> QED
      BY <2>1, <2>2
  <1>2. CASE SecretUnsaved
    <2>1. SECRET \notin DOMAIN env
      BY <1>2 DEF SecretUnsaved, SecretGenerated
    <2>2. CASE env' = env /\ lost' = {SECRET}
      BY <2>1, <2>2 DEF SameAt
    <2>3. CASE env' = EmptyFile /\ lost' = {SECRET} \cup DOMAIN env
      <3>1. DOMAIN env' = {}
        BY <2>3 DEF EmptyFile
      <3> QED
        BY <2>1, <2>3, <3>1 DEF SameAt
    <2> QED
      BY <1>2, <2>2, <2>3 DEF SecretUnsaved
  <1> QED
    BY <1>1, <1>2 DEF Start

LEMMA TypesStart ==
    ASSUME ConsoleTypes, Start
    PROVE  ConsoleTypes'
  <1>0. FileTyped /\ MemoryTyped
    BY DEF ConsoleTypes
  <1>1. /\ settings' = LoadedSettings /\ captured' = LoadedIdentity
        /\ isCaptured' = (Headers \cap DOMAIN env # {})
        /\ capturedAt' = env_value(STAMP, NoStamp)
        /\ starts' = starts + 1
        /\ secret' = env_value(SECRET, starts + 1)
        /\ torn' = IF "file" \in torn THEN {"file", "memory"} ELSE {}
        /\ cleared' = {}
        /\ today' = today
        /\ up' = TRUE
        /\ broken' = (broken \/ BoundsLost')
    BY DEF Start, StartMemory
  <1>2. MemoryTyped'
    <2>1. broken' \in BOOLEAN /\ isCaptured' \in BOOLEAN /\ up' \in BOOLEAN
      BY <1>0, <1>1 DEF MemoryTyped
    <2>2. torn' \subseteq {"file", "memory"} /\ cleared' \subseteq Headers
      BY <1>1
    <2>3. /\ settings' \in [SettingKeys -> Int]
          /\ DOMAIN captured' \subseteq Headers
          /\ \A h \in DOMAIN captured' : captured'[h] \in Device
          /\ isCaptured' => captured' # EmptyFile
          /\ capturedAt' \in {NoStamp} \cup 0 .. today'
          /\ secret' \in 0 .. starts'
      BY <1>0, <1>1, LoadedTyped
    <2> QED
      BY <2>1, <2>2, <2>3 DEF MemoryTyped, EmptyFile, Headers
  <1>3. FileTyped'
    <2>1. /\ DOMAIN env' \subseteq DOMAIN env \cup {SECRET}
          /\ lost' \subseteq DOMAIN env \cup {SECRET}
          /\ \A k \in DOMAIN env' : env'[k] = IF k = SECRET THEN secret' ELSE env[k]
      BY Started
    <2>2. today' \in Nat /\ starts' \in Nat /\ 0..starts \subseteq 0..starts'
      BY <1>0, <1>1 DEF FileTyped
    <2>3. DOMAIN env' \subseteq FileKeys /\ lost' \subseteq FileKeys
      BY <1>0, <2>1 DEF FileTyped, FileKeys
    <2>4. ASSUME NEW k \in DOMAIN env' PROVE ValueTyped(k, env[k])'
      <3>1. CASE k = SECRET
        <4>1. env'[k] \in 0..starts' /\ k \notin SettingKeys /\ k \notin Headers /\ k # STAMP
          BY <1>0, <1>1, <2>1, <3>1, LoadedTyped, FileTables
        <4> QED
          BY <4>1 DEF ValueTyped
      <3>2. CASE k # SECRET
        <4>1. ValueTyped(k, env[k]) /\ env'[k] = env[k]
          BY <1>0, <2>1, <3>2 DEF FileTyped
        <4> QED
          BY <1>1, <3>2, <4>1 DEF ValueTyped
      <3> QED
        BY <3>1, <3>2
    <2>5. FileKeys' = FileKeys
      BY DEF FileKeys
    <2> QED
      BY <2>2, <2>3, <2>4, <2>5 DEF FileTyped
  <1> QED
    BY <1>2, <1>3 DEF ConsoleTypes

LEMMA TypesApply ==
    ASSUME ConsoleTypes, NEW b \in Batches, Apply(b)
    PROVE  ConsoleTypes'
  <1>0. FileTyped /\ MemoryTyped
    BY DEF ConsoleTypes
  <1>1. /\ settings \in [SettingKeys -> Int]
        /\ UNCHANGED identityVars /\ starts' = starts
        /\ today' = today
    BY <1>0 DEF Apply, MemoryTyped, identityVars
  <1>2. JMIN \in FileKeys
    BY SettingTables DEF FileKeys
  <1>3. /\ \E done, unsaved : Outcome(done, unsaved) /\ Numbers(done) /\ unsaved \subseteq {JMIN}
        /\ settings' \in [SettingKeys -> Int]
        /\ broken' \in BOOLEAN /\ up' \in BOOLEAN
    <2>1. CASE ApplyBatch(b) /\ UNCHANGED up
      <3>1. BatchOutcome(BatchSaves(b), {})
        BY <1>1, <2>1, BatchApplied
      <3>2. broken' \in BOOLEAN /\ up' \in BOOLEAN
        BY <1>0, <2>1 DEF ApplyBatch, BoundsLost, MemoryTyped
      <3>3. /\ Outcome(BatchSaves(b), {}) /\ Numbers(BatchSaves(b))
            /\ settings' \in [SettingKeys -> Int]
        BY <3>1 DEF BatchOutcome
      <3> QED
        BY <3>2, <3>3
    <2>2. CASE (BatchRaises(b) \/ BatchFails(b)) /\ UNCHANGED up
      <3>1. PICK done, unsaved : BatchOutcome(done, unsaved) /\ Remembered(done)
        BY <1>1, <2>2, BatchRaised, BatchFailed
      <3>2. broken' \in BOOLEAN /\ up' \in BOOLEAN
        BY <1>0, <2>2, <3>1 DEF Remembered, MemoryTyped
      <3> QED
        BY <3>1, <3>2 DEF BatchOutcome
    <2>3. CASE BatchCrashes(b) /\ up' = FALSE /\ UNCHANGED settings
      <3>1. PICK made : Outcome(made, {}) /\ Numbers(made) /\ Remembered(made)
        BY <1>1, <2>3, BatchCrashed
      <3>2. broken' \in BOOLEAN /\ up' \in BOOLEAN /\ settings' \in [SettingKeys -> Int]
        BY <1>0, <1>1, <2>3, <3>1 DEF Remembered, MemoryTyped
      <3>3. \E done, unsaved : Outcome(done, unsaved) /\ Numbers(done) /\ unsaved \subseteq {JMIN}
        BY <3>1
      <3> QED
        BY <3>2, <3>3
    <2> QED
      BY <2>1, <2>2, <2>3 DEF Apply
  <1>4. FileTyped'
    <2>1. PICK done, unsaved : Outcome(done, unsaved) /\ Numbers(done) /\ unsaved \subseteq {JMIN}
      BY <1>3
    <2> QED
      BY <1>0, <1>1, <1>2, <2>1, NumbersTyped, FileTypedKept
  <1>5. MemoryTyped'
    BY <1>0, <1>1, <1>3 DEF MemoryTyped, identityVars, EmptyFile, Headers
  <1> QED
    BY <1>4, <1>5 DEF ConsoleTypes

LEMMA TypesRequest ==
    ASSUME ConsoleTypes, NEW d \in Device, NEW hs \in HeaderSets, Request(d, hs)
    PROVE  ConsoleTypes'
  <1>0. FileTyped /\ MemoryTyped
    BY DEF ConsoleTypes
  <1>1. /\ settings' = settings /\ broken' = (broken \/ BoundsLost') /\ starts' = starts
        /\ DOMAIN captured \subseteq Headers
    BY <1>0 DEF Request, OthersSaved, MemoryTyped
  <1>2. CASE /\ Capture(d, hs, settings[REFRESH]) \/ CaptureFails(d, hs, settings[REFRESH])
             /\ UNCHANGED <<loginVars, up>>
    <2>1. PICK done, unsaved : CaptureOutcome(d, done, unsaved)
      BY <1>1, <1>2, Captures, CaptureFailed
    <2>2. torn' \subseteq {"file", "memory"}
      BY <1>2 DEF Capture, CaptureFails, TornAfterCapture
    <2>5. cleared' \subseteq Headers
      BY <1>0, <1>1, <2>1 DEF CaptureOutcome, HeadersDropped, MemoryTyped
    <2>3. FileTyped'
      <3>1. Outcome(done, unsaved) /\ CaptureSeries(d, done) /\ unsaved \subseteq FileKeys /\ today' = today
        BY <2>1 DEF CaptureOutcome, FileKeys
      <3> QED
        BY <1>0, <1>1, <3>1, CapturesTyped, FileTypedKept
    <2>4. MemoryTyped'
      <3>1. /\ DOMAIN captured' \subseteq Headers
            /\ isCaptured' \in BOOLEAN
            /\ isCaptured' => "user-agent" \in DOMAIN captured'
            /\ secret' = secret /\ today' = today
            /\ capturedAt' = IF STAMP \in KeysOf(done) THEN today ELSE capturedAt
        BY <2>1 DEF CaptureOutcome
      <3>2. \A h \in DOMAIN captured' : captured'[h] \in Device
        BY <1>0, <2>1 DEF CaptureOutcome, MemoryTyped
      <3>3. isCaptured' => captured' # EmptyFile
        BY <3>1 DEF EmptyFile
      <3>4. capturedAt' \in {NoStamp} \cup 0..today
        BY <1>0, <3>1 DEF MemoryTyped, FileTyped
      <3>5. broken' \in BOOLEAN /\ up' \in BOOLEAN
        BY <1>0, <1>1, <1>2 DEF MemoryTyped
      <3> QED
        BY <1>0, <1>1, <2>2, <2>5, <3>1, <3>2, <3>3, <3>4, <3>5
           DEF MemoryTyped, EmptyFile, Headers
    <2> QED
      BY <2>3, <2>4 DEF ConsoleTypes
  <1>3. CASE /\ CaptureCrashes(d, hs, settings[REFRESH])
             /\ up' = FALSE
             /\ UNCHANGED <<captured, isCaptured, capturedAt, secret, today, cleared>>
    <2>1. PICK done : Outcome(done, {}) /\ CaptureSeries(d, done)
      BY <1>3, CaptureCrashed
    <2>2. FileTyped'
      BY <1>0, <1>1, <1>3, <2>1, CapturesTyped, FileTypedKept
    <2>3. torn' \subseteq {"file", "memory"} /\ broken' \in BOOLEAN /\ up' \in BOOLEAN
      BY <1>0, <1>1, <1>3 DEF CaptureCrashes, MemoryTyped
    <2>4. MemoryTyped'
      BY <1>0, <1>1, <1>3, <2>3 DEF MemoryTyped, EmptyFile, Headers
    <2> QED
      BY <2>2, <2>4 DEF ConsoleTypes
  <1> QED
    BY <1>2, <1>3 DEF Request

LEMMA TypesStep == ConsoleTypes /\ [Next]_vars => ConsoleTypes'
  <1> SUFFICES ASSUME ConsoleTypes, [Next]_vars PROVE ConsoleTypes'
    OBVIOUS
  <1> DEFINE Still == UNCHANGED <<envVars, configVars, captured, isCaptured, capturedAt, secret, torn, cleared,
                              starts>>
  <1>1. ASSUME Still, today' = today \/ today' = today + 1, up' \in BOOLEAN
        PROVE  ConsoleTypes'
    <2>1. /\ env' = env /\ lost' = lost /\ settings' = settings /\ broken' = broken
          /\ captured' = captured /\ isCaptured' = isCaptured /\ capturedAt' = capturedAt
          /\ secret' = secret /\ torn' = torn /\ cleared' = cleared /\ starts' = starts
      BY <1>1 DEF envVars, configVars
    <2>2. today \in Nat /\ today' \in Nat /\ 0..today \subseteq 0..today'
      BY <1>1 DEF ConsoleTypes, FileTyped
    <2>3. FileTyped'
      <3>1. ASSUME NEW k \in DOMAIN env PROVE ValueTyped(k, env[k])'
        <4>1. ValueTyped(k, env[k])
          BY DEF ConsoleTypes, FileTyped
        <4> QED
          BY <2>1, <2>2, <4>1 DEF ValueTyped
      <3>2. FileKeys' = FileKeys
        BY DEF FileKeys
      <3> QED
        BY <2>1, <2>2, <3>1, <3>2 DEF ConsoleTypes, FileTyped
    <2>4. MemoryTyped'
      <3>1. capturedAt' \in {NoStamp} \cup 0..today'
        BY <2>1, <2>2 DEF ConsoleTypes, MemoryTyped
      <3> QED
        BY <1>1, <2>1, <3>1 DEF ConsoleTypes, MemoryTyped, EmptyFile, Headers
    <2> QED
      BY <2>3, <2>4 DEF ConsoleTypes
  <1>2. up \in BOOLEAN
    BY DEF ConsoleTypes, MemoryTyped
  <1>3. CASE Stop \/ (\E a \in Attempt : Login(a)) \/ ClockTick
    BY <1>1, <1>2, <1>3 DEF Stop, Login, ClockTick, identityVars
  <1>4. CASE NextDay
    BY <1>1, <1>2, <1>4 DEF NextDay, Midnight
  <1>5. CASE UNCHANGED vars
    BY <1>1, <1>2, <1>5 DEF vars, identityVars, consoleVars
  <1> QED
    BY <1>3, <1>4, <1>5, TypesStart, TypesApply, TypesRequest DEF Next

LEMMA TypesInit == Init => ConsoleTypes
  <1> SUFFICES ASSUME Init PROVE ConsoleTypes
    OBVIOUS
  <1>1. /\ env \in InitialFiles /\ lost = {} /\ settings = Default /\ captured = EmptyFile
        /\ isCaptured = FALSE /\ capturedAt = NoStamp /\ secret = 0 /\ today = 0 /\ starts = 0
        /\ torn \subseteq {"file", "memory"} /\ up = FALSE /\ cleared = {}
        /\ broken \in BOOLEAN
    BY DEF Init, BoundsInverted
  <1>2. FileTyped
    <2>1. DOMAIN env \subseteq FileKeys
      BY <1>1, FilesAssumption DEF FileKeys
    <2>2. ASSUME NEW k \in DOMAIN env PROVE ValueTyped(k, env[k])
      BY <1>1, FilesAssumption DEF ValueTyped
    <2> QED
      BY <1>1, <2>1, <2>2 DEF FileTyped
  <1>3. DOMAIN captured = {}
    BY <1>1 DEF EmptyFile
  <1>4. MemoryTyped
    <2>1. settings \in [SettingKeys -> Int] /\ capturedAt \in {NoStamp} \cup 0..today /\ secret \in 0..starts
      BY <1>1, SettingTables
    <2>2. isCaptured \in BOOLEAN /\ up \in BOOLEAN /\ (isCaptured => captured # EmptyFile)
      BY <1>1
    <2> QED
      BY <1>1, <1>3, <2>1, <2>2 DEF MemoryTyped
  <1> QED
    BY <1>2, <1>4 DEF ConsoleTypes

-----------------------------------------------------------------------------
(* What is in the file and what is in memory.                              *)

(* RestartChangesNothing, and of the stamp whether or not the identity is  *)
(* in force: a capture that failed on its last save has the stamp in the   *)
(* file and not in memory, and that key is lost only if the file was       *)
(* emptied.                                                                *)
KeptInv ==
    up =>
      /\ \A k \in LiveKeys \ lost : settings[k] = env_value(k, Default[k])
      /\ \A h \in DOMAIN captured \ lost : h \in DOMAIN env /\ env[h] = captured[h]
      /\ (Headers \cap DOMAIN env) \ DOMAIN captured \subseteq cleared
      /\ Headers \cap DOMAIN env # {} /\ "memory" \notin torn => isCaptured
      /\ STAMP \notin lost => capturedAt = env_value(STAMP, NoStamp)
      /\ SECRET \notin lost => secret = env_value(SECRET, -1)

LEMMA SameValue ==
    ASSUME NEW k, NEW v, SameAt(k)
    PROVE  (IF k \in DOMAIN env' THEN env'[k] ELSE v) = env_value(k, v)
  BY DEF SameAt, env_value

LEMMA KeptStart ==
    ASSUME ConsoleTypes, Start
    PROVE  KeptInv'
  <1>1. /\ settings' = LoadedSettings /\ captured' = LoadedIdentity
        /\ capturedAt' = env_value(STAMP, NoStamp)
    BY DEF Start, StartMemory
  <1>2. \A k : k \notin lost' /\ k # SECRET => SameAt(k)
    BY Started
  <1>3. ASSUME NEW k \in LiveKeys \ lost' PROVE settings'[k] = env_value(k, Default[k])'
    <2>1. k # SECRET /\ settings'[k] = env_value(k, Default[k])
      BY <1>1, SettingTables, FileTables DEF LoadedSettings
    <2>2. SameAt(k)
      BY <1>2, <2>1
    <2> QED
      BY <2>1, <2>2, SameValue DEF env_value
  <1>4. ASSUME NEW h \in DOMAIN captured' \ lost'
        PROVE  h \in DOMAIN env' /\ env'[h] = captured'[h]
    <2>1. h \in Headers \cap DOMAIN env /\ captured'[h] = env[h]
      BY <1>1, LoadedTyped DEF ConsoleTypes
    <2>2. h # SECRET
      BY <2>1, CaptureKeys
    <2> QED
      BY <1>2, <2>1, <2>2 DEF SameAt
  <1>7. /\ (Headers \cap DOMAIN env') \ DOMAIN captured' \subseteq cleared'
        /\ Headers \cap DOMAIN env' # {} => isCaptured'
    <2>1. /\ DOMAIN captured' = Headers \cap DOMAIN env
          /\ isCaptured' = (Headers \cap DOMAIN env # {})
      BY LoadedTyped DEF Start, StartMemory, ConsoleTypes
    <2>2. Headers \cap DOMAIN env' \subseteq Headers \cap DOMAIN env
      BY Started, CaptureKeys
    <2> QED
      BY <2>1, <2>2
  <1>5. STAMP \notin lost' => capturedAt' = env_value(STAMP, NoStamp)'
    <2> SUFFICES ASSUME STAMP \notin lost' PROVE capturedAt' = env_value(STAMP, NoStamp)'
      OBVIOUS
    <2>1. SameAt(STAMP)
      BY <1>2, CaptureKeys
    <2> QED
      BY <1>1, <2>1, SameValue DEF env_value
  <1>6. SECRET \notin lost' => secret' = env_value(SECRET, -1)'
    BY Started DEF env_value
  <1> QED
    BY <1>3, <1>4, <1>5, <1>6, <1>7 DEF KeptInv, Headers

LEMMA KeptApply ==
    ASSUME ConsoleTypes, KeptInv, NEW b \in Batches, Apply(b)
    PROVE  KeptInv'
  <1>1. CASE up' = FALSE
    BY <1>1 DEF KeptInv
  <1>2. CASE ApplyBatch(b) \/ BatchRaises(b) \/ BatchFails(b)
    <2>0. settings \in [SettingKeys -> Int] /\ DOMAIN captured \subseteq Headers
      BY DEF ConsoleTypes, MemoryTyped
    <2>1. PICK done, unsaved : BatchOutcome(done, unsaved)
      BY <1>2, <2>0, BatchApplied, BatchRaised, BatchFailed
    <2>2. /\ Outcome(done, unsaved) /\ KeysOf(done) \subseteq SettingKeys
          /\ \A k \in LiveKeys \ unsaved :
               settings'[k] = IF k \in KeysOf(done) THEN Latest(done, k) ELSE settings[k]
      BY <2>1, LatestNumber DEF BatchOutcome
    <2>3. /\ up /\ captured' = captured /\ capturedAt' = capturedAt /\ secret' = secret
          /\ isCaptured' = isCaptured /\ torn' = torn /\ cleared' = cleared
      BY DEF Apply, identityVars
    <2>9. /\ (Headers \cap DOMAIN env') \ DOMAIN captured' \subseteq cleared'
          /\ Headers \cap DOMAIN env' # {} /\ "memory" \notin torn' => isCaptured'
      <3>1. Headers \cap DOMAIN env' \subseteq Headers \cap DOMAIN env
        BY <2>2, OutcomeKeys, FileTables
      <3> QED
        BY <2>3, <3>1 DEF KeptInv
    <2>4. ASSUME NEW k, k \in Headers \cup {STAMP, SECRET}, k \notin lost'
          PROVE  k \notin lost /\ SameAt(k)
      <3>1. k \notin KeysOf(done)
        BY <2>2, <2>4, FileTables
      <3> QED
        BY <2>2, <2>4, <3>1, OutcomeAt
    <2>5. ASSUME NEW k \in LiveKeys \ lost' PROVE settings'[k] = env_value(k, Default[k])'
      <3>1. k \notin unsaved
        BY <2>2, OutcomeAt
      <3>2. CASE k \in KeysOf(done)
        <4>1. k \in DOMAIN env' /\ env'[k] = Latest(done, k)
          BY <2>2, <3>2, OutcomeAt
        <4> QED
          BY <2>2, <3>1, <3>2, <4>1 DEF env_value
      <3>3. CASE k \notin KeysOf(done)
        <4>1. k \notin lost /\ SameAt(k)
          BY <2>2, <3>3, OutcomeAt
        <4>2. settings'[k] = env_value(k, Default[k])
          BY <2>2, <2>3, <3>1, <3>3, <4>1 DEF KeptInv
        <4> QED
          BY <4>1, <4>2, SameValue DEF env_value
      <3> QED
        BY <3>2, <3>3
    <2>6. ASSUME NEW h \in DOMAIN captured' \ lost'
          PROVE  h \in DOMAIN env' /\ env'[h] = captured'[h]
      BY <2>0, <2>3, <2>4 DEF KeptInv, SameAt
    <2>7. ASSUME STAMP \notin lost' PROVE capturedAt' = env_value(STAMP, NoStamp)'
      <3>1. STAMP \notin lost /\ SameAt(STAMP)
        BY <2>4, <2>7
      <3> QED
        BY <2>3, <3>1, SameValue DEF KeptInv, env_value
    <2>8. ASSUME SECRET \notin lost' PROVE secret' = env_value(SECRET, -1)'
      <3>1. SECRET \notin lost /\ SameAt(SECRET)
        BY <2>4, <2>8
      <3> QED
        BY <2>3, <3>1, SameValue DEF KeptInv, env_value
    <2> QED
      BY <2>5, <2>6, <2>7, <2>8, <2>9 DEF KeptInv, Headers
  <1> QED
    BY <1>1, <1>2 DEF Apply

LEMMA KeptRequest ==
    ASSUME ConsoleTypes, KeptInv, NEW d \in Device, NEW hs \in HeaderSets, Request(d, hs)
    PROVE  KeptInv'
  <1>1. CASE up' = FALSE
    BY <1>1 DEF KeptInv
  <1>2. CASE Capture(d, hs, settings[REFRESH]) \/ CaptureFails(d, hs, settings[REFRESH])
    <2>0. DOMAIN captured \subseteq Headers
      BY DEF ConsoleTypes, MemoryTyped
    <2>1. PICK done, unsaved : CaptureOutcome(d, done, unsaved)
      BY <1>2, <2>0, Captures, CaptureFailed
    <2>2. /\ Outcome(done, unsaved)
          /\ KeysOf(done) \subseteq Headers \cup {STAMP, SECRET}
          /\ \A k \in KeysOf(done) :
               Latest(done, k) = IF k = STAMP THEN today ELSE IF k = SECRET THEN secret ELSE d
          /\ DOMAIN captured' \subseteq Headers
          /\ capturedAt' = IF STAMP \in KeysOf(done) THEN today ELSE capturedAt
          /\ secret' = secret
      BY <2>1 DEF CaptureOutcome, CaptureSeries
    <2>3. up /\ settings' = settings
      BY DEF Request, OthersSaved
    <2>8. (Headers \cap DOMAIN env') \ DOMAIN captured' \subseteq cleared'
      <3>1. cleared' = (cleared \cup DOMAIN captured) \ DOMAIN captured'
        BY <2>1 DEF CaptureOutcome, HeadersDropped
      <3>2. Headers \cap KeysOf(done) \subseteq DOMAIN captured'
        BY <2>1 DEF CaptureOutcome
      <3>3. DOMAIN env' \subseteq DOMAIN env \cup KeysOf(done)
        BY <2>2, OutcomeKeys
      <3>4. (Headers \cap DOMAIN env) \ DOMAIN captured \subseteq cleared
        BY <2>3 DEF KeptInv
      <3> QED
        BY <3>1, <3>2, <3>3, <3>4
    <2>9. "memory" \in torn' \/ isCaptured'
      BY <1>2 DEF Capture, CaptureFails
    <2>4. ASSUME NEW k \in LiveKeys \ lost' PROVE settings'[k] = env_value(k, Default[k])'
      <3>1. k \notin KeysOf(done)
        BY <2>2, SettingTables, FileTables
      <3>2. k \notin lost /\ SameAt(k)
        BY <2>2, <3>1, OutcomeAt
      <3>3. settings'[k] = env_value(k, Default[k])
        BY <2>3, <3>2 DEF KeptInv
      <3> QED
        BY <3>2, <3>3, SameValue DEF env_value
    <2>5. ASSUME NEW h \in DOMAIN captured' \ lost'
          PROVE  h \in DOMAIN env' /\ env'[h] = captured'[h]
      <3>1. h \notin unsaved /\ h # STAMP /\ h # SECRET
        BY <2>2, OutcomeAt, CaptureKeys
      <3>2. CASE h \in KeysOf(done)
        <4>1. h \in DOMAIN env' /\ env'[h] = d
          BY <2>2, <3>1, <3>2, OutcomeAt
        <4>2. captured'[h] = d
          BY <2>1, <3>1, <3>2 DEF CaptureOutcome
        <4> QED
          BY <4>1, <4>2
      <3>3. CASE h \notin KeysOf(done)
        <4>1. h \notin lost /\ SameAt(h)
          BY <2>2, <3>3, OutcomeAt
        <4>2. h \in DOMAIN captured /\ captured'[h] = captured[h]
          BY <2>1, <3>1, <3>3 DEF CaptureOutcome
        <4> QED
          BY <2>3, <4>1, <4>2 DEF KeptInv, SameAt
      <3> QED
        BY <3>2, <3>3
    <2>6. ASSUME STAMP \notin lost' PROVE capturedAt' = env_value(STAMP, NoStamp)'
      <3>1. CASE STAMP \in KeysOf(done)
        <4>1. STAMP \in DOMAIN env' /\ env'[STAMP] = today
          BY <2>2, <2>6, <3>1, OutcomeAt
        <4> QED
          BY <2>2, <3>1, <4>1 DEF env_value
      <3>2. CASE STAMP \notin KeysOf(done)
        <4>1. STAMP \notin lost /\ SameAt(STAMP)
          BY <2>2, <2>6, <3>2, OutcomeAt
        <4> QED
          BY <2>2, <2>3, <3>2, <4>1, SameValue DEF KeptInv, env_value
      <3> QED
        BY <3>1, <3>2
    <2>7. ASSUME SECRET \notin lost' PROVE secret' = env_value(SECRET, -1)'
      <3>1. CASE SECRET \in KeysOf(done)
        <4>1. SECRET \in DOMAIN env' /\ env'[SECRET] = secret
          BY <2>2, <2>7, <3>1, OutcomeAt, CaptureKeys
        <4> QED
          BY <2>2, <4>1 DEF env_value
      <3>2. CASE SECRET \notin KeysOf(done)
        <4>1. SECRET \notin lost /\ SameAt(SECRET)
          BY <2>2, <2>7, <3>2, OutcomeAt
        <4> QED
          BY <2>2, <2>3, <4>1, SameValue DEF KeptInv, env_value
      <3> QED
        BY <3>1, <3>2
    <2> QED
      BY <2>4, <2>5, <2>6, <2>7, <2>8, <2>9 DEF KeptInv, Headers
  <1> QED
    BY <1>1, <1>2 DEF Request

LEMMA KeptStep == ConsoleTypes /\ KeptInv /\ [Next]_vars => KeptInv'
  <1> SUFFICES ASSUME ConsoleTypes, KeptInv, [Next]_vars PROVE KeptInv'
    OBVIOUS
  <1>1. ASSUME UNCHANGED <<env, lost, settings, captured, capturedAt, secret, up,
                         isCaptured, torn, cleared>>
        PROVE  KeptInv'
    BY <1>1 DEF KeptInv, env_value, Headers
  <1>2. CASE Stop
    BY <1>2 DEF Stop, KeptInv
  <1>3. CASE (\E a \in Attempt : Login(a)) \/ ClockTick \/ NextDay
    BY <1>1, <1>3 DEF Login, ClockTick, NextDay, Midnight, envVars, configVars, identityVars
  <1>4. CASE UNCHANGED vars
    BY <1>1, <1>4 DEF vars, envVars, configVars, identityVars, consoleVars
  <1> QED
    BY <1>2, <1>3, <1>4, KeptStart, KeptApply, KeptRequest DEF Next

-----------------------------------------------------------------------------
(* The jitter bounds.                                                      *)

(* The bounds are in order in the file as well, where the next start takes *)
(* them from, and the file is what the process works with.                 *)
JitterInv ==
    ~broken =>
      /\ settings[JMIN] <= settings[JMAX]
      /\ ~BoundsInverted
      /\ ~BoundsLost

LEMMA BoundsTyped ==
    ASSUME ConsoleTypes
    PROVE  /\ settings[JMIN] \in Int /\ settings[JMAX] \in Int
           /\ LoadedSettings[JMIN] \in Int /\ LoadedSettings[JMAX] \in Int
           /\ BoundsInverted <=> ~(LoadedSettings[JMIN] <= LoadedSettings[JMAX])
  <1>1. JMIN \in SettingKeys /\ JMAX \in SettingKeys
    BY SettingTables
  <1>2. settings \in [SettingKeys -> Int] /\ LoadedSettings \in [SettingKeys -> Int]
    BY LoadedTyped DEF ConsoleTypes, MemoryTyped
  <1> QED
    BY <1>1, <1>2 DEF BoundsInverted

\* bounds that are as they were in the file are still in order
LEMMA BoundsStay ==
    ASSUME SameAt(JMIN), SameAt(JMAX), ~BoundsInverted
    PROVE  ~BoundsInverted'
  <1>1. LoadedSettings'[JMIN] = LoadedSettings[JMIN] /\ LoadedSettings'[JMAX] = LoadedSettings[JMAX]
    BY SettingTables, SameValue DEF LoadedSettings, env_value
  <1> QED
    BY <1>1 DEF BoundsInverted

LEMMA RequestOutcome ==
    ASSUME ConsoleTypes, NEW d \in Device, NEW hs \in HeaderSets, Request(d, hs)
    PROVE  \E done, unsaved :
             Outcome(done, unsaved) /\ KeysOf(done) \subseteq Headers \cup {STAMP, SECRET}
  <1>1. DOMAIN captured \subseteq Headers
    BY DEF ConsoleTypes, MemoryTyped
  <1>2. CASE Capture(d, hs, settings[REFRESH]) \/ CaptureFails(d, hs, settings[REFRESH])
    <2>1. PICK done, unsaved : CaptureOutcome(d, done, unsaved)
      BY <1>1, <1>2, Captures, CaptureFailed
    <2> QED
      BY <2>1 DEF CaptureOutcome, CaptureSeries
  <1>3. CASE CaptureCrashes(d, hs, settings[REFRESH])
    <2>1. PICK done : Outcome(done, {}) /\ CaptureSeries(d, done)
      BY <1>3, CaptureCrashed
    <2> QED
      BY <2>1 DEF CaptureSeries
  <1> QED
    BY <1>2, <1>3 DEF Request

LEMMA JitterStep ==
    ConsoleTypes /\ KeptInv /\ JitterInv /\ [Next]_vars => JitterInv'
  <1> SUFFICES ASSUME ConsoleTypes, KeptInv, JitterInv, [Next]_vars PROVE JitterInv'
    OBVIOUS
  <1>0. /\ JMIN \in LiveKeys /\ JMAX \in LiveKeys
        /\ JMIN \in SettingKeys /\ JMAX \in SettingKeys
        /\ JMIN \notin Headers \cup {STAMP, SECRET} /\ JMAX \notin Headers \cup {STAMP, SECRET}
    BY SettingTables, FileTables
  <1>1. CASE Start
    <2> SUFFICES ASSUME ~broken' PROVE JitterInv'
      BY DEF JitterInv
    <2>1. ~broken /\ ~BoundsLost' /\ settings' = LoadedSettings
      BY <1>1 DEF Start, StartMemory
    <2>2. SameAt(JMIN) /\ SameAt(JMAX)
      BY <1>0, <1>1, <2>1, Started DEF BoundsLost
    <2>3. ~BoundsInverted /\ LoadedSettings[JMIN] <= LoadedSettings[JMAX]
      BY <2>1, BoundsTyped DEF JitterInv
    <2> QED
      BY <2>1, <2>2, <2>3, BoundsStay DEF JitterInv
  <1>2. ASSUME NEW b \in Batches, Apply(b)
        PROVE  JitterInv'
    <2>1. CASE ApplyBatch(b) /\ UNCHANGED up
      <3> SUFFICES ASSUME ~broken' PROVE JitterInv'
        BY DEF JitterInv
      <3>1. ~BoundsLost' /\ up'
        BY <1>2, <2>1 DEF ApplyBatch, Apply
      <3>2. settings'[JMIN] <= settings'[JMAX]
        BY <2>1, BatchApplied DEF ConsoleTypes, MemoryTyped
      <3>3. JMIN \notin lost' /\ JMAX \notin lost'
        BY <3>1 DEF BoundsLost
      <3>4. KeptInv' /\ ConsoleTypes'
        BY <1>2, KeptApply, TypesApply
      <3>5. \A k \in LiveKeys \ lost' : settings'[k] = env_value(k, Default[k])'
        BY <3>1, <3>4 DEF KeptInv
      <3>6. LoadedSettings'[JMIN] = settings'[JMIN] /\ LoadedSettings'[JMAX] = settings'[JMAX]
        BY <1>0, <3>3, <3>5 DEF LoadedSettings
      <3>7. settings'[JMIN] \in Int /\ settings'[JMAX] \in Int
        BY <1>0, <3>4 DEF ConsoleTypes, MemoryTyped
      <3>8. ~BoundsInverted'
        BY <3>2, <3>6, <3>7 DEF BoundsInverted
      <3> QED
        BY <3>1, <3>2, <3>8 DEF JitterInv
    <2>2. CASE BatchRaises(b) \/ BatchFails(b) \/ (BatchCrashes(b) /\ UNCHANGED settings)
      <3> SUFFICES ASSUME ~broken' PROVE JitterInv'
        BY DEF JitterInv
      <3>0. settings \in [SettingKeys -> Int]
        BY DEF ConsoleTypes, MemoryTyped
      <3>1. \E done, unsaved : Outcome(done, unsaved) /\ Remembered(done)
              /\ (BatchOutcome(done, unsaved) \/ settings' = settings)
        <4>1. CASE BatchRaises(b) \/ BatchFails(b)
          BY <3>0, <4>1, BatchRaised, BatchFailed DEF BatchOutcome
        <4>2. CASE BatchCrashes(b) /\ UNCHANGED settings
          BY <3>0, <4>2, BatchCrashed
        <4> QED
          BY <2>2, <4>1, <4>2
      <3>2. PICK done, unsaved : /\ Outcome(done, unsaved) /\ Remembered(done)
                                 /\ BatchOutcome(done, unsaved) \/ settings' = settings
        BY <3>1
      <3>3. ~broken /\ ~BoundsLost' /\ ~Touches(done)
        BY <3>2 DEF Remembered
      <3>4. /\ JMIN \notin lost' /\ JMAX \notin lost'
            /\ JMIN \notin KeysOf(done) /\ JMAX \notin KeysOf(done)
        BY <3>3 DEF BoundsLost, Touches
      <3>5. /\ SameAt(JMIN) /\ SameAt(JMAX)
            /\ JMIN \notin unsaved /\ JMAX \notin unsaved
        BY <3>2, <3>4, OutcomeAt
      <3>6. settings'[JMIN] = settings[JMIN] /\ settings'[JMAX] = settings[JMAX]
        BY <1>0, <3>2, <3>4, <3>5 DEF BatchOutcome
      <3> QED
        BY <3>3, <3>5, <3>6, BoundsStay DEF JitterInv
    <2> QED
      BY <1>2, <2>1, <2>2 DEF Apply
  <1>3. ASSUME NEW d \in Device, NEW hs \in HeaderSets, Request(d, hs)
        PROVE  JitterInv'
    <2> SUFFICES ASSUME ~broken' PROVE JitterInv'
      BY DEF JitterInv
    <2>1. ~broken /\ ~BoundsLost' /\ settings' = settings
      BY <1>3 DEF Request, OthersSaved
    <2>2. PICK done, unsaved :
               Outcome(done, unsaved) /\ KeysOf(done) \subseteq Headers \cup {STAMP, SECRET}
      BY <1>3, RequestOutcome
    <2>3. /\ JMIN \notin KeysOf(done) /\ JMAX \notin KeysOf(done)
          /\ JMIN \notin lost' /\ JMAX \notin lost'
      BY <1>0, <2>1, <2>2 DEF BoundsLost
    <2>4. SameAt(JMIN) /\ SameAt(JMAX)
      BY <2>2, <2>3, OutcomeAt
    <2> QED
      BY <2>1, <2>4, BoundsStay DEF JitterInv
  <1>4. ASSUME UNCHANGED <<env, lost, settings, broken>>
        PROVE  JitterInv'
    BY <1>4 DEF JitterInv, BoundsInverted, BoundsLost, LoadedSettings, env_value
  <1>5. CASE Stop \/ (\E a \in Attempt : Login(a)) \/ ClockTick \/ NextDay
    BY <1>4, <1>5 DEF Stop, Login, ClockTick, NextDay, envVars, configVars
  <1>6. CASE UNCHANGED vars
    BY <1>4, <1>6 DEF vars, envVars, configVars
  <1> QED
    BY <1>1, <1>2, <1>3, <1>5, <1>6 DEF Next

-----------------------------------------------------------------------------
(* The identity.                                                           *)

MemoryWhole ==
    /\ \A g, h \in DOMAIN captured : captured[g] = captured[h]
    /\ captured # EmptyFile => capturedAt # NoStamp

(* The file, from which the next start takes the identity, is whole unless *)
(* torn; and an identity that is there without being in force, on top of   *)
(* which the next capture would write, is always one that was torn.        *)
WholeInv ==
    /\ up /\ "memory" \notin torn => MemoryWhole
    /\ "file" \notin torn => FileWhole
    /\ up /\ captured # EmptyFile /\ ~isCaptured => "memory" \in torn

\* a series that leaves the identity alone leaves it whole, or the file empty
LEMMA WholeStays ==
    ASSUME FileWhole, (\A k \in Headers \cup {STAMP} : SameAt(k)) \/ DOMAIN env' = {}
    PROVE  FileWhole'
  <1>1. CASE DOMAIN env' = {}
    BY <1>1 DEF FileWhole
  <1>2. CASE \A k \in Headers \cup {STAMP} : SameAt(k)
    <2>1. /\ Headers \cap DOMAIN env' = Headers \cap DOMAIN env
          /\ \A h \in Headers \cap DOMAIN env : env'[h] = env[h]
          /\ STAMP \in DOMAIN env' <=> STAMP \in DOMAIN env
      BY <1>2 DEF SameAt
    <2> QED
      BY <2>1 DEF FileWhole, Headers
  <1> QED
    BY <1>1, <1>2

LEMMA OutcomeOthers ==
    ASSUME NEW done, NEW unsaved, Outcome(done, unsaved)
    PROVE  (\A k : k \notin KeysOf(done) => SameAt(k)) \/ DOMAIN env' = {}
  BY DEF Outcome, AfterSaves, EmptyFile, SameAt

LEMMA WholeStart ==
    ASSUME ConsoleTypes, WholeInv, Start
    PROVE  WholeInv'
  <1>1. /\ captured' = LoadedIdentity
        /\ isCaptured' = (Headers \cap DOMAIN env # {})
        /\ capturedAt' = env_value(STAMP, NoStamp)
        /\ torn' = IF "file" \in torn THEN {"file", "memory"} ELSE {}
    BY DEF Start, StartMemory
  <1>2. captured' # EmptyFile => isCaptured'
    BY <1>1, LoadedTyped DEF ConsoleTypes
  <1>3. CASE "file" \in torn
    BY <1>1, <1>3 DEF WholeInv
  <1>4. CASE "file" \notin torn
    <2>1. FileWhole
      BY <1>4 DEF WholeInv
    <2>2. FileWhole'
      <3>1. (\A k \in Headers \cup {STAMP} : SameAt(k)) \/ DOMAIN env' = {}
        BY Started, CaptureKeys
      <3> QED
        BY <2>1, <3>1, WholeStays
    <2>3. MemoryWhole'
      <3>1. \A g, h \in DOMAIN captured' : captured'[g] = captured'[h]
        BY <1>1, <2>1, LoadedTyped DEF ConsoleTypes, FileWhole
      <3>2. captured' # EmptyFile => capturedAt' # NoStamp
        <4> SUFFICES ASSUME captured' # EmptyFile PROVE capturedAt' # NoStamp
          OBVIOUS
        <4>1. STAMP \in DOMAIN env
          BY <1>1, <2>1, LoadedTyped DEF ConsoleTypes, FileWhole
        <4>2. capturedAt' = env[STAMP] /\ env[STAMP] \in 0..today /\ today \in Nat
          BY <1>1, <4>1 DEF env_value, ConsoleTypes, FileTyped, ValueTyped
        <4> QED
          BY <4>2 DEF NoStamp
      <3> QED
        BY <3>1, <3>2 DEF MemoryWhole, EmptyFile
    <2> QED
      BY <1>2, <2>2, <2>3 DEF WholeInv, EmptyFile
  <1> QED
    BY <1>3, <1>4

LEMMA WholeApply ==
    ASSUME ConsoleTypes, WholeInv, NEW b \in Batches, Apply(b)
    PROVE  WholeInv'
  <1>1. /\ captured' = captured /\ isCaptured' = isCaptured /\ capturedAt' = capturedAt
        /\ torn' = torn /\ up
    BY DEF Apply, identityVars
  <1>2. \E done, unsaved : Outcome(done, unsaved) /\ Numbers(done)
    <2>1. settings \in [SettingKeys -> Int]
      BY DEF ConsoleTypes, MemoryTyped
    <2>2. CASE ApplyBatch(b) \/ BatchRaises(b) \/ BatchFails(b)
      <3>1. \E done, unsaved : BatchOutcome(done, unsaved)
        BY <2>1, <2>2, BatchApplied, BatchRaised, BatchFailed
      <3> QED
        BY <3>1 DEF BatchOutcome
    <2>3. CASE BatchCrashes(b)
      BY <2>1, <2>3, BatchCrashed
    <2> QED
      BY <2>2, <2>3 DEF Apply
  <1>3. FileWhole => FileWhole'
    <2> SUFFICES ASSUME FileWhole PROVE FileWhole'
      OBVIOUS
    <2>1. PICK done, unsaved : Outcome(done, unsaved) /\ Numbers(done)
      BY <1>2
    <2>2. \A k \in Headers \cup {STAMP} : k \notin KeysOf(done)
      BY <2>1, LatestNumber, FileTables
    <2>3. (\A k \in Headers \cup {STAMP} : SameAt(k)) \/ DOMAIN env' = {}
      BY <2>1, <2>2, OutcomeOthers
    <2> QED
      BY <2>3, WholeStays
  <1>4. up' => up
    BY <1>1
  <1> QED
    BY <1>1, <1>3, <1>4 DEF WholeInv, MemoryWhole, EmptyFile

LEMMA WholeRequest ==
    ASSUME ConsoleTypes, WholeInv, NEW d \in Device, NEW hs \in HeaderSets, Request(d, hs)
    PROVE  WholeInv'
  <1>1. CASE CaptureFails(d, hs, settings[REFRESH]) \/ CaptureCrashes(d, hs, settings[REFRESH])
    <2>1. torn' = {"file", "memory"}
      BY <1>1 DEF CaptureFails, CaptureCrashes
    <2> QED
      BY <2>1 DEF WholeInv
  <1>2. CASE Capture(d, hs, settings[REFRESH])
    <2> DEFINE days == settings[REFRESH]
               C == CaptureSaves(d, hs)
    <2>1. /\ MayCapture(d, days)
          /\ AllSaved(C)
          /\ captured' = Taken(d, hs, days)
          /\ isCaptured' = TRUE
          /\ capturedAt' = today
          /\ torn' = TornAfterCapture(d, env')
          /\ up
      BY <1>2 DEF Capture, Request
    <2>2. "memory" \notin torn' => MemoryWhole'
      <3> SUFFICES ASSUME "memory" \notin torn' PROVE MemoryWhole'
        OBVIOUS
      <3>1. isCaptured \/ captured = EmptyFile
        BY <2>1 DEF TornAfterCapture, WholeInv
      <3>2. Cleared(days) = EmptyFile
        BY <2>1, <3>1 DEF Cleared, MayCapture
      <3>3. \A h \in DOMAIN captured' : captured'[h] = d
        <4>1. DOMAIN Cleared(days) = {}
          BY <3>2 DEF EmptyFile
        <4> QED
          BY <2>1, <4>1 DEF Taken
      <3>4. capturedAt' # NoStamp
        BY <2>1 DEF ConsoleTypes, FileTyped, NoStamp
      <3> QED
        BY <3>3, <3>4 DEF MemoryWhole
    <2>3. "file" \notin torn' => FileWhole'
      <3> SUFFICES ASSUME "file" \notin torn' PROVE FileWhole'
        OBVIOUS
      <3>1. \A h \in Headers \cap DOMAIN env' : env'[h] = d
        BY <2>1 DEF TornAfterCapture, LeftBehind
      <3>2. STAMP \in DOMAIN env'
        <4>1. STAMP \in KeysOf(C)
          <5>1. 3 \in DOMAIN C /\ C[3] = <<STAMP, today>>
            BY CaptureSavesAre
          <5> HIDE DEF C
          <5> QED
            BY <5>1 DEF KeysOf
        <4> HIDE DEF C
        <4> QED
          BY <2>1, <4>1 DEF AllSaved, AfterSaves
      <3> QED
        BY <3>1, <3>2 DEF FileWhole, Headers
    <2> QED
      BY <2>1, <2>2, <2>3 DEF WholeInv
  <1> QED
    BY <1>1, <1>2 DEF Request

LEMMA WholeStep == ConsoleTypes /\ WholeInv /\ [Next]_vars => WholeInv'
  <1> SUFFICES ASSUME ConsoleTypes, WholeInv, [Next]_vars PROVE WholeInv'
    OBVIOUS
  <1>1. ASSUME UNCHANGED <<env, captured, isCaptured, capturedAt, torn>>, up' => up
        PROVE  WholeInv'
    BY <1>1 DEF WholeInv, MemoryWhole, FileWhole, EmptyFile, Headers
  <1>2. CASE Stop
    BY <1>1, <1>2 DEF Stop, envVars, identityVars
  <1>3. CASE (\E a \in Attempt : Login(a)) \/ ClockTick \/ NextDay
    BY <1>1, <1>3 DEF Login, ClockTick, NextDay, Midnight, envVars, identityVars
  <1>4. CASE UNCHANGED vars
    BY <1>1, <1>4 DEF vars, envVars, identityVars, consoleVars
  <1> QED
    BY <1>2, <1>3, <1>4, WholeStart, WholeApply, WholeRequest DEF Next

-----------------------------------------------------------------------------

ConsoleInv == ConsoleTypes /\ KeptInv /\ JitterInv /\ WholeInv

LEMMA ConsoleInvHolds == Spec => []ConsoleInv
  <1>1. Init => ConsoleInv
    <2> SUFFICES ASSUME Init PROVE ConsoleInv
      OBVIOUS
    <2>1. ConsoleTypes
      BY TypesInit
    <2>2. /\ ~up /\ settings = Default /\ lost = {} /\ broken = BoundsInverted
          /\ torn = IF FileWhole THEN {} ELSE {"file"}
      BY DEF Init
    <2>3. KeptInv /\ WholeInv
      BY <2>2 DEF KeptInv, WholeInv
    <2>4. JitterInv
      BY <2>2, SettingTables DEF JitterInv, BoundsLost
    <2> QED
      BY <2>1, <2>3, <2>4 DEF ConsoleInv
  <1>2. ConsoleInv /\ [Next]_vars => ConsoleInv'
    BY TypesStep, KeptStep, JitterStep, WholeStep DEF ConsoleInv
  <1> QED
    BY <1>1, <1>2, PTL DEF Spec

(* Except for keys whose save failed, .env has what the process works      *)
(* with, and of the identity nothing else: but for headers a refresh has   *)
(* dropped from memory, and for an identity whose capture was cut short.   *)
(* So it is whatever batches and captures went through, failed half way or *)
(* were cut short by a crash before the last start.                        *)
THEOREM RestartsChangeNothing == Spec => []RestartChangesNothing
  <1>1. ConsoleInv => RestartChangesNothing
    BY DEF ConsoleInv, KeptInv, RestartChangesNothing
  <1> QED
    BY <1>1, ConsoleInvHolds, PTL

(* The jitter bounds of the running process are in order, and so are those *)
(* a restart would load, unless a batch was cut short after it had set one *)
(* of the two, or one was lost.                                            *)
THEOREM JitterStaysUsable == Spec => []JitterUsable
  <1>1. ConsoleInv => JitterUsable
    <2> SUFFICES ASSUME ConsoleInv, ~broken PROVE ~(settings[JMIN] > settings[JMAX])
      BY DEF JitterUsable
    <2>1. settings[JMIN] <= settings[JMAX]
      BY DEF ConsoleInv, JitterInv
    <2> QED
      BY <2>1, BoundsTyped DEF ConsoleInv
  <1> QED
    BY <1>1, ConsoleInvHolds, PTL

(* The identity put on every request is that of one device and has an age, *)
(* unless a capture was cut short or a start loaded one that is not.       *)
THEOREM IdentityStaysWhole == Spec => []IdentityWhole
  <1>1. ConsoleInv => IdentityWhole
    BY DEF ConsoleInv, WholeInv, MemoryWhole, IdentityWhole
  <1> QED
    BY <1>1, ConsoleInvHolds, PTL

(* The types; of the failures counted, that they never go past what the    *)
(* lockout and the attempts under way allow.                               *)
THEOREM ConsoleTyped == Spec => []TypeOK
  <1>1. ConsoleInv /\ CountInv => TypeOK
    <2> SUFFICES ASSUME ConsoleInv, CountInv PROVE TypeOK
      OBVIOUS
    <2>1. failures.count \in 0 .. ADMIN_MAX_FAILED + Cardinality(Attempt) - 1
      <3>1. /\ failures.count \in Nat /\ Cardinality(reading) \in Nat
            /\ failures.count + Cardinality(reading) <= RunLength
        BY LoginAssumption, FS_Subset, FS_CardinalityType DEF CountInv
      <3>2. RunLength \in Nat
        BY RunLengthPositive
      <3>3. failures.count <= RunLength
        BY <3>1, <3>2
      <3> QED
        BY <3>1, <3>3 DEF RunLength
    <2>2. ConsoleTypes /\ reading \subseteq Attempt
      BY DEF ConsoleInv, CountInv
    <2> QED
      BY <2>1, <2>2 DEF ConsoleTypes, FileTyped, MemoryTyped, FileKeys, TypeOK
  <1> QED
    BY <1>1, ConsoleInvHolds, LoginInvHolds, PTL
=============================================================================
