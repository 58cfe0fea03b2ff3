----------------------------- MODULE MCConsole -----------------------------
(* Instances of Console for TLC.                                           *)
EXTENDS Console, TLC

CONSTANTS d1, d2, a1, a2, any

c(key, raw) == [key |-> key, raw |-> raw]

\* each jitter bound alone, which brings the other down or finds it in order;
\* both, in both orders; a refused, a locked and a NaN value among others; values
\* that overflow after one bound was set, and before anything was
MCBatches ==
    { <<c(JMAX, 3)>>,
      <<c(JMIN, 50)>>,
      <<c(JMIN, 50), c(JMAX, 60)>>,
      <<c(JMAX, 60), c(JMIN, 5001)>>,
      <<c(STALL, NaN), c(CONNECTIONS, 0), c(TOKEN, 1), c(REFRESH, 1)>>,
      <<c(CONNECTIONS, 10), c(REFRESH, NaN), c(JMIN, 45)>>,
      <<c(JMAX, 2), c(JMIN, Infinity)>>,
      <<c(STALL, Infinity), c(REFRESH, Huge), c(STALL, Huge), c(JMAX, 1)>> }

Stamped == ("user-agent" :> d1) @@ ("x-app" :> d1) @@ (STAMP :> 0) @@ (REFRESH :> 1)
Inverted == (JMIN :> 70) @@ ("user-agent" :> d2) @@ ("x-app" :> d1) @@ (STAMP :> 0)
Unstamped == ("user-agent" :> d1) @@ (JMAX :> 60)

MCInitialFiles == {EmptyFile, Stamped, Unstamped, Inverted}

Budget(start, edit, capture, login, guess, tick, day) ==
    [starts |-> start, edits |-> edit, captures |-> capture, logins |-> login,
     guesses |-> guess, ticks |-> tick, days |-> day]

\* settings; identity, with a changed refresh period or over two restarts; logins
MCBudgets == {Budget(2, 3, 0, 1, 0, 0, 0),
              Budget(2, 1, 2, 1, 0, 0, 1),
              Budget(3, 0, 2, 0, 0, 0, 1),
              Budget(1, 0, 0, 1, 7, 4, 0)}

\* login attempts are told apart by nothing
Attempts == Permutations(Attempt)
=============================================================================
