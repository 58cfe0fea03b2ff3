------------------------------- MODULE Access ------------------------------
(***************************************************************************)
(* Who may ask for what: the address the gates judge and the label that is *)
(* charged (access.py), and the gates in the order in which the middleware *)
(* has them (middleware.py).  Whether a key is good and whether a user is  *)
(* over the cap are the subject of ProxyKeys and UserCap; here they are    *)
(* sets.                                                                   *)
(*                                                                         *)
(* A request has the peer's address, the lines of X-Forwarded-For with the *)
(* entries of each, a key in its URL or in its header, a user label in its *)
(* URL and, behind the two, a path of some kind: "admin", "stats", "v1" for*)
(* a call of the API, or "//v1" for one with a second slash in front, which*)
(* the handler forwards all the same.  Telemetry, which goes nowhere, is   *)
(* none of them.                                                           *)
(***************************************************************************)
EXTENDS Integers, Sequences, SequencesExt, FiniteSetsExt

CONSTANTS
    Address,
    Garbage,            \* an entry that is no address
    TRUSTED_PROXY_NETWORKS, ALLOWED_NETWORKS, ADMIN_IPS, STATS_VIEW_IPS,
    None,               \* no key, no label
    GoodKey,            \* keys verify_secret accepts
    LabelOfKey(_),      \* their users
    label_for_ip(_),
    OverCap             \* labels over their cap

ASSUME AccessAssumption ==
    /\ Garbage \notin Address
    /\ TRUSTED_PROXY_NETWORKS \subseteq Address

VARIABLE gates          \* DEPLOY_MODE = "server", PROXY_KEYS_ENABLED,
                        \* PROXY_KEY_BYPASS_IP_ALLOWLIST, STATS_PRIVATE

Gates == [server : BOOLEAN, keys : BOOLEAN, bypass : BOOLEAN, private : BOOLEAN]

-----------------------------------------------------------------------------

Untrusted(hops) == {i \in DOMAIN hops : hops[i] \notin TRUSTED_PROXY_NETWORKS}

\* what entry i of a trusted proxy's list makes of its caller
Named(peer, hops, i) == IF hops[i] = Garbage THEN peer ELSE hops[i]

\* mutant: the first entry that is not a trusted proxy
FirstUntrusted(peer, hops) ==
    IF peer \notin TRUSTED_PROXY_NETWORKS \/ Untrusted(hops) = {} THEN peer
    ELSE Named(peer, hops, Min(Untrusted(hops)))

\* the last entry that is not a trusted proxy, if it is a trusted one that says so
resolve_client_ip(peer, hops) ==
    IF peer \notin TRUSTED_PROXY_NETWORKS \/ Untrusted(hops) = {} THEN peer
    ELSE Named(peer, hops, Max(Untrusted(hops)))

\* the header's first line is all that is read
Forwarded(r) == IF r.lines = <<>> THEN <<>> ELSE Head(r.lines)

Client(r) == resolve_client_ip(r.peer, Forwarded(r))

\* parse_key_prefix and _header_value: the URL's key goes before the header's
Presented(r) == IF r.urlKey # None THEN r.urlKey ELSE r.headerKey

Keyed(r) == gates.keys /\ Presented(r) \in GoodKey

\* a key that is not good, or one in the URL while keys are off
KeyRefused(r) ==
    IF gates.keys THEN Presented(r) # None /\ Presented(r) \notin GoodKey
    ELSE r.urlKey # None

user_label(r) ==
    IF Keyed(r) THEN LabelOfKey(Presented(r))
    ELSE IF r.label # None THEN r.label ELSE label_for_ip(Client(r))

\* behind a user's prefix there are only upstream paths
IsAdmin(r) == r.label = None /\ r.path = "admin"
IsStats(r) == r.label = None /\ r.path = "stats"

IpRefused(r) ==
    IF IsAdmin(r) THEN Client(r) \notin ADMIN_IPS
    ELSE /\ gates.server
         /\ ~(Keyed(r) /\ gates.bypass)
         /\ Client(r) \notin ALLOWED_NETWORKS

StatsRefused(r) == gates.private /\ IsStats(r) /\ Client(r) \notin STATS_VIEW_IPS

\* the cap is looked at for the paths that begin with /v1/ (startswith), which
\* are not all that the handler sends upstream
CapRefused(r) == r.path = "v1" /\ user_label(r) \in OverCap

(* What becomes of a request: the answer, whom it is charged to, and       *)
(* whether the use of its key is recorded, which happens between the two   *)
(* address gates.                                                          *)
Verdict(r) ==
    [status |-> IF KeyRefused(r) \/ IpRefused(r) \/ StatsRefused(r) THEN 403
                ELSE IF CapRefused(r) THEN 429 ELSE 200,
     label  |-> user_label(r),
     used   |-> Keyed(r) /\ ~IpRefused(r)]

-----------------------------------------------------------------------------

\* q is r with other words of the caller's own: entries it put in front of
\* those the proxies added to the header's first line, or any at all if it came
\* by no trusted proxy, whatever other lines, and, if it has a key, another label
SameCaller(q, r) ==
    /\ \/ r.peer \notin TRUSTED_PROXY_NETWORKS
       \/ Forwarded(q) = Forwarded(r)
       \/ /\ Untrusted(Forwarded(r)) # {}
          /\ IsSuffix(Forwarded(r), Forwarded(q))
    /\ q.label = r.label \/ (Keyed(r) /\ None \notin {q.label, r.label})

(* What a caller says of itself changes nothing about whether it is let in *)
(* and whom it is charged to: the rightmost address of the line that is    *)
(* read, among those no trusted proxy has, is the one that counts, and a   *)
(* key's own user (access.py:36-40, middleware.py:54-57, 106-107).  It     *)
(* holds where the trusted proxy writes what it saw into that line; of one *)
(* that adds a line of its own behind the caller's it says nothing.        *)
CallerCannotChoose(r, headers, labels) ==
    \A lines \in headers, label \in labels :
        LET q == [r EXCEPT !.lines = lines, !.label = label]
        IN  SameCaller(q, r) => Verdict(q) = Verdict(r)
=============================================================================
