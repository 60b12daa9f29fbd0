---------------------------- MODULE NetworkTools ----------------------------
(***************************************************************************)
(* The agent's network tools (tools/web_fetch.go, web_search.go, retry.go, *)
(* netutil/proxy.go): a call authorises its URL, sends a request with a    *)
(* client whose dial resolves the host again and judges what it found,     *)
(* follows redirects it authorises one by one, and tries the whole again   *)
(* after an error or a busy answer.  web_fetch makes a client for every    *)
(* call, web_search keeps one.  A name may resolve to other addresses each *)
(* time it is looked up, and an address resolves to itself.  The pages are *)
(* left out.                                                               *)
(***************************************************************************)
EXTENDS FiniteSets, Naturals, Policy

CONSTANTS
  Call,        \* calls of the tools
  Name,        \* names of hosts
  Local,       \* those that isBlockedHostname refuses
  Address,     \* IP addresses
  Blocked,     \* those that isBlockedIP refuses
  Provider,    \* the host of the search provider
  Proxies,     \* what the configuration may name as the proxy
  Unset,       \* no proxy
  Redirects,   \* 3 in the code
  Attempts     \* 3 in the code

VARIABLES
  proxy,    \* the configured proxy: Unset or a host
  direct,   \* no_proxy: the hosts reached without it
  open,     \* connections kept by the clients: [client, host]
  call,     \* each call
  sent      \* history: the requests on the wire, [call, target, address]

vars == <<proxy, direct, open, call, sent>>

Host == Name \cup Address
\* bad: history, a target of the call was one that the policy refuses.
Waiting == [at |-> "new", tool |-> "web_fetch", url |-> Provider, target |-> Provider,
            hops |-> 0, attempt |-> 1, bad |-> FALSE]

\* resolveHost; {} is a lookup that failed.
Lookups(h) == IF h \in Address THEN {{h}} ELSE SUBSET Address

Blocks(h, found) ==
  Decide("full-auto", AssessNetwork(h \in Local, found, Blocked)) = "block"

\* ProxyFunc: where the connection for a request to h goes.
Via(h) == IF proxy = Unset \/ h \in direct THEN h ELSE proxy

Init ==
  /\ proxy \in Proxies \cup {Unset}
  /\ direct \in SUBSET (Name \ Local)
  /\ open = {} /\ sent = {}
  /\ call = [c \in Call |-> Waiting]

-----------------------------------------------------------------------------
Client(c) == IF call[c].tool = "web_search" THEN <<>> ELSE <<c>>
At(c, at) == call[c].at = at

\* authorizeNetwork: a name that does not resolve is judged by itself.
Authorised(h, found) == ~Blocks(h, found)
Noted(c, h, found) == call[c].bad \/ Blocks(h, found)

\* An error or a busy answer: from the first URL again, or the end.  The HTTP
\* client wraps every error in one that counts as a network error.
Retried(c, why, bad) ==
  call' = [call EXCEPT ![c] =
    IF call[c].attempt = Attempts THEN [@ EXCEPT !.at = why, !.bad = bad]
    ELSE [@ EXCEPT !.at = "dial", !.target = call[c].url, !.hops = 0, !.attempt = call[c].attempt + 1, !.bad = bad]]

\* The host is authorised before anything is sent.
Begin(c, tool, h) ==
  /\ At(c, "new")
  /\ \E found \in Lookups(h) :
       call' = [call EXCEPT ![c] =
         [@ EXCEPT !.tool = tool, !.url = h, !.target = h, !.bad = Noted(c, h, found),
                   !.at = IF Authorised(h, found) THEN "dial" ELSE "refused"]]
  /\ UNCHANGED <<proxy, direct, open, sent>>

BeginFetch(c) == \E h \in Host : Begin(c, "web_fetch", h)

BeginSearch(c) == Begin(c, "web_search", Provider)

\* DialContext's own decision.
Judge(h, found) == ~Blocks(h, found)

\* The transport dials the host, or the proxy: what it resolved is judged and
\* the first address is dialled.
Dial(c) ==
  /\ At(c, "dial")
  /\ LET h == Via(call[c].target) IN \E found \in Lookups(h) :
       \/ /\ found # {} /\ Judge(h, found)
          /\ \E a \in found : sent' = sent \cup {[call |-> c, target |-> call[c].target, address |-> a]}
          /\ open' = open \cup {[client |-> Client(c), host |-> h]}
          /\ call' = [call EXCEPT ![c].at = "answer"]
       \/ /\ Retried(c, IF found # {} /\ ~Judge(h, found) THEN "refused" ELSE "failed",
                     IF h = call[c].target THEN Noted(c, h, found) ELSE call[c].bad)
          /\ UNCHANGED <<open, sent>>
  /\ UNCHANGED <<proxy, direct>>

\* A connection the client kept needs no dial; either end may close it.
Reuse(c) ==
  /\ At(c, "dial")
  /\ [client |-> Client(c), host |-> Via(call[c].target)] \in open
  /\ \E old \in sent :
       /\ Client(old.call) = Client(c) /\ Via(old.target) = Via(call[c].target)
       /\ sent' = sent \cup {[call |-> c, target |-> call[c].target, address |-> old.address]}
  /\ call' = [call EXCEPT ![c].at = "answer"]
  /\ UNCHANGED <<proxy, direct, open>>

Disconnect == \E conn \in open : open' = open \ {conn} /\ UNCHANGED <<proxy, direct, call, sent>>

\* Defective variant: whoever dials the target judges it anyway.
FollowUnjudged(c, h, found) ==
  call' = [call EXCEPT ![c].at = "dial", ![c].target = h, ![c].hops = @ + 1]

Follow(c, h, found) ==
  IF Authorised(h, found)
  THEN call' = [call EXCEPT ![c].at = "dial", ![c].target = h, ![c].hops = @ + 1, ![c].bad = Noted(c, h, found)]
  ELSE Retried(c, "refused", Noted(c, h, found))

\* CheckRedirect
Redirect(c) ==
  /\ At(c, "answer")
  /\ \E h \in Host : \E found \in Lookups(h) :
       IF call[c].hops >= Redirects THEN Retried(c, "failed", call[c].bad) ELSE Follow(c, h, found)
  /\ UNCHANGED <<proxy, direct, open, sent>>

\* The page, a status that ends the call, or one to try again after.
Answer(c) ==
  /\ At(c, "answer")
  /\ \/ \E end \in {"page", "failed"} : call' = [call EXCEPT ![c].at = end]
     \/ Retried(c, "failed", call[c].bad)
  /\ UNCHANGED <<proxy, direct, open, sent>>

\* The call's time limit, or its caller.
EndContext(c) ==
  /\ call[c].at \in {"dial", "answer"}
  /\ call' = [call EXCEPT ![c].at = "failed"]
  /\ UNCHANGED <<proxy, direct, open, sent>>

Next ==
  \/ \E c \in Call : BeginFetch(c) \/ BeginSearch(c) \/ Dial(c) \/ Reuse(c) \/ Redirect(c) \/ Answer(c) \/ EndContext(c)
  \/ Disconnect

Spec == Init /\ [][Next]_vars

-----------------------------------------------------------------------------
TypeOK ==
  /\ proxy \in Proxies \cup {Unset} /\ direct \subseteq Name
  /\ open \subseteq [client : {<<>>} \cup {<<c>> : c \in Call}, host : Host]
  /\ \A c \in Call :
       /\ call[c].at \in {"new", "dial", "answer", "page", "failed", "refused"}
       /\ call[c].url \in Host /\ call[c].target \in Host
       /\ call[c].hops \in 0..Redirects /\ call[c].attempt \in 1..Attempts
       /\ call[c].bad \in BOOLEAN
  /\ sent \subseteq [call : Call, target : Host, address : Address]

(* However names change their addresses between two lookups, however a     *)
(* page redirects, and whether a proxy is in between or not, a request     *)
(* only goes to an address the policy allows, and is never for a host      *)
(* that the policy refuses by its name or its own address.                 *)
OnlyAllowedTargets ==
  \A s \in sent : s.address \notin Blocked /\ s.target \notin Local \cup Blocked

(* README.md:127 says the configured proxy is the one that is used: a call *)
(* is refused by the policy only when one of the hosts it was to reach is  *)
(* refused, the proxy's own address is not one of them.                    *)
RefusedForTarget ==
  \A c \in Call :
    At(c, "refused") => call[c].bad
=============================================================================
