------------------------------ MODULE Release ------------------------------
(***************************************************************************)
(* The verification of a release after its deployment                      *)
(* (scripts/verify-worker-commit.mjs and scripts/verify-release.mjs, one   *)
(* after the other in .github/workflows/ci.yml).                           *)
(*                                                                         *)
(* The network replaces the old version step by step: while both serve, a  *)
(* request is answered by either.  Answers may be lost, late, too large,   *)
(* server errors or redirects to anywhere.                                 *)
(*                                                                         *)
(* Abstractions.  The three pages are one route, and so are the two        *)
(* forwarded APIs.  A body is what the route asks for ("proper") or not,   *)
(* and may hold a private marker.  Delays between attempts are left out.   *)
(***************************************************************************)
EXTENDS Integers, Sequences

CONSTANTS
  MaxAttempts,   \* of the identity probe, MAX_ATTEMPTS
  Retries,       \* attempts per request of the smoke test
  MaxRedirects,  \* redirects of /proposals
  Inside,        \* further addresses under /proposals
  Outside        \* any other address a redirect may name

ASSUME ReleaseConstants ==
  /\ MaxAttempts \in Nat \ {0} /\ Retries \in Nat \ {0} /\ MaxRedirects \in Nat
  /\ Inside \cap Outside = {}

VARIABLES
  fleet,     \* the versions that serve
  pc,        \* "identity", "smoke", "passed" or "failed"
  probe,     \* attempt of the identity probe
  route,     \* the route under check, by number
  request,   \* [url, visited, redirects, attempt] of the smoke test
  asked,     \* requests sent for each route
  seen       \* the answers routes were passed with: [route, version, private]

releaseVars == <<fleet, pc, probe, route, request, asked, seen>>

-----------------------------------------------------------------------------
Routes == <<"health", "page", "owner metrics", "proposals", "api">>
Here == Routes[route]
Start(r) == [url |-> r, visited |-> {r}, redirects |-> 0, attempt |-> 1]

Answers == [version : fleet, status : {200, 302, 401, 405, 500},
            proper : BOOLEAN, private : BOOLEAN]

ReleaseInit ==
  /\ fleet = {"old"} /\ pc = "identity" /\ probe = 1
  /\ route = 1 /\ request = Start(Routes[1])
  /\ asked = [n \in DOMAIN Routes |-> 0]
  /\ seen = {}

RollsOut ==
  /\ \/ fleet = {"old"} /\ fleet' = {"old", "new"}
     \/ fleet = {"old", "new"} /\ fleet' = {"new"}
  /\ UNCHANGED <<pc, probe, route, request, asked, seen>>

Identity(a) == a.status = 200 /\ a.proper /\ a.version = "new"

-----------------------------------------------------------------------------
\* verifyWorkerCommit: whatever goes wrong, the next attempt may succeed.
Probe ==
  /\ pc = "identity"
  /\ \/ /\ \E a \in Answers : Identity(a)
        /\ pc' = "smoke" /\ UNCHANGED probe
     \/ IF probe = MaxAttempts THEN pc' = "failed" /\ UNCHANGED probe
        ELSE probe' = probe + 1 /\ UNCHANGED pc
  /\ UNCHANGED <<fleet, route, request, asked, seen>>

-----------------------------------------------------------------------------
(* verifyRelease.                                                          *)

\* What check asks of an answer.
Approves(a) ==
  CASE Here = "health" -> Identity(a)
    [] Here = "owner metrics" -> a.status = 401 /\ ~a.private
    [] Here = "api" -> a.status \in {200, 405} /\ a.proper
    [] Here = "page" -> a.status = 200 /\ a.proper /\ ~a.private
    [] Here = "proposals" -> a.status = 200 /\ a.proper

CountsRequest == asked' = [asked EXCEPT ![route] = @ + 1]
Fails == pc' = "failed" /\ UNCHANGED <<route, request, seen>>
Again == request' = [request EXCEPT !.attempt = @ + 1] /\ UNCHANGED <<pc, route, seen>>

Passes(a) ==
  /\ seen' = seen \cup {[route |-> Here, version |-> a.version, private |-> a.private]}
  /\ IF route = Len(Routes) THEN pc' = "passed" /\ UNCHANGED <<route, request>>
     ELSE route' = route + 1 /\ request' = Start(Routes[route + 1]) /\ UNCHANGED pc

\* Mutant: a redirect may lead anywhere.
MayFollowOut(url) == request.redirects < MaxRedirects /\ url \notin request.visited
MayFollow(url) ==
  /\ Here = "proposals" /\ request.redirects < MaxRedirects
  /\ url \in Inside \cup {"proposals"} /\ url \notin request.visited

\* A server error or no answer: tried again, up to a limit.
NotServed ==
  /\ pc = "smoke" /\ CountsRequest
  /\ IF request.attempt < Retries THEN Again ELSE Fails
  /\ UNCHANGED <<fleet, probe>>

\* A response that is too large ends the verification at once.
TooLarge ==
  /\ pc = "smoke" /\ CountsRequest /\ Fails
  /\ UNCHANGED <<fleet, probe>>

Redirected ==
  /\ pc = "smoke" /\ CountsRequest
  /\ \E url \in Inside \cup Outside \cup {"proposals"} :
       IF MayFollow(url)
         THEN /\ request' = [url |-> url, visited |-> request.visited \cup {url},
                             redirects |-> request.redirects + 1, attempt |-> 1]
              /\ UNCHANGED <<pc, route, seen>>
         ELSE Fails
  /\ UNCHANGED <<fleet, probe>>

Served ==
  /\ pc = "smoke" /\ CountsRequest
  /\ \E a \in Answers :
       /\ a.status \notin {302, 500}
       /\ IF Approves(a) THEN Passes(a) ELSE Fails
  /\ UNCHANGED <<fleet, probe>>

ReleaseNext == RollsOut \/ Probe \/ NotServed \/ TooLarge \/ Redirected \/ Served

ReleaseSpec == ReleaseInit /\ [][ReleaseNext]_releaseVars

-----------------------------------------------------------------------------
(* Properties.                                                             *)

\* A release that passed was proven by answers of this very run: the new
\* version named itself where health is asked, every route was answered as
\* its check demands, and nothing private was in the pages or in what
\* a stranger is told of the owner's metrics.
PassedIsProven ==
  pc = "passed" =>
    /\ {s.route : s \in seen} = {Routes[n] : n \in DOMAIN Routes}
    /\ \A s \in seen : s.route = "health" => s.version = "new"
    /\ \A s \in seen : s.route \in {"page", "owner metrics"} => ~s.private

\* DEPLOYMENT.md:104, of redirects: wherever answers point, requests stay
\* with the routes and under /proposals, and their number is bounded: the verification ends.
StaysInside ==
  /\ request.url \in {Routes[n] : n \in DOMAIN Routes} \cup Inside
  /\ \A n \in DOMAIN Routes :
       asked[n] <= Retries * (IF Routes[n] = "proposals" THEN MaxRedirects + 1 ELSE 1)

\* A release passes on evidence, gathered where the verification may look.
VerificationSound == PassedIsProven /\ StaysInside
=============================================================================
