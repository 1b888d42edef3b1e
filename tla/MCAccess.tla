------------------------------ MODULE MCAccess ------------------------------
(***************************************************************************)
(* Model-checking instance of six components that share no state: the MCP  *)
(* authorization server, the bot check, the sign-out of a device, the app  *)
(* versions, the cache of signed URLs and the device tokens. A behaviour   *)
(* is one of the component it starts with.                                 *)
(***************************************************************************)
EXTENDS McpOAuth, Turnstile, AccessTokens, AppVersions, SignedUrls, DeviceTokens, TLC

VARIABLE part

others(vs) == UNCHANGED <<part, vs>>

MCInit ==
    /\ part \in {"oauth", "turnstile", "accessTokens", "appVersions", "signedUrls",
                 "deviceTokens"}
    /\ Init /\ TurnstileInit /\ AccessInit /\ AppVersionsInit /\ SignedUrlsInit
    /\ DeviceTokensInit

MCNext ==
    \/ /\ part = "oauth" /\ Next
       /\ others(<<turnstileVars, accessVars, appVersionVars, signedUrlVars, deviceTokenVars>>)
    \/ /\ part = "turnstile" /\ TurnstileNext
       /\ others(<<vars, accessVars, appVersionVars, signedUrlVars, deviceTokenVars>>)
    \/ /\ part = "accessTokens" /\ AccessNext
       /\ others(<<vars, turnstileVars, appVersionVars, signedUrlVars, deviceTokenVars>>)
    \/ /\ part = "appVersions" /\ AppVersionsNext
       /\ others(<<vars, turnstileVars, accessVars, signedUrlVars, deviceTokenVars>>)
    \/ /\ part = "signedUrls" /\ SignedUrlsNext
       /\ others(<<vars, turnstileVars, accessVars, appVersionVars, deviceTokenVars>>)
    \/ /\ part = "deviceTokens" /\ DeviceTokensNext
       /\ others(<<vars, turnstileVars, accessVars, appVersionVars, signedUrlVars>>)

MCSpec == MCInit /\ [][MCNext]_<<part, vars, turnstileVars, accessVars, appVersionVars,
                                 signedUrlVars, deviceTokenVars>>

(* bound: with two attempts under way, less time, fewer rows, one exchange. *)
Budget ==
    Cardinality({a \in Attempt : attempt[a].page # "login"}) > 1 =>
        /\ Cardinality({r \in Request : req[r] # Idle}) <= 1
        /\ account.usable /\ now <= 1
        /\ row[MaxCredentials].kind = "none"

WithinBudget == Budget'

Body(p, os, v) == [platform |-> p, deviceOs |-> os, version |-> v]

(* A web and a mobile release, and changes of a train, a system, a version. *)
MCForms == {Body("web", Absent, 1), Body("mobile", "ios", 1), Body("mobile", "ios", Absent),
            Body(Absent, "android", Absent), Body(Absent, Absent, 2),
            Body("web", Absent, Absent)}

Symmetry == Permutations(Attempt) \union Permutations(Request)
=============================================================================
