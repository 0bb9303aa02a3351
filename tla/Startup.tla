------------------------------- MODULE Startup -------------------------------
(***************************************************************************)
(* A launch from a Server Profile: the static check, the secrets, the      *)
(* probes, the verdict and the mounts (launch.rs, profile/, probe.rs), and *)
(* the `check` command that ends after the probes.                         *)
(*                                                                         *)
(* A source is [id, kind, required, origins], an origin [private, secret]:  *)
(* the grant to connect to private addresses, and where its credential     *)
(* comes from; the secrets of converters and servers are origins too.  A   *)
(* helper is a command of the operator, and may answer every time it runs  *)
(* with another value or with a failure.                                   *)
(***************************************************************************)
EXTENDS Naturals, Sequences, FiniteSets, FiniteSetsExt, Functions

CONSTANTS
    Profiles,       \* [valid, sources]; valid: what validation checks field by field
    Kinds,          \* COMPILED_PROFILE_SOURCE_KINDS, in the order they are mounted
    Networked,      \* the kinds that are probed over the network
    Unprobed,       \* the kinds that have no probe
    Answers,        \* what a name may resolve to: sequences of [private, up]
    Values,         \* what a helper may print
    MaxSources      \* MAX_CATALOG_ENTRIES

VARIABLES
    command,        \* "serve", "check" or "probe" (check --probe)
    profile,        \* the Server Profile
    environment,    \* the variables its secrets name are set
    stage,          \* where the launch is
    at,             \* the source and the origin whose target is made
    known,          \* the secrets the redactor is made of
    helped,         \* the sources whose helper has run
    outcome,        \* the probe state of each source
    endpoint,       \* the connections of the probes
    dialled,        \* [source, address] of every connection (history)
    mounted         \* what is mounted

launchVars == <<command, profile, environment, stage, at, known, helped, outcome, endpoint,
                dialled, mounted>>

Sources == profile.sources
Indices == 1..Len(Sources)
OriginsOf(i) == 1..Len(Sources[i].origins)
Endpoints == UNION {{<<i, o>> : o \in OriginsOf(i)} : i \in Indices}
Origin(e) == Sources[e[1]].origins[e[2]]

Mountable(kind) == kind \in Range(Kinds)

Nothing == [allowed |-> {}, degraded |-> {}, credentials |-> {}, helped |-> {}]
EnvironmentValue == "environment"

LaunchInit ==
    /\ command \in {"serve", "check", "probe"} /\ profile \in Profiles
    /\ environment \in BOOLEAN
    /\ stage = "load" /\ at = <<1, 1>>
    /\ known = {} /\ helped = {}
    /\ outcome = [i \in Indices |-> "pending"]
    /\ endpoint = [e \in Endpoints |-> [pc |-> "idle", left |-> <<>>]]
    /\ dialled = {} /\ mounted = Nothing

-----------------------------------------------------------------------------
(* The static check *)

\* validate_sources.
Valid(p) ==
    /\ p.valid /\ Len(p.sources) <= MaxSources
    /\ IsInjective([i \in 1..Len(p.sources) |-> p.sources[i].kind])
    /\ IsInjective([i \in 1..Len(p.sources) |-> p.sources[i].id])

Ends(how) == stage' = how

\* ProfileDocument::load, check_profile: environment secrets are read now,
\* helpers only looked up.
Check ==
    LET environmental == \E i \in Indices : \E o \in OriginsOf(i) :
                             Sources[i].origins[o].secret = "environment"
    IN
    /\ stage = "load"
    /\ known' = IF environmental /\ environment THEN {EnvironmentValue} ELSE {}
    /\ Ends(IF ~Valid(profile) \/ (environmental /\ ~environment) THEN "usage"
            ELSE IF command = "check" THEN "success" ELSE "targets")
    /\ UNCHANGED <<command, profile, environment, at, helped, outcome, endpoint, dialled, mounted>>

-----------------------------------------------------------------------------
(* The targets *)

\* Mutant: the launch probes what it will not mount.
ProbedAlways(kind) == kind \notin Unprobed

\* probe_targets: a launch leaves the kinds it cannot mount alone.
Probed(kind) == kind \notin Unprobed /\ (command = "serve" => Mountable(kind))

\* The origins of the source at hand that have a helper still to run.
Helpers(i, from) == {o \in OriginsOf(i) : o >= from /\ Sources[i].origins[o].secret = "helper"}

NextSource == at' = <<at[1] + 1, 1>>

\* A source without an adapter.
Skip ==
    /\ stage = "targets" /\ at[1] \in Indices /\ ~Probed(Sources[at[1]].kind)
    /\ outcome' = [outcome EXCEPT ![at[1]] = "unsupported"]
    /\ NextSource
    /\ UNCHANGED <<command, profile, environment, stage, known, helped, endpoint, dialled, mounted>>

Unavailable(i) == IF Sources[i].required THEN "failed" ELSE "degraded"

\* secret::resolve for a deferred secret: one that fails fails the source.
RunHelper ==
    /\ stage = "targets" /\ at[1] \in Indices /\ Probed(Sources[at[1]].kind)
    /\ Helpers(at[1], at[2]) # {}
    /\ helped' = helped \cup {at[1]}
    /\ \/ \E value \in Values :
             /\ known' = known \cup {value}
             /\ at' = <<at[1], Min(Helpers(at[1], at[2])) + 1>>
             /\ UNCHANGED outcome
       \/ /\ outcome' = [outcome EXCEPT ![at[1]] = Unavailable(at[1])]
          /\ NextSource
          /\ UNCHANGED known
    /\ UNCHANGED <<command, profile, environment, stage, endpoint, dialled, mounted>>

\* A source that will be probed.
Target ==
    /\ stage = "targets" /\ at[1] \in Indices /\ Probed(Sources[at[1]].kind)
    /\ Helpers(at[1], at[2]) = {}
    /\ outcome' = [outcome EXCEPT ![at[1]] =
                      IF Sources[at[1]].kind \in Networked THEN "probing" ELSE "available"]
    /\ NextSource
    /\ UNCHANGED <<command, profile, environment, stage, known, helped, endpoint, dialled, mounted>>

\* ProbeRunner::run: all endpoints of all sources at once.
StartProbes ==
    /\ stage = "targets" /\ at[1] > Len(Sources)
    /\ Ends("probing")
    /\ endpoint' = [e \in DOMAIN endpoint |->
                      IF outcome[e[1]] = "probing" THEN [endpoint[e] EXCEPT !.pc = "lookup"]
                      ELSE endpoint[e]]
    /\ UNCHANGED <<command, profile, environment, at, known, helped, outcome, dialled, mounted>>

-----------------------------------------------------------------------------
(* The probes *)

Address == [private : BOOLEAN, up : BOOLEAN]

\* connect_policed: every address of the name must be allowed.
Authorized(answer, private) == answer # <<>> /\ (private \/ \A a \in Range(answer) : ~a.private)

\* The connections of a source whose probe has answered are dropped.
Answer(i, state) ==
    /\ outcome' = [outcome EXCEPT ![i] = state]
    /\ endpoint' = [e \in DOMAIN endpoint |->
                      IF e[1] = i THEN [pc |-> "idle", left |-> <<>>] ELSE endpoint[e]]

Dial(e, addresses) ==
    /\ endpoint' = [endpoint EXCEPT ![e] = [pc |-> "dial", left |-> addresses]]
    /\ dialled' = dialled \cup {[source |-> e[1], to |-> Head(addresses), private |-> Origin(e).private]}
    /\ UNCHANGED outcome

\* The name of an endpoint is resolved.
Lookup(e) ==
    /\ stage = "probing" /\ endpoint[e].pc = "lookup"
    /\ \E answer \in Answers :
          IF Authorized(answer, Origin(e).private) THEN Dial(e, answer)
          ELSE Answer(e[1], Unavailable(e[1])) /\ UNCHANGED dialled
    /\ UNCHANGED <<command, profile, environment, stage, at, known, helped, mounted>>

\* The connection is made: the source is available when all of them are.
Connected(e) ==
    LET connected == [endpoint EXCEPT ![e] = [pc |-> "up", left |-> <<>>]] IN
    /\ stage = "probing" /\ endpoint[e].pc = "dial" /\ Head(endpoint[e].left).up
    /\ IF \A o \in OriginsOf(e[1]) : connected[<<e[1], o>>].pc = "up"
       THEN Answer(e[1], "available")
       ELSE endpoint' = connected /\ UNCHANGED outcome
    /\ UNCHANGED <<command, profile, environment, stage, at, known, helped, dialled, mounted>>

\* The connection is refused: the next address is tried, and the last one
\* decides.
Refused(e) ==
    LET left == endpoint[e].left IN
    /\ stage = "probing" /\ endpoint[e].pc = "dial" /\ ~Head(left).up
    /\ IF Len(left) > 1 THEN Dial(e, Tail(left))
       ELSE Answer(e[1], Unavailable(e[1])) /\ UNCHANGED dialled
    /\ UNCHANGED <<command, profile, environment, stage, at, known, helped, mounted>>

\* All have answered, or PROBE_RUN_DEADLINE has passed: who has not answered is
\* unavailable, and its connections are dropped.
ProbesEnd ==
    /\ stage = "probing"
    /\ outcome' = [i \in Indices |-> IF outcome[i] = "probing" THEN Unavailable(i) ELSE outcome[i]]
    /\ endpoint' = [e \in DOMAIN endpoint |-> [pc |-> "idle", left |-> <<>>]]
    /\ Ends("verdict")
    /\ UNCHANGED <<command, profile, environment, at, known, helped, dialled, mounted>>

-----------------------------------------------------------------------------
(* The verdict *)

\* Mutant: a source that is not available stops a launch, required or not.
AcceptableWhole(i) == outcome[i] = "available"

\* outcome_is_acceptable.
Acceptable(i) == outcome[i] = "available" \/ (outcome[i] = "degraded" /\ ~Sources[i].required)

\* degraded_ids, after the kinds without an adapter.
Stops == \E i \in Indices : ~Mountable(Sources[i].kind) \/ ~Acceptable(i)

\* `check --probe` answers; a launch goes on with its roots, which may fail to
\* open.
Verdict ==
    /\ stage = "verdict"
    /\ IF command = "probe"
       THEN Ends(IF \A i \in Indices : Acceptable(i) THEN "success" ELSE "unavailable")
       ELSE IF Stops THEN Ends("unavailable")
       ELSE stage' \in {"mount", "noroots"}
    /\ UNCHANGED <<command, profile, environment, at, known, helped, outcome, endpoint, dialled, mounted>>

-----------------------------------------------------------------------------
(* The mounts *)

\* A degraded source is held apart from the allowlist, and gets no credential.
HeldApart(i) == outcome[i] = "degraded"

\* The origins still to be mounted: all sources of one kind, in the compiled
\* order, and then those of the next.
ToMount == {e \in Endpoints : Mountable(Sources[e[1]].kind)} \ (mounted.allowed \cup mounted.degraded)
Compiled(e) == CHOOSE k \in DOMAIN Kinds : Kinds[k] = Sources[e[1]].kind
Precedes(e, f) ==
    \/ Compiled(e) < Compiled(f)
    \/ Compiled(e) = Compiled(f) /\ e[1] < f[1]
    \/ e[1] = f[1] /\ e[2] < f[2]

\* mount_https and mount_github, for the next origin: a secret is resolved
\* once more, and one that fails ends the launch.
Mount ==
    /\ stage = "mount"
    /\ \E e \in ToMount :
          LET allowed == [mounted EXCEPT !.allowed = @ \cup {e}]
              given(value) == [allowed EXCEPT !.credentials = @ \cup {<<e, value>>}]
              ran == mounted.helped \cup {e[1]}
          IN /\ \A f \in ToMount \ {e} : Precedes(e, f)
             /\ IF HeldApart(e[1])
                THEN mounted' = [mounted EXCEPT !.degraded = @ \cup {e}] /\ UNCHANGED stage
                ELSE CASE Origin(e).secret = "none" -> mounted' = allowed /\ UNCHANGED stage
                       [] Origin(e).secret = "environment" ->
                            mounted' = given(EnvironmentValue) /\ UNCHANGED stage
                       [] Origin(e).secret = "helper" ->
                            \/ /\ \E value \in Values :
                                     mounted' = [given(value) EXCEPT !.helped = ran]
                               /\ UNCHANGED stage
                            \/ mounted' = [mounted EXCEPT !.helped = ran] /\ Ends("nosecret")
    /\ UNCHANGED <<command, profile, environment, at, known, helped, outcome, endpoint, dialled>>

Serve ==
    /\ stage = "mount" /\ ToMount = {}
    /\ Ends("serving")
    /\ UNCHANGED <<command, profile, environment, at, known, helped, outcome, endpoint, dialled, mounted>>

LaunchNext ==
    \/ Check \/ Skip \/ RunHelper \/ Target \/ StartProbes
    \/ \E e \in DOMAIN endpoint : Lookup(e)
    \/ \E e \in DOMAIN endpoint : Connected(e)
    \/ \E e \in DOMAIN endpoint : Refused(e)
    \/ ProbesEnd \/ Verdict \/ Mount \/ Serve

LaunchSpec == LaunchInit /\ [][LaunchNext]_launchVars

-----------------------------------------------------------------------------
(* Correctness *)

\* A launch touches nothing it was not given: it connects to a private address
\* only under the grant of the origin, whatever else the name resolves to; for
\* a kind it cannot mount it neither connects nor runs a helper; and when its
\* probing is over no probe of it is still under way (probe.rs,
\* connect_policed; check.rs, probe_targets).
LaunchTouchesGranted ==
    /\ \A d \in dialled : d.to.private => d.private
    /\ command = "serve" =>
          \A i \in helped \cup {d.source : d \in dialled} : Mountable(Sources[i].kind)
    /\ stage \notin {"probing", "targets"} => \A e \in DOMAIN endpoint : endpoint[e].pc = "idle"

\* What is served is what the probes found, and nothing of a source is half
\* mounted: every source is mounted whole and has its credentials, or it is
\* optional, did not answer, is held apart and has had no credential resolved
\* for the mount.  A launch that ends otherwise has a cause: a source
\* that is required and did not answer, or a kind without an adapter, or the
\* configuration (launch.rs, degraded_ids and from_checked_profile).
LaunchFollowsProbes ==
    /\ stage = "serving" =>
          \A i \in Indices :
              LET all == {<<i, o>> : o \in OriginsOf(i)}
                  secret == {e \in all : Origin(e).secret # "none"}
                  given == {c[1] : c \in {c \in mounted.credentials : c[1][1] = i}}
              IN \/ /\ outcome[i] = "available"
                    /\ all \subseteq mounted.allowed /\ all \cap mounted.degraded = {}
                    /\ given = secret
                 \/ /\ ~Sources[i].required /\ all \subseteq mounted.degraded
                    /\ all \cap mounted.allowed = {} /\ given = {} /\ i \notin mounted.helped
    /\ stage = "unavailable" => \E i \in Indices :
          \/ IF command = "serve" THEN ~Mountable(Sources[i].kind) ELSE Sources[i].kind \in Unprobed
          \/ outcome[i] = "failed"

=============================================================================
