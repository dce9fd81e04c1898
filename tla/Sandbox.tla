------------------------------- MODULE Sandbox -------------------------------
(***************************************************************************)
(* cloud/sandbox.py: one program run in a sandbox, the local one (a        *)
(* hardened subprocess) or the container.  The host decides which limits   *)
(* exist: it grants a limit, it refuses it, or its module resource has     *)
(* never heard of it.  What the limits do to the program is not modelled:  *)
(* it prints the line the caller looks for, it prints something else, it   *)
(* exits with an error, or it does not end in time.                        *)
(***************************************************************************)
CONSTANTS
    Limits,     \* the resource limits of _limit_spec
    Hosts       \* the hosts: backend, system and what it makes of each limit

ASSUME SandboxAssumption ==
    Hosts \subseteq [backend : {"local", "container"}, windows : BOOLEAN,
                     limit : [Limits -> {"granted", "refused", "unknown"}]]

VARIABLE box    \* the sandbox: the program in it, its directory, its result

\* inForce are the limits the program runs under, unavailable the ones the
\* result says it did not; spawned and jail are the child and the directory.
NoBox == [at |-> "none"]
Outcomes == {"printed", "silent", "exit", "timeout", "container_error"}
Boxes == [at : {"jailed", "running", "ended", "left", "raised"}, host : Hosts,
          jail : BOOLEAN, spawned : BOOLEAN, inForce : SUBSET Limits,
          unavailable : SUBSET Limits, outcome : Outcomes \union {"none"}]

Local == box.host.backend = "local"
Granted(host) == {l \in Limits : host.limit[l] = "granted"}

\* get_sandbox, and mkdtemp at the start of run.
EnterBox ==
    /\ box = NoBox
    /\ \E host \in Hosts, made \in BOOLEAN :
          box' = [at |-> IF made THEN "jailed" ELSE "raised", host |-> host, jail |-> made,
                  spawned |-> FALSE, inForce |-> {}, unavailable |-> {}, outcome |-> "none"]

\* The script cannot be written.  The local sandbox is inside its try, and
\* removes the directory; the container is not.
WriteFails ==
    /\ box.at = "jailed"
    /\ box' = [box EXCEPT !.at = "raised", !.jail = ~Local]

\* _preexec: a limit the host refuses is passed over, one it does not know
\* raises, which ends the child before the program.
Launch ==
    /\ box.at = "jailed" /\ Local
    /\ IF box.host.windows
       THEN box' = [box EXCEPT !.at = "running", !.spawned = TRUE]
       ELSE IF \E l \in Limits : box.host.limit[l] = "unknown"
       THEN box' = [box EXCEPT !.at = "raised", !.jail = FALSE]
       ELSE box' = [box EXCEPT !.at = "running", !.spawned = TRUE,
                               !.inForce = Granted(box.host)]

\* docker run: limits the memory and the processor by itself, or fails, as it
\* does for whatever is raised.
LaunchContainer ==
    /\ box.at = "jailed" /\ ~Local
    /\ \/ box' = [box EXCEPT !.at = "running", !.spawned = TRUE,
                             !.inForce = Limits \intersect {"memory"}]
       \/ box' = [box EXCEPT !.at = "left", !.jail = FALSE, !.outcome = "container_error"]

\* The program ends, or subprocess.run gives up on it and kills its child: the
\* program, or the docker client, which leaves the container running.
Exits ==
    /\ box.at = "running"
    /\ \E outcome \in {"printed", "silent", "exit", "timeout"} :
          box' = IF Local
                 THEN [box EXCEPT !.at = "ended", !.spawned = FALSE, !.outcome = outcome]
                 ELSE [box EXCEPT !.at = "left", !.jail = FALSE,
                                  !.spawned = (outcome = "timeout"),
                                  !.outcome = IF outcome = "timeout" THEN "container_error"
                                              ELSE outcome]

\* Mutant of Probe: a probe that fails has nothing to report.
ProbeQuietly ==
    /\ box.at = "ended"
    /\ \E works \in BOOLEAN :
          box' = [box EXCEPT !.at = "left", !.jail = FALSE, !.unavailable =
                    IF box.host.windows THEN Limits
                    ELSE IF works THEN Limits \ Granted(box.host) ELSE {}]

\* unsupported_limits: a child of its own tries every limit; when the probe
\* itself fails, none counts as available.  Then the directory goes.
Probe ==
    /\ box.at = "ended"
    /\ \E works \in BOOLEAN :
          box' = [box EXCEPT !.at = "left", !.jail = FALSE, !.unavailable =
                    IF box.host.windows \/ ~works THEN Limits
                    ELSE Limits \ Granted(box.host)]

BoxStep == EnterBox \/ WriteFails \/ Launch \/ LaunchContainer \/ Exits \/ Probe

-----------------------------------------------------------------------------
\* The result names every limit the program ran without, on every host and
\* whatever becomes of the probe: the isolation is never weaker than it says
\* (the comment of SandboxResult).  Of the local sandbox only: the container
\* reports nothing.
UnsetIsReported ==
    box # NoBox /\ Local /\ box.at = "left" => Limits \ box.inForce \subseteq box.unavailable

\* Neither the directory nor the program outlives the local sandbox, however
\* it is left: the script not written, a limit nobody knows, a timeout, an error.
NothingLeftBehind ==
    box # NoBox /\ Local /\ box.at \in {"left", "raised"} => ~box.jail /\ ~box.spawned
=============================================================================
