------------------------------- MODULE MCFleet --------------------------------
(* What operators do to a host for TLC: items of bulk operations, and terminals. *)
(* A behaviour is about one of the two.                                          *)
EXTENDS NodeOps, SshTerminal, TLC

CONSTANTS s1, s2

\* The pairs of items that get in each other's way, and pairs of a kind.
MCKinds ==
    {<<"deploy", "deploy">>, <<"deploy", "rebootAgent">>, <<"deploy", "rebootSSH">>,
     <<"deploy", "restartAgent">>, <<"deploy", "updateAgent">>,
     <<"updateSSH", "rebootSSH">>, <<"updateSSH", "updateSSH">>,
     <<"remnaInstall", "remnaInstall">>, <<"remnaInstall", "remnaRun">>,
     <<"remnaInstall", "rebootSSH">>, <<"vlfProto", "vlfProto">>}

MCFleetSymmetry == Permutations({s1, s2})

VARIABLE focus

MCInit ==
    /\ NopInit /\ SshInit /\ focus \in {"items", "terminals"}
    /\ focus = "terminals" => item[1].kind = "vlfProto"

Operate == focus = "items" /\ NopNext /\ UNCHANGED <<sshVars, focus>>
Terminals == focus = "terminals" /\ SshNext /\ UNCHANGED <<nopVars, focus>>

MCNext == Operate \/ Terminals

MCSpec == MCInit /\ [][MCNext]_<<nopVars, sshVars, focus>>

\* Every variable of the two has its type.
FleetTypeOK == NopTypeOK /\ SshTypeOK
==============================================================================
