------------------------------- MODULE MCAprs -------------------------------
(***************************************************************************)
(* The APRS hub, its outbound messages, its sessions and the accounts whose *)
(* callsigns they look up, side by side.  They share no state: `part' says  *)
(* which of them moves, and the others stay where they begin.               *)
(***************************************************************************)
EXTENDS AprsHub, AprsOut, AprsSession, Accounts, TLC

VARIABLE part

(* A beacon, a message to us that the hub may route, and an object, which it *)
(* filters.                                                                  *)
Plain(body) == [src |-> "peer", body |-> body, far |-> FALSE, infra |-> FALSE,
                text |-> FALSE, approved |-> TRUE]
MCPackets == {Plain("beacon"), [Plain("hello") EXCEPT !.text = TRUE],
              [Plain("object") EXCEPT !.infra = TRUE]}

MCCallsigns == <<"a">>
MCGroups == {<<>>, <<"b", "a">>}

MCBytes == {"x", "FEND", "FESC", "DATA"}
MCPayloads == {<<"x">>, <<"x", "FEND">>, <<"FESC", "x">>, <<"DATA">>}

(* Nothing prefers one receiver, instance, caller or user name.  The parts   *)
(* share no state, so the first three are the same model values.             *)
AprsSymmetry == Permutations(Instances) \cup Permutations(UserNames)

AprsInit ==
    /\ part \in {"hub", "out", "session", "accounts"}
    /\ HubInit /\ OutInit /\ SessInit /\ AccountsInit
    /\ part # "out" => requireAck = {}

AprsNext ==
    \/ part = "hub" /\ HubNext /\ UNCHANGED <<part, outVars, sessVars, accountVars>>
    \/ part = "out" /\ OutNext /\ UNCHANGED <<part, hubVars, sessVars, accountVars>>
    \/ part = "session" /\ SessNext /\ UNCHANGED <<part, hubVars, outVars, accountVars>>
    \/ part = "accounts" /\ AccountsNext /\ UNCHANGED <<part, hubVars, outVars, sessVars>>

AprsSpec == AprsInit /\ [][AprsNext]_<<part, hubVars, outVars, sessVars, accountVars>>
=============================================================================
