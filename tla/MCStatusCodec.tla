--------------------------- MODULE MCStatusCodec ---------------------------
(***************************************************************************)
(* Payloads for StatusCodec: labels present and missing, both spellings of *)
(* INITIALISING, words nobody knows, numbers out of the range of a two-bit *)
(* uint32_t, and arrays longer than their limits.                          *)
(***************************************************************************)
EXTENDS StatusCodec

MCRemote(id) ==
    [remoteId |-> id, wakeupConfig |-> {}, wakeupCustomList |-> {<<1, 7, 2>>}]

\* A status with everything, and what is worth changing in it.
MCStatus ==
    [netType |-> {1}, pairingState |-> {"COMPLETE"}, irProgState |-> {"COMPLETE"},
     netTypesSupported |-> {<<0, 9, 1>>},
     remoteData |-> {<<MCRemote({}), MCRemote({5}), MCRemote({2})>>}]

MCStatuses ==
    {MCStatus, NoStatus, [MCStatus EXCEPT !.irProgState = {}]}
    \cup {[MCStatus EXCEPT !.netType = n] : n \in {{}, {4}}}
    \cup {[MCStatus EXCEPT !.pairingState = p] :
             p \in {{}, {"INITIALIZING"}, {"INITIALISING"}, {"complete"}}}

MCNetworks ==
    {[status |-> {}, netType |-> n] : n \in {{}, {2}}}
    \cup {[status |-> {s}, netType |-> {}] : s \in MCStatuses}

MCFirmwares ==
    {[status |-> {}]}
    \cup {[status |-> {f}] : f \in
            [upgradeSessionId : {{}, {"a"}}, macAddress : {{}, {"m"}},
             upgradeState : {{}, {"success"}, {"SUCCESS"}},
             percentComplete : {{6}}, errorString : {{}}]}
    \cup {[status |-> {[NoFirmware EXCEPT !.upgradeState = {"canceled"},
                                         !.errorString = {"e"}]}]}

MCValidations ==
    {[status |-> s, code |-> {<<1, 2, 3, 8>>}, key |-> {6}] :
        s \in {{"SUCCESS"}, {"PENDING"}, {"success"}}}
    \cup {[status |-> {}, code |-> {}, key |-> {}]}

=============================================================================
