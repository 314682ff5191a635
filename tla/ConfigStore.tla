---------------------------- MODULE ConfigStore -----------------------------
(***************************************************************************)
(* What the configuration store of the probe promises: the configuration   *)
(* in use after a start is the one last saved as a whole or the default,   *)
(* never a mixture, wherever the power was cut.  Saving is not atomic: for *)
(* a while the store may hold no valid configuration at all.               *)
(***************************************************************************)
CONSTANTS
    Configs,   \* all configurations
    Default,   \* the factory configuration
    OFF,       \* no configuration in use: the probe is not running
    INVALID    \* the store holds no valid configuration

VARIABLES
    live,      \* the configuration in use
    stored     \* the configuration a start would find

storeVars == <<live, stored>>

StoreInit ==
    /\ live = OFF
    /\ stored \in Configs \cup {INVALID}

\* The stored configuration is used if it is valid and could be read.
Start ==
    /\ live = OFF
    /\ live' \in {Default} \cup ({stored} \ {INVALID})
    /\ UNCHANGED stored

Change ==
    /\ live # OFF
    /\ live' \in Configs
    /\ UNCHANGED stored

\* Saving the configuration in use invalidates the store until it is done.
Save ==
    /\ live # OFF
    /\ stored' \in {INVALID, live}
    /\ UNCHANGED live

Stop ==
    /\ live' = OFF
    /\ UNCHANGED stored

StoreNext == Start \/ Change \/ Save \/ Stop

StoreSpec == StoreInit /\ [][StoreNext]_storeVars
=============================================================================
