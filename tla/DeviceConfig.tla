---------------------------- MODULE DeviceConfig ----------------------------
(***************************************************************************)
(* The persistent configuration of the probe: device_configuration in RAM, *)
(* its CRC, and its image in an I2C EEPROM that is written page by page    *)
(* (device_config.c, eeprom.c).  Power may be cut between any two pages,   *)
(* and any page may fail for good after the retries.                       *)
(*                                                                         *)
(* A configuration is the contents of its pages.  The CRC is modelled by   *)
(* the configuration it was computed from: it is assumed to tell apart a   *)
(* configuration from the mixtures of two that a torn write can leave.     *)
(* The CRC is the first field, so it is written with the first page.  The  *)
(* MAC address has its own EEPROM cells, is not covered by the CRC and is  *)
(* never written: it is left out.                                          *)
(***************************************************************************)
EXTENDS Integers

CONSTANTS
    PageCount,   \* pages of EEPROM_MAX_WRITE_SIZE bytes the image takes
    Value,       \* contents of a page
    Default,     \* the configuration of device_config_reset_to_default
    Settings,    \* the pages each setting spans
    OFF, INVALID

Page == 1..PageCount
Config == [Page -> Value]

ASSUME PageCountAssumption == PageCount \in Nat \ {0}
ASSUME ConfigAssumption ==
    /\ Default \in Config
    /\ Settings \subseteq SUBSET Page
    /\ OFF \notin Config /\ INVALID \notin Config /\ OFF # INVALID

VARIABLES
    conf,     \* device_configuration (without crc), OFF without power
    eeprom,   \* the pages in the EEPROM
    ecrc,     \* the CRC in the EEPROM
    next,     \* the page eeprom_write is about to write, 0 when it is idle
    torn      \* the last save was cut short by a failed page or a power cut

vars == <<conf, eeprom, ecrc, next, torn>>

\* The EEPROM comes with anything in it.
Init ==
    /\ conf = OFF
    /\ eeprom \in Config
    /\ ecrc \in Config
    /\ next = 0
    /\ torn = TRUE

(***************************************************************************)
(* device_config_init: read everything, compare the CRC, fall back to the  *)
(* default and save it.  The result of the read is ignored: when the       *)
(* EEPROM does not answer, the configuration stays all zero, its CRC field *)
(* too, which is not the CRC of a zero configuration.                      *)
(***************************************************************************)
\* Mutant: the CRC is not compared.
CrcMatchesAlways(readOk) == readOk

CrcMatches(readOk) == readOk /\ ecrc = eeprom

device_config_init(readOk) ==
    /\ conf = OFF
    /\ IF CrcMatches(readOk)
       THEN /\ conf' = eeprom
            /\ next' = 0
            /\ torn' = FALSE
       ELSE /\ conf' = Default
            /\ next' = 1
            /\ torn' = TRUE
    /\ UNCHANGED <<eeprom, ecrc>>

(***************************************************************************)
(* device_config_set_value: a value equal to the present one is not saved, *)
(* even if the last save failed; any other goes to RAM and is saved.  The  *)
(* recursive mutex is held until the save has ended.                       *)
(***************************************************************************)
device_config_set_value(setting, value) ==
    LET new == [p \in Page |-> IF p \in setting THEN value[p] ELSE conf[p]] IN
    /\ conf # OFF
    /\ next = 0
    /\ new # conf
    /\ conf' = new
    /\ next' = 1
    /\ torn' = TRUE
    /\ UNCHANGED <<eeprom, ecrc>>

(***************************************************************************)
(* One turn of the loop of eeprom_write.  A page is retried while the      *)
(* EEPROM does not acknowledge; the loop gives up when the retries reach   *)
(* EEPROM_WR_ATTEMPTS, also if the last one was acknowledged, and the      *)
(* result is ignored by every caller of device_config_write_all_settings.  *)
(***************************************************************************)
Program ==
    /\ eeprom' = [eeprom EXCEPT ![next] = conf[next]]
    /\ ecrc' = IF next = 1 THEN conf ELSE ecrc

\* Mutant: the loop stops one page short.
AfterPageShort == IF next + 1 >= PageCount THEN 0 ELSE next + 1

AfterPage == IF next = PageCount THEN 0 ELSE next + 1

WritePage ==
    /\ conf # OFF
    /\ next # 0
    /\ Program
    /\ next' = AfterPage
    /\ torn' = (AfterPage # 0)
    /\ UNCHANGED conf

PageFails(acknowledged) ==
    /\ conf # OFF
    /\ next # 0
    /\ IF acknowledged THEN Program ELSE UNCHANGED <<eeprom, ecrc>>
    /\ next' = 0
    /\ UNCHANGED <<conf, torn>>

PowerCut ==
    /\ conf # OFF
    /\ conf' = OFF
    /\ next' = 0
    /\ UNCHANGED <<eeprom, ecrc, torn>>

Next ==
    \/ \E readOk \in BOOLEAN : device_config_init(readOk)
    \/ \E setting \in Settings, value \in Config :
          device_config_set_value(setting, value)
    \/ WritePage
    \/ \E acknowledged \in BOOLEAN : PageFails(acknowledged)
    \/ PowerCut

Spec == Init /\ [][Next]_vars

-----------------------------------------------------------------------------
(***************************************************************************)
(* Every variable has its type.                                            *)
(***************************************************************************)
TypeOK ==
    /\ conf \in Config \cup {OFF}
    /\ eeprom \in Config
    /\ ecrc \in Config
    /\ next \in 0..PageCount
    /\ torn \in BOOLEAN

(***************************************************************************)
(* device_config_write_all_settings works: unless a page failed or the     *)
(* power was cut since, the EEPROM holds the configuration in use with its *)
(* CRC whenever no save is under way.                                      *)
(***************************************************************************)
SavedUnlessTorn ==
    conf # OFF /\ next = 0 /\ ~torn => eeprom = conf /\ ecrc = conf

(***************************************************************************)
(* The mapping to the abstract store: what a start would accept.           *)
(***************************************************************************)
Accepted == IF ecrc = eeprom THEN eeprom ELSE INVALID

Store == INSTANCE ConfigStore
             WITH Configs <- Config, live <- conf, stored <- Accepted

(***************************************************************************)
(* Page by page writing with the CRC in the first page implements the      *)
(* store: no interleaving of saves, failed pages and power cuts makes a    *)
(* start use a mixture of two configurations.                              *)
(***************************************************************************)
ImplementsStore == Store!StoreSpec
=============================================================================
