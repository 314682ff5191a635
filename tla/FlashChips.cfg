\* Every driver, loads of up to two units, two troubles anywhere.  A driver that
\* waits for ever on a faulted link stops the probe: deadlock is not an error.
SPECIFICATION FairSpec
CONSTANTS
    Families = {"stm32f1", "stm32f4", "stm32l0", "stm32l4", "stm32g0", "stm32h7",
                "nrf51", "samd", "samx5x", "sam3x", "sam4s", "sam4l", "efm32", "lmi",
                "kinetis", "ke04", "lpc", "msp432", "rp", "stm32l0_data"}
    Units = 3
    BankStart = 1
    MaxLen = 2
    MaxTrouble = 2
INVARIANT SuccessIsReal
INVARIANT DoneIsInFlash
INVARIANT RetrySucceeds
INVARIANT OptionsKept
PROPERTY CallsReturn
CHECK_DEADLOCK FALSE
