---------------------------- MODULE FlashDrivers ----------------------------
(***************************************************************************)
(* The functions of the chip drivers as sequences of steps.  A step is one *)
(* register access, one transfer, one polling loop or one test of the      *)
(* source; module FlashChips says what each does.                          *)
(*                                                                         *)
(* "data" is the command that programs; where the data first goes to a     *)
(* buffer of the chip or to its RAM, "buffer" is that transfer.            *)
(* target_mem_write and target_mem_read end with target_check_error, whose *)
(* result no driver looks at: "check" is a fault forgotten in this way.    *)
(*                                                                         *)
(* A command that writes option bytes (user row, user page) is asked to    *)
(* change one word and has to keep the others, which stand for one word    *)
(* too: "asked" and "kept" program these, "opt_read" reads them,           *)
(* "opt_commit" hands the registers that shadow them to the flash.  The    *)
(* value asked for is valid and not the present one, and the present one   *)
(* is not blank.  The "erase" form of these commands, which asks for all   *)
(* words, is left out.                                                     *)
(***************************************************************************)
EXTENDS Integers, Sequences, SequencesExt

Times(n, body) == FlattenSeq([i \in 1..n |-> body])

stm32f1_flash_unlock == <<"unlock", "unlocked">>

\* Mutant: the error flags are not looked at.
stm32f1_erase_unchecked(n) == stm32f1_flash_unlock \o Times(n, <<"erase", "start", "busy">>)

stm32f1_flash_erase(n) == stm32f1_flash_unlock \o Times(n, <<"erase", "start", "busy">>) \o <<"eop">>
stm32f1_flash_write == <<"program", "data", "busy_checked", "seen">>
stm32f1_cmd_erase_mass == stm32f1_flash_unlock \o <<"erase", "start_all", "busy", "eop">>

stm32f1_option_erase == <<"opter", "opt_erase", "busy">>
stm32f1_option_write_erased(word) == <<"optpg", word, "busy">>

\* Mutant: only the changed word is written after the erase.
stm32f1_option_write_one ==
    <<"opt_read", "opt_same">> \o stm32f1_option_erase \o stm32f1_option_write_erased("asked")

stm32f1_option_write ==
    <<"opt_read", "opt_same">> \o stm32f1_option_erase
        \o stm32f1_option_write_erased("asked") \o stm32f1_option_write_erased("kept")
\* RDPRT is read before the unlock and tested after it.
stm32f1_cmd_option ==
    <<"rdprt">> \o stm32f1_flash_unlock \o <<"optkey", "unprotected">> \o stm32f1_option_write

stm32f4_flash_unlock == <<"unlock">>
stm32f4_flash_erase(n) == stm32f4_flash_unlock \o Times(n, <<"erase", "start", "busy">>) \o <<"error">>

\* Mutant: the link is only checked while the controller is busy.
stm32f4_write_unchecked == <<"program", "data", "busy", "seen">>

stm32f4_flash_write == <<"program", "data", "busy_checked", "seen">>
stm32f4_cmd_erase_mass == stm32f4_flash_unlock \o <<"erase", "start_all", "busy", "eop">>
stm32f4_option_write == <<"optkey", "busy", "opt_commit", "busy", "optlock", "reset">>
stm32f4_cmd_option == stm32f4_option_write

stm32l4_flash_unlock == <<"unlock">>
stm32l4_flash_erase(n) ==
    stm32l4_flash_unlock \o <<"busy", "clear">> \o Times(n, <<"erase", "start", "busy">>) \o <<"error">>
stm32l4_flash_write == <<"program", "data", "check", "busy_checked", "seen">>
stm32l4_cmd_erase == stm32l4_flash_unlock \o <<"erase", "start_all", "busy", "error">>
stm32l4_option_write ==
    stm32l4_flash_unlock \o <<"optkey", "busy", "opt_commit", "busy", "obl", "busy", "lock">>
stm32l4_cmd_option == <<"opt_read">> \o stm32l4_option_write

stm32g0_flash_unlock == <<"unlock">>
stm32g0_flash_lock == <<"lock">>
stm32g0_flash_erase(n) ==
    <<"busy", "clear">> \o stm32g0_flash_unlock \o Times(n, <<"erase", "start", "busy">>) \o <<"error">>
stm32g0_flash_write ==
    stm32g0_flash_unlock \o <<"program", "data", "check", "busy_checked", "seen">>
stm32g0_cmd_erase_mass == stm32g0_flash_unlock \o <<"erase", "start_all", "busy", "error">>
stm32g0_flash_option_unlock == <<"optkey">>
stm32g0_option_write ==
    stm32g0_flash_unlock \o stm32g0_flash_option_unlock \o <<"busy", "opt_commit", "busy", "obl">>
stm32g0_cmd_option == stm32g0_option_write

stm32h7_flash_unlock == <<"busy", "old_errors", "unlock", "unlocked">>
stm32h7_flash_erase(n) ==
    stm32h7_flash_unlock \o Times(n, <<"erase", "start", "busy_checked", "seen">>)
stm32h7_flash_write ==
    stm32h7_flash_unlock \o <<"read", "program", "data", "check", "busy", "seen", "read">>
stm32h7_cmd_erase == stm32h7_flash_unlock \o <<"erase", "start_all", "busy", "error">>

stm32lx_nvm_lock == <<"lock">>
stm32lx_nvm_prog_data_unlock == <<"lock", "unlock", "unlocked">>
stm32lx_nvm_prog_erase(n) ==
    stm32lx_nvm_prog_data_unlock \o <<"erase", "reads_back", "clear_err">>
        \o Times(n, <<"start">>) \o stm32lx_nvm_lock \o <<"busy_only", "seen_eop", "checked">>
stm32lx_nvm_prog_write ==
    stm32lx_nvm_prog_data_unlock \o <<"busy", "program", "data", "check">>
        \o stm32lx_nvm_lock \o <<"busy_only", "seen_eop", "checked">>
stm32lx_nvm_data_erase(n) ==
    stm32lx_nvm_prog_data_unlock \o <<"erase", "reads_back">> \o Times(n, <<"start">>)
        \o stm32lx_nvm_lock \o <<"busy_only", "seen_eop", "checked">>
stm32lx_nvm_data_write ==
    stm32lx_nvm_prog_data_unlock \o <<"program", "data", "checked">>
        \o stm32lx_nvm_lock \o <<"busy_only", "seen_eop", "checked">>

\* The result of stm32lx_option_write is only printed.
stm32lx_nvm_opt_unlock == <<"lock", "unlock", "optkey", "opt_unlocked">>
stm32lx_option_write == <<"optpg", "asked", "busy_only">>
stm32lx_cmd_option == stm32lx_nvm_opt_unlock \o stm32lx_option_write \o stm32lx_nvm_lock

\* Mutant: the link is not checked while the controller is not ready.
nrf51_erase_unchecked(n) ==
    <<"erase", "spin">> \o Times(n, <<"start", "spin">>) \o <<"read", "spin">>

nrf51_flash_erase(n) ==
    <<"erase", "ready">> \o Times(n, <<"start", "ready">>) \o <<"read", "ready">>
nrf51_flash_write == <<"program", "ready", "data", "check", "ready", "read">>
nrf51_cmd_erase_all == <<"erase", "ready", "start_all", "ready">>

samd_flash_erase(n) == Times(n, <<"unlock", "start", "ready", "lock">>)
samd_flash_write == <<"buffer", "check", "unlock", "data", "ready", "lock">>
\* The chip erase of the DSU, for both families.  It returns true also if it failed.
samd_cmd_erase_all == <<"clear", "start_all", "done">>
samd_set_flashlock == <<"opt_read", "opt_erase", "ready", "opt_page">>

samx5x_flash_erase(n) ==
    <<"clear", "permitted">>
        \o Times(n, <<"unlock", "start", "ready_err", "checked", "error", "lock">>)
samx5x_flash_write ==
    <<"clear", "unlock", "buffer", "check", "data", "ready_err", "checked", "error", "lock">>
samx5x_write_user_page ==
    <<"clear", "opt_erase", "ready_err">>
        \o <<"buffer", "check", "asked", "ready_err">> \o <<"buffer", "check", "kept", "ready_err">>
samx5x_update_user_word == <<"opt_read", "check", "opt_same">> \o samx5x_write_user_page
samx5x_set_flashlock == <<"opt_read", "check", "opt_same">> \o samx5x_update_user_word

sam3x_flash_cmd(cmd) == <<cmd, "ready", "error">>
\* SAM4S, "sam4s": pages are erased eight at a time, a write only programs.
sam4_flash_erase(n) == Times(n, sam3x_flash_cmd("start"))
\* SAM3X, SAM3N/S and SAM3U, "sam3x": there is no page erase, the erase reports success
\* and does nothing, and the command of a write erases the page first.
sam3_flash_erase == <<>>
sam3x_flash_write == <<"buffer", "check">> \o sam3x_flash_cmd("data")

\* The first command of a write clears the page buffer.
sam4l_flash_command(cmd) == <<"ready_bounded">> \o cmd
sam4l_flash_erase(n) == Times(n, sam4l_flash_command(<<"start">>))
sam4l_flash_write_buf ==
    sam4l_flash_command(<<>>) \o <<"buffer">> \o sam4l_flash_command(<<"data">>)

cortexm_run_stub == <<"checked", "data", "stub", "eop">>

efm32_flash_erase(n) == <<"unlock">> \o Times(n, <<"start", "busy">>)
efm32_flash_write == <<"buffer", "check">> \o cortexm_run_stub
efm32_cmd_erase_all == <<"unlock", "start_all", "busy", "lock">>

lmi_flash_erase(n) == <<"check">> \o Times(n, <<"start", "busy_only", "checked">>)
lmi_flash_write == <<"check", "buffer", "check", "checked">> \o cortexm_run_stub

kl_gen_command(cmd) == <<"clear", "spin", cmd, "spin_err">>
kl_gen_flash_erase(n) == Times(n, kl_gen_command("start"))
\* Unless unsafe operations are enabled, the data programmed is the data asked for
\* with its security byte set to unsecured: that is what "new" means here.
kl_gen_flash_write == kl_gen_command("data")

ke04_command(cmd) == <<"spin", "clear", "spin", cmd, "spin_err">>
ke04_flash_erase(n) == Times(n, ke04_command("start"))
ke04_flash_write == ke04_command("data")
\* The result of ke04_command is not looked at.
ke04_cmd_mass_erase == ke04_command("start_all")

\* PREPARE, then ERASE and BLANKCHECK of the whole range, or PROGRAM.
lpc_iap_call(cmd, result) == <<"buffer", "check">> \o cmd \o <<"iap", result, "check">>
lpc_flash_erase ==
    lpc_iap_call(<<>>, "error") \o lpc_iap_call(<<"start_range">>, "error") \o lpc_iap_call(<<>>, "blank")
lpc_flash_write ==
    lpc_iap_call(<<>>, "error") \o <<"buffer", "check">> \o lpc_iap_call(<<"data">>, "error")
\* The result of the call that initialises the IAP is not looked at.
lpc43xx_flash_init == lpc_iap_call(<<>>, "check")
lpc43xx_cmd_erase ==
    lpc43xx_flash_init \o lpc_iap_call(<<>>, "error") \o lpc_iap_call(<<"start_all">>, "error")

msp432_sector_unprotect == <<"unlock">>
msp432_call_ROM(cmd) == <<cmd, "iap", "noted">>
msp432_sector_erase == msp432_sector_unprotect \o msp432_call_ROM("start") \o <<"lock">>
\* len goes down twice for each sector erased.
msp432_flash_erase(n) == Times((n + 1) \div 2, msp432_sector_erase)
msp432_flash_write ==
    <<"buffer", "check">> \o msp432_sector_unprotect \o msp432_call_ROM("data") \o <<"lock">>

rp_rom_call(cmd) == <<cmd, "rom">>
\* Two calls each, whose results are not looked at: connect_internal_flash and
\* flash_exit_xip, flash_flush_cache and flash_enter_cmd_xip.  Every function that
\* prepares resumes, so is_prepared is FALSE at its start.
rp_flash_prepare == <<"rom_ignored", "command", "rom_ignored">>
rp_flash_resume == <<"rom_ignored", "read", "rom_ignored">>
rp_flash_erase == rp_flash_prepare \o rp_rom_call("start_range")
rp_flash_write == rp_flash_prepare \o <<"buffer", "check">> \o rp_rom_call("data")
rp_cmd_erase_mass == rp_flash_erase

Erase(f, n) ==
    CASE f = "stm32f1" -> stm32f1_flash_erase(n) [] f = "stm32f4" -> stm32f4_flash_erase(n)
      [] f = "stm32l4" -> stm32l4_flash_erase(n) [] f = "stm32g0" -> stm32g0_flash_erase(n)
      [] f = "stm32h7" -> stm32h7_flash_erase(n) [] f = "stm32l0" -> stm32lx_nvm_prog_erase(n)
      [] f = "nrf51" -> nrf51_flash_erase(n)     [] f = "samd" -> samd_flash_erase(n)
      [] f = "samx5x" -> samx5x_flash_erase(n)   [] f = "sam4s" -> sam4_flash_erase(n)
      [] f = "sam3x" -> sam3_flash_erase
      [] f = "sam4l" -> sam4l_flash_erase(n)     [] f = "efm32" -> efm32_flash_erase(n)
      [] f = "lmi" -> lmi_flash_erase(n)         [] f = "kinetis" -> kl_gen_flash_erase(n)
      [] f = "ke04" -> ke04_flash_erase(n)       [] f = "lpc" -> lpc_flash_erase
      [] f = "msp432" -> msp432_flash_erase(n)   [] f = "rp" -> rp_flash_erase
      [] f = "stm32l0_data" -> stm32lx_nvm_data_erase(n)

Write(f) ==
    CASE f = "stm32f1" -> stm32f1_flash_write [] f = "stm32f4" -> stm32f4_flash_write
      [] f = "stm32l4" -> stm32l4_flash_write [] f = "stm32g0" -> stm32g0_flash_write
      [] f = "stm32h7" -> stm32h7_flash_write [] f = "stm32l0" -> stm32lx_nvm_prog_write
      [] f = "nrf51" -> nrf51_flash_write     [] f = "samd" -> samd_flash_write
      [] f = "samx5x" -> samx5x_flash_write   [] f \in {"sam3x", "sam4s"} -> sam3x_flash_write
      [] f = "sam4l" -> sam4l_flash_write_buf [] f = "efm32" -> efm32_flash_write
      [] f = "lmi" -> lmi_flash_write         [] f = "kinetis" -> kl_gen_flash_write
      [] f = "ke04" -> ke04_flash_write       [] f = "lpc" -> lpc_flash_write
      [] f = "msp432" -> msp432_flash_write   [] f = "rp" -> rp_flash_write
      [] f = "stm32l0_data" -> stm32lx_nvm_data_write

HasMass == {"stm32f1", "stm32f4", "stm32l4", "stm32g0", "stm32h7", "nrf51", "efm32",
            "samd", "samx5x", "lpc", "ke04", "rp"}
EraseMass(f) ==
    CASE f = "stm32f1" -> stm32f1_cmd_erase_mass [] f = "stm32f4" -> stm32f4_cmd_erase_mass
      [] f = "stm32l4" -> stm32l4_cmd_erase      [] f = "stm32g0" -> stm32g0_cmd_erase_mass
      [] f = "stm32h7" -> stm32h7_cmd_erase      [] f = "nrf51" -> nrf51_cmd_erase_all
      [] f = "efm32" -> efm32_cmd_erase_all           [] f \in {"samd", "samx5x"} -> samd_cmd_erase_all
      [] f = "lpc" -> lpc43xx_cmd_erase               [] f = "ke04" -> ke04_cmd_mass_erase
      [] f = "rp" -> rp_cmd_erase_mass

HasOptions == {"stm32f1", "stm32f4", "stm32l4", "stm32g0", "stm32l0", "samd", "samx5x"}
Option(f) ==
    CASE f = "stm32f1" -> stm32f1_cmd_option [] f = "stm32f4" -> stm32f4_cmd_option
      [] f = "stm32l4" -> stm32l4_cmd_option [] f = "stm32g0" -> stm32g0_cmd_option
      [] f = "stm32l0" -> stm32lx_cmd_option [] f = "samd" -> samd_set_flashlock
      [] f = "samx5x" -> samx5x_set_flashlock

\* These commands return true (or -1, which is true) when they fail.
Silent(f, op) ==
    \/ op = "option" /\ f \in {"stm32f1", "stm32f4", "stm32l0", "samd"}
    \/ op = "mass" /\ f = "ke04"

\* What runs after the result is known: exit_cleanup and rp_flash_resume.  An option
\* command of the STM32G0 only locks again when it fails.
Cleanup(f, op) ==
    CASE f = "stm32g0" /\ op = "erase" -> <<"clear_eop">> \o stm32g0_flash_lock
      [] f = "stm32g0" /\ op = "write" -> <<"clear_eop", "read">> \o stm32g0_flash_lock
      [] f = "stm32g0" /\ op \in {"mass", "option"} -> stm32g0_flash_lock
      [] f = "rp" -> rp_flash_resume
      [] OTHER -> <<>>
=============================================================================
