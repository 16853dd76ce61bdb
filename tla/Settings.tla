------------------------------ MODULE Settings ------------------------------
(***************************************************************************)
(* config/config.go: Load, which the daemon and every command call once,   *)
(* each in a process of its own, on one config.yaml.  A file that cannot   *)
(* be read is overwritten with defaults, which the caller does not get to  *)
(* use: Load still returns the error of the read.  A file that is read but *)
(* has a value of the wrong type is left as it is, and fails every Load.   *)
(***************************************************************************)
EXTENDS Naturals

CONSTANTS
    Process,        \* processes of pupmsub
    MaxFaults       \* bound: failures and crashes

ASSUME SettingsAssumption == MaxFaults \in Nat

VARIABLES
    yaml,       \* config.yaml
    cfg,        \* the settings in the memory of each process
    load,       \* where each process is in Load
    faults      \* failures and crashes so far

settings == <<yaml, cfg, load, faults>>

\* Settings with and without a user name and a password, and those of writeDefault.
Written == {"secured", "open", "defaults"}

\* A file that sets nothing: as an administrator has left it, or truncated by Load.
SetsNothing == {"unset", "blank"}

\* The shell script leaves a file, and an administrator may have edited it.
SettingsInit ==
    /\ yaml \in {"secured", "open", "unset", "missing", "broken", "undecodable"}
    /\ cfg = [q \in Process |-> "none"]
    /\ load = [q \in Process |-> "down"]
    /\ faults = 0

LoadGoes(q, from, to) == load[q] = from /\ load' = [load EXCEPT ![q] = to]

Fault == faults < MaxFaults /\ faults' = faults + 1

\* A process starts.
Launch(q) ==
    /\ LoadGoes(q, "down", "read")
    /\ UNCHANGED <<yaml, cfg, faults>>

\* Mutant of ReadInConfig: the zero value of a file that sets nothing is not the zero settings.
ReadInConfig_Raw(q) ==
    /\ yaml \in Written \cup SetsNothing
    /\ LoadGoes(q, "read", "ok")
    /\ cfg' = [cfg EXCEPT ![q] = yaml]
    /\ UNCHANGED <<yaml, faults>>

\* viper reads the file; one that sets nothing is valid YAML, and every setting zero.
ReadInConfig(q) ==
    /\ yaml \in Written \cup SetsNothing
    /\ LoadGoes(q, "read", "ok")
    /\ cfg' = [cfg EXCEPT ![q] = IF yaml \in SetsNothing THEN "zero" ELSE yaml]
    /\ UNCHANGED <<yaml, faults>>

\* It reads the file and cannot decode a value (web_port: abc): Load returns the error,
\* and nobody writes defaults.
UnmarshalFails(q) ==
    /\ yaml = "undecodable"
    /\ LoadGoes(q, "read", "failed")
    /\ cfg' = [cfg EXCEPT ![q] = "partial"]
    /\ UNCHANGED <<yaml, faults>>

\* Mutant of ReadFails: the error of the read is not looked at.
ReadFails_Ignored(q) ==
    /\ yaml \in {"missing", "broken"}
    /\ LoadGoes(q, "read", "ok")
    /\ cfg' = [cfg EXCEPT ![q] = "zero"]
    /\ UNCHANGED <<yaml, faults>>

ReadFails(q) ==
    /\ yaml \in {"missing", "broken"}
    /\ LoadGoes(q, "read", "open")
    /\ cfg' = [cfg EXCEPT ![q] = "defaults"]
    /\ UNCHANGED <<yaml, faults>>

\* viper.WriteConfig truncates the file, or creates it ...
OpenDefaults(q) ==
    /\ LoadGoes(q, "open", "write")
    /\ yaml' = "blank"
    /\ UNCHANGED <<cfg, faults>>

\* Mutant of WriteDefaults: the keys are set and the file is not written.
WriteDefaults_Forgotten(q) ==
    /\ LoadGoes(q, "write", "failed")
    /\ yaml' = "missing"
    /\ UNCHANGED <<cfg, faults>>

\* ... and writes the defaults; its error is dropped.
WriteDefaults(q) ==
    /\ LoadGoes(q, "write", "failed")
    /\ yaml' = "defaults"
    /\ UNCHANGED <<cfg, faults>>

WriteDefaultsFails(q) ==
    /\ load[q] \in {"open", "write"} /\ load' = [load EXCEPT ![q] = "failed"]
    /\ Fault
    /\ UNCHANGED <<yaml, cfg>>

\* main exits, or the process dies, to be started again or not.
Exit(q, to) ==
    /\ load' = [load EXCEPT ![q] = to]
    /\ cfg' = [cfg EXCEPT ![q] = "none"]
    /\ UNCHANGED yaml

Load(q) ==
    \/ ReadInConfig(q) \/ UnmarshalFails(q)
    \/ ReadFails(q) \/ OpenDefaults(q) \/ WriteDefaults(q) \/ WriteDefaultsFails(q)

SettingsOK ==
    /\ yaml \in Written \cup SetsNothing \cup {"missing", "broken", "undecodable"}
    /\ cfg \in [Process -> Written \cup {"zero", "partial", "none"}]
    /\ load \in [Process -> {"down", "read", "open", "write", "ok", "failed", "over"}]
    /\ faults \in 0..MaxFaults
=============================================================================
