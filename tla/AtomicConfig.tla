---------------------------- MODULE AtomicConfig ----------------------------
(***************************************************************************)
(* What the configuration page promises of a save (admin/server.py:24-25): *)
(* the derived files are put in place first, and the configuration in      *)
(* force then changes as a whole, in one step, to the one they were made   *)
(* of.  AdminSave is shown to implement it.                                *)
(***************************************************************************)
CONSTANTS Config,    \* whole configurations
          Nothing    \* no configuration yet, or one that cannot be read

VARIABLES current,   \* the configuration in force
          prepared   \* those all of whose derived files have been put in place

CInit ==
    /\ current \in Config \cup {Nothing}
    /\ prepared \subseteq Config

Prepare ==
    /\ \E c \in prepared' : c \in Config /\ prepared' = prepared \cup {c}
    /\ UNCHANGED current

Commit == current' \in prepared /\ UNCHANGED prepared

(* The file is edited by hand into something that cannot be parsed.        *)
Spoil == current' = Nothing /\ UNCHANGED prepared

CNext == Prepare \/ Commit \/ Spoil

CSpec == CInit /\ [][CNext]_<<current, prepared>>
=============================================================================
