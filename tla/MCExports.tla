----------------------------- MODULE MCExports ------------------------------
(***************************************************************************)
(* Either of two brokers' files, the other not given: equity awards of     *)
(* Schwab, or a directory of Trading 212.  The registry loads them one     *)
(* after the other and neither reads what the other left.                  *)
(***************************************************************************)
EXTENDS MCAwards, MCTrading212

NoAwardFile ==
    /\ export = [rows |-> <<>>, restatement |-> "ACQUISITIONS_ONLY",
                 table |-> {}, actual |-> {}]
    /\ stage = "done" /\ at = 0 /\ awards = <<>> /\ warned = {}

NoDirectory ==
    /\ directory = [history |-> <<>>, files |-> <<>>]
    /\ step = "done" /\ reading = 1
    /\ rows = {} /\ visited = {} /\ pairs = {} /\ events = {} /\ statement = <<>>

ExportsInit == (AwardInit /\ NoDirectory) \/ (T212Init /\ NoAwardFile)

ExportsNext ==
    \/ AwardNext /\ UNCHANGED t212Vars
    \/ T212Next /\ UNCHANGED awardVars

ExportsSpec == ExportsInit /\ [][ExportsNext]_<<awardVars, t212Vars>>
=============================================================================
