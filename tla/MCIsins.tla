------------------------------- MODULE MCIsins -------------------------------
(***************************************************************************)
(* Small reference tables and runs of up to three rows: a London fund whose*)
(* ticker is also a US symbol, an alias of a security with a US ISIN, a    *)
(* fund known by two tickers, and a security the table lacks.              *)
(***************************************************************************)
EXTENDS IsinsProperties

MCBundled == [I1 |-> {"OPEN", "OPENF"}, U1 |-> {"NVDA"}, I2 |-> {"VUSA", "VUAG"}]
MCAliases == {<<"U1", "NVD", "NVDA">>, <<"I3", "NVD", "NVDG">>}
MCLookups ==
    [I1 |-> {}, U1 |-> {}, I2 |-> {},
     I3 |-> {{"NVDG"}, {"OPEN"}, {}, {NoTicker, "NVDG"}, {NoTicker}}]
MCUserFiles ==
    {[k \in {} |-> {}],
     [I1 |-> {"OPEN"}],
     [I3 |-> {"NVDG"}, I1 |-> {NoTicker}],
     [I3 |-> {"VUSA"}]}

Exports(symbol, isin, market) == [symbol |-> symbol, isin |-> isin, market |-> market]
MCRows ==
    {Exports("OPEN", NoIsin, "US"), Exports("OPEN", NoIsin, "any"),
     Exports("OPEN", "I1", "any"), Exports("OPENF", NoIsin, "US"),
     Exports("NVD", NoIsin, "any"), Exports("NVD", "U1", "any"), Exports("NVD", "I3", "any"),
     Exports("NVDA", NoIsin, "US"), Exports("NVDA", "U1", "any"),
     Exports("VUSA", NoIsin, "any"), Exports("VUSA", "I3", "any"),
     Exports("VUAG", "I2", "any"), Exports("VUSD", "I2", "any"),
     Exports("NVDG", NoIsin, "any"), Exports("NVDG", "I3", "any"),
     Exports(NoTicker, "I3", "any")}
MCInputs ==
    {[rows |-> rows, reports |-> reports] :
       rows \in UNION {[1 .. n -> MCRows] : n \in 1 .. 2} \cup
                {<<Exports(NoTicker, "I3", "any")>> \o r : r \in [1 .. 2 -> MCRows]},
       reports \in {<<"I3", "I1">>}}
=============================================================================
