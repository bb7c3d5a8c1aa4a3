------------------------ MODULE MCInvestigationReader ------------------------
(* Small instances of InvestigationReader.                                 *)
EXTENDS InvestigationReader, MCAnalysisPublication

(* A reader may come at any time after the first publication.              *)
ReadingInit == StartedInit /\ ReaderInit

StartedReading == ReadingInit /\ [][AllNext]_allVars
=============================================================================
