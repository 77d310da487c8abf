---------------------------- MODULE MCGmtSession ----------------------------
EXTENDS GmtSession

\* A file of a frame that is not injectable and one that is.
MCContent == "f" :> <<FALSE, TRUE>>
=============================================================================
