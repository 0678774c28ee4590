---------------------------- MODULE MCDownloader ----------------------------
(* The instance of Downloader for TLC: behaviours in which a download is   *)
(* resumed once its old entry is gone, with broken connections and a       *)
(* crash, and behaviours with immediate resumes and discards.              *)
EXTENDS Downloader

AllScenarios == {{"cancel", "drop", "crash", "expire"},
                 {"cancel", "early", "expire", "discard"}}
=============================================================================
