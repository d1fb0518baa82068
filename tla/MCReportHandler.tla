-------------------------- MODULE MCReportHandler ---------------------------
(***************************************************************************)
(* ReportHandler for TLC: a threshold of two, so that one vote of weight   *)
(* two, or two of weight one, start a disturbance and one keeps it.        *)
(***************************************************************************)
EXTENDS ReportHandler

CONSTANTS blue, green, anna, api, web

TwoLines == <<blue, green>>
=============================================================================
