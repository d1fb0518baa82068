----------------------------- MODULE MCScraper ------------------------------
(***************************************************************************)
(* Scraper for TLC: two lines and four of the server's responses, so that  *)
(* each line changes by itself and the first one can be missing.           *)
(***************************************************************************)
EXTENDS Scraper

CONSTANTS azul, verde, ok, delays

TwoLines == <<azul, verde>>
TwoMessages == {ok, delays}

Response(first, second) == [n \in {azul, verde} |-> IF n = azul THEN first ELSE second]

FourResponses == {Response(ok, ok), Response(delays, ok), Response(ok, delays),
                  Response(Missing, delays)}
=============================================================================
