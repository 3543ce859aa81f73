--------------------------- MODULE MCConsoleCreate ---------------------------
(* Two addresses, one with a word the server takes for an internal one; routes of *)
(* one leg and of two, below and above the first tier, one with a fare on a tie.  *)
EXTENDS ConsoleCreate

Hotel == [name |-> "Hotel", internal |-> FALSE]
Haystack == [name |-> "Haystack Lane", internal |-> TRUE]
MCAddresses == {Hotel, Haystack}
MCLegs == [j \in MCAddresses \X MCAddresses |->
             CASE j = <<Hotel, Haystack>> -> <<4000, 8052>>
               [] j = <<Haystack, Hotel>> -> <<1625>>
               [] OTHER -> <<0>>]
=============================================================================
