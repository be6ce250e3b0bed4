--------------------------- MODULE MCAgendaQueue ---------------------------
(* Instances of AgendaQueue for TLC.                                       *)
EXTENDS AgendaQueue

CONSTANTS work, home, standup, review, groceries

MCAccount == {work, home}

\* One item of each account.
MCPairItem == {standup, groceries}

MCPairOwner == [i \in MCPairItem |-> IF i = groceries THEN home ELSE work]

\* One account with an item to edit and one to create.
MCWorkItem == {standup, review}

MCWorkOwner == [i \in MCWorkItem |-> work]

MCWork == {work}

\* The second item is an event beyond the days a refresh asks for.
MCOutside == {review}

=============================================================================
