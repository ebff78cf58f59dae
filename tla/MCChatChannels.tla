--------------------------- MODULE MCChatChannels ---------------------------
EXTENDS ChatChannels, TLC

\* Sessions 1 and 3 belong to the first account.
Chars == <<1, 2, 1>>
Sides == <<"alliance", "alliance">>

\* The table has a ban of the first character for one side's channel, and takes
\* the ownership from the other side's.
Table ==
    [t \in Teams |-> [n \in Name |->
        IF t = "alliance" THEN [NoRow EXCEPT !.banned = {1}]
                          ELSE [NoRow EXCEPT !.ownership = FALSE]]]
Configurations == {{}, {"preserve", "restrict_lfg"}}
=============================================================================
