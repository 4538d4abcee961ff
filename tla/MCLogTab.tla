------------------------------ MODULE MCLogTab ------------------------------
\* A cap of two rows with batches of two and pages of two rows.  While the page is
\* watched a row comes in the middle of the requests; it differs from the others in the
\* case of its channel and has a header that started without hops.
EXTENDS LogTab

MCLower == [c \in {"Fast", "fast", "none"} |-> IF c = "Fast" THEN "fast" ELSE c]

MCContent == [id \in 1..12 |->
    [node |-> "n1", uploader |-> "n2", channel |-> IF id = 4 THEN "Fast" ELSE "fast",
     kind |-> IF id = 1 THEN 1 ELSE 2, hopStart |-> IF id = 4 THEN 0 ELSE 3, hopLimit |-> 0]]

MCChoices == {DefaultLogFilters,
              [DefaultLogFilters EXCEPT !.channel = "fast", !.hopRange = [min |-> 0, max |-> 3]]}

=============================================================================
