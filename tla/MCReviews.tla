------------------------------ MODULE MCReviews ------------------------------
EXTENDS Reviews

\* One suggestion of the first job writes the date, both of the second do.
OnceAndTwice == {<<1, 1>>, <<2, 1>>, <<2, 2>>} \cap Marks
=============================================================================
