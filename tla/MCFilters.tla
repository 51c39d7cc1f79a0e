------------------------------ MODULE MCFilters ------------------------------
\* Small instances of Filters.
EXTENDS Filters

MCNames == <<"EventCountDecreasingError", "SourceNotUpdatedError">>

===============================================================================
