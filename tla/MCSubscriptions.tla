--------------------------- MODULE MCSubscriptions ---------------------------
\* Two of the three catalogs: versions and priorities are treated alike.
EXTENDS Subscriptions

TwoCatalogs == <<"statuses", "versions">>
==============================================================================
