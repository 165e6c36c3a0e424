--------------------------- MODULE MC_ReleasePosts ---------------------------
EXTENDS ReleasePosts

\* Logins: a human, a bot account and a human whose login contains 'bot'.
MCLogins    == {"mikejolley", "dependabot[bot]", "abbott"}
MCBotLogins == {"dependabot[bot]", "abbott"}

\* Release names as WooCommerce writes them.
MCNames     == {"WooCommerce 8.2.0 Beta 1", "8.2.0-beta.2", "WooCommerce 8.1.1"}
MCBetaNames == {"WooCommerce 8.2.0 Beta 1", "8.2.0-beta.2"}
MCBetaCased == {"8.2.0-beta.2"}
=============================================================================
