----------------------------- MODULE MCGithubJwt -----------------------------
\* The instance of GithubJwt for TLC: a tick is twenty seconds.
EXTENDS GithubJwt
==============================================================================
