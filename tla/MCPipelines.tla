----------------------------- MODULE MCPipelines -----------------------------
EXTENDS Pipelines
CONSTANTS c1, c2
MCCallers == {c1, c2}
\* The key is replaced while the config service fails; it stays where the service answers.
MCWorlds == {<<0, FALSE>>, <<1, TRUE>>}
=============================================================================
