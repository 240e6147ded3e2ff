-------------------------- MODULE MCCachingCollector --------------------------
\* CachingCollector on a few calls and a short stretch of time.
EXTENDS CachingCollector
=============================================================================
