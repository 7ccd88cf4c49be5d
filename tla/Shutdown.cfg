\* Shutdown with restarts disabled (--norestart), the only setting in which
\* the primary threads return: one extractor and the injector.
CONSTANTS
  Primaries = {1, 2}
  Restart = FALSE

SPECIFICATION Spec
PROPERTY ExitCompletes
